----------------------------- MODULE Negotiation -----------------------------
(***************************************************************************)
(* Stream 0: the viewer says what it can decode and show (SessionHello),   *)
(* the host answers with what it will send (SessionConfig).  The two ends  *)
(* (network/control.rs of the viewer and of the host), what they accept    *)
(* (crates/renderd-proto/src/envelope.rs), the frames their messages       *)
(* travel in (crates/renderd-net/src/framing.rs) and the size the host     *)
(* chooses (crates/renderd-host/src/scale.rs).  The host's session, which  *)
(* another connection may have taken meanwhile, is HostSession's.          *)
(***************************************************************************)
EXTENDS Integers, Sequences, SequencesExt

CONSTANTS
  Offers,           \* lists of codecs a viewer may offer, best first
  Displays,         \* [w, h]: the sizes of viewers' windows
  Refresh,          \* their refresh rates, in Hz
  HostRates,        \* target_fps of hosts,
  Ceilings,         \* their bitrate ceilings, in kbps,
  MaxHeights,       \* and their max_stream_height, 0 for automatic
  StandardHeights   \* tried below the display's own, tallest first

Codecs == {"hevc", "h264"}          \* HOST_SUPPORTED_CODECS

\* What the constants must be; the module that chooses them assumes it.
Assumption ==
  /\ Offers \subseteq Seq(Codecs) \ {<<>>}
  /\ Displays \subseteq [w : Nat \ {0}, h : Nat \ {0}]
  /\ Refresh \cup HostRates \cup Ceilings \subseteq Nat \ {0}
  /\ MaxHeights \subseteq Nat \ {1}     \* validate takes 0, or 360 and more
  /\ StandardHeights \in Seq(Nat \ {0, 1}) \ {<<>>}
  /\ \A i, j \in DOMAIN StandardHeights : i < j => StandardHeights[i] > StandardHeights[j]

VARIABLES
  offer,     \* codecs, display and refresh rate: the hello's
  settings,  \* fps, ceiling and maxHeight: the host's
  config,    \* codec, size and fps: what the host answered
  viewer,    \* "opening", "awaiting", "agreed" or "failed"
  host,      \* "accepting", "answered", "connected" or "failed"
  up, down   \* Stream 0: frames on their way, of the whole message or cut short

vars == <<offer, settings, config, viewer, host, up, down>>

Hello == [codecs : Offers, display : Displays, refresh : Refresh]
Settings == [fps : HostRates, ceiling : Ceilings, maxHeight : MaxHeights]
None == [codec |-> "none", size |-> [w |-> 0, h |-> 0], fps |-> 0]
Whole == "whole"
Cut == "cut"

TypeOK ==
  /\ offer \in Hello /\ settings \in Settings
  /\ config = None \/ config \in [codec : Codecs, size : [w : Nat, h : Nat], fps : Nat]
  /\ viewer \in {"opening", "awaiting", "agreed", "failed"}
  /\ host \in {"accepting", "answered", "connected", "failed"}
  /\ {up, down} \subseteq {<<>>, <<Whole>>, <<Cut>>}

Init ==
  /\ offer \in Hello /\ settings \in Settings
  /\ config = None
  /\ viewer = "opening" /\ host = "accepting"
  /\ up = <<>> /\ down = <<>>

-----------------------------------------------------------------------------
(* stream_size.  Its arithmetic is done here in thousands of pixels a      *)
(* second, where the code divides floats.                                  *)

AtLeast(a, b) == IF a < b THEN b ELSE a
AtMost(a, b) == IF a < b THEN a ELSE b

MutEven(v) == AtLeast(v, 2)
Even(v) == LET u == AtLeast(v, 2) IN u - (u % 2)

\* What a display counts as: one pixel is no picture.
Displayed(d) == [w |-> AtLeast(d.w, 2), h |-> AtLeast(d.h, 2)]

\* The display scaled down to a height.
Scaled(d, height) ==
  LET h == AtMost(height, d.h)
  IN [w |-> Even((d.w * h) \div d.h), h |-> Even(h)]

\* Thousandths of a bit per pixel that a codec needs.
BitsPerPixelFloor(codec) == IF codec = "h264" THEN 69 ELSE 65

Affords(ceiling, fps, codec, size) ==
  ((size.w * size.h * fps) \div 1000) * BitsPerPixelFloor(codec) <= ceiling * 1000

\* The display's own height if the ceiling can feed it, else the first of the
\* lower ones that it can, else the lowest; a height that was configured is
\* taken whatever it costs.
StreamSize(display, fps, codec, ceiling, maxHeight) ==
  LET d == Displayed(display)
      cap == IF maxHeight = 0 THEN d.h ELSE AtMost(maxHeight, d.h)
      Fits(h) == maxHeight # 0 \/ Affords(ceiling, fps, codec, Scaled(d, h))
      fitting == {i \in DOMAIN StandardHeights : StandardHeights[i] < cap /\ Fits(StandardHeights[i])}
  IN Scaled(d, IF Fits(cap) THEN cap
               ELSE IF fitting # {} THEN StandardHeights[Min(fitting)]
               ELSE AtMost(StandardHeights[Len(StandardHeights)], cap))

\* negotiate_frame_rate: a viewer's rate under 20 Hz is not believed.
FrameRate(target, refresh) == IF refresh >= 20 THEN AtMost(target, refresh) ELSE target

\* The first codec of the viewer's that the host has.
SelectedCodec(codecs) == codecs[Min({i \in DOMAIN codecs : codecs[i] \in Codecs})]

-----------------------------------------------------------------------------
(* What each end accepts.                                                  *)

ValidHello(h) ==
  /\ h.codecs # <<>> /\ ToSet(h.codecs) \subseteq Codecs
  /\ h.display.w # 0 /\ h.display.h # 0
  /\ h.refresh > 0

ValidConfig(c) ==
  /\ c.codec \in Codecs
  /\ c.size.w # 0 /\ c.size.h # 0
  /\ c.fps > 0

-----------------------------------------------------------------------------
(* The exchange.                                                           *)

\* send_control: the length, then the message, and no sign of how much of it
\* the other end will get.
SendControl == {<<Whole>>, <<Cut>>}

\* recv_control: all of it or an error.
Received(stream) == stream = <<Whole>>
Broken(stream) == stream = <<Cut>>

\* negotiate opens the stream and sends the hello it finds valid itself.
SendHello ==
  /\ viewer = "opening"
  /\ IF ValidHello(offer)
     THEN viewer' = "awaiting" /\ up' \in SendControl
     ELSE viewer' = "failed" /\ up' = up
  /\ UNCHANGED <<offer, settings, config, host, down>>

\* handle_connection reads and checks the hello and answers it.
AnswerHello ==
  /\ host = "accepting" /\ Received(up) /\ ValidHello(offer)
  /\ LET codec == SelectedCodec(offer.codecs)
         fps == FrameRate(settings.fps, offer.refresh)
     IN config' = [codec |-> codec, fps |-> fps,
                   size |-> StreamSize(offer.display, fps, codec, settings.ceiling, settings.maxHeight)]
  /\ host' = "answered"
  /\ up' = <<>> /\ down' \in SendControl
  /\ UNCHANGED <<offer, settings, viewer>>

\* complete_pairing, which fails when another viewer was faster.
CompletePairing ==
  /\ host = "answered"
  /\ host' \in {"connected", "failed"}
  /\ UNCHANGED <<offer, settings, config, viewer, up, down>>

\* The rest of the hello does not come, or nothing does.
HelloFails ==
  /\ host = "accepting"
  /\ Broken(up) \/ viewer = "failed" \/ (Received(up) /\ ~ValidHello(offer))
  /\ host' = "failed"
  /\ UNCHANGED <<offer, settings, config, viewer, up, down>>

\* The viewer has the host's config, and streams with it.
TakeConfig ==
  /\ viewer = "awaiting" /\ Received(down)
  /\ viewer' = IF ValidConfig(config) THEN "agreed" ELSE "failed"
  /\ down' = <<>>
  /\ UNCHANGED <<offer, settings, config, host, up>>

\* ... or the connection was closed before it had all of it.
ConfigFails ==
  /\ viewer = "awaiting"
  /\ Broken(down) \/ host = "failed"
  /\ viewer' = "failed"
  /\ UNCHANGED <<offer, settings, config, host, up, down>>

Next ==
  \/ SendHello \/ AnswerHello \/ CompletePairing \/ HelloFails
  \/ TakeConfig \/ ConfigFails

Spec == Init /\ [][Next]_vars

-----------------------------------------------------------------------------
(* Properties.                                                             *)

Pixels(size) == size.w * size.h

\* The sizes the host may choose from.
Candidates ==
  LET d == Displayed(offer.display)
  IN {Scaled(d, h) : h \in {d.h} \cup {h \in ToSet(StandardHeights) : h < d.h}}

\* No size the ceiling affords is larger than the one chosen, which is the
\* smallest there is if it affords none; a configured height is a bound.
WellSized(size) ==
  IF settings.maxHeight # 0 THEN size.h <= settings.maxHeight
  ELSE LET Fits(s) == Affords(settings.ceiling, config.fps, config.codec, s)
       IN /\ size \in Candidates
          /\ Fits(size) \/ \A s \in Candidates : ~Fits(s) /\ Pixels(size) <= Pixels(s)
          /\ \A s \in Candidates : Fits(s) => Pixels(s) <= Pixels(size)

\* In the display, in its shape but for rounding, and even, which 4:2:0 needs.
Shown(size) ==
  LET d == Displayed(offer.display)
  IN /\ size.w <= d.w /\ size.h <= d.h
     /\ size.w % 2 = 0 /\ size.h % 2 = 0
     /\ size.w * d.h - size.h * d.w \in -(2 * (d.w + d.h)) .. 2 * (d.w + d.h)

\* What the two ends agree on suits both: the codec the viewer likes best, no
\* more frames than it shows if that is to be believed, and the best size of its display's shape that the
\* host's bitrate can feed.  No host answers what its viewer then refuses.
StreamAgreed ==
  /\ config # None => ValidConfig(config)
  /\ viewer = "agreed" \/ host = "connected" =>
       /\ config.codec = Head(offer.codecs)
       /\ config.fps <= settings.fps /\ (offer.refresh >= 20 => config.fps <= offer.refresh)
       /\ Shown(config.size) /\ WellSized(config.size)
=============================================================================
