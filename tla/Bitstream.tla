------------------------------ MODULE Bitstream ------------------------------
(***************************************************************************)
(* The bytes of a frame, from VideoToolbox on the host to VideoToolbox on  *)
(* a macOS viewer: NAL units and parameter sets are written as Annex B     *)
(* (renderd_CMSampleBufferExtractNALs), cut into datagrams                 *)
(* (DataSender::fragment_frame), put together again (Slot of receive.rs),  *)
(* searched for parameter sets (videotoolbox_decode.rs) and turned back    *)
(* into NAL units (renderd_VTDecompressionSessionDecodeFrame).  In what    *)
(* order datagrams come, and which are lost, is ReceiveWindow's.           *)
(***************************************************************************)
EXTENDS Integers, Sequences, SequencesExt, FiniteSets, FiniteSetsExt

CONSTANTS
  Codec,         \* "hevc" or "h264"
  ParameterSets, \* what the encoder may describe its stream with: VPS, SPS, PPS or SPS, PPS
  Slices,        \* NAL units of a picture
  MaxSlices,     \* of a frame
  MaxFrames,
  ChunkSize,     \* bytes of a frame that a datagram holds
  MinCapacity    \* least size of the host's output buffer, 64

Bytes == Seq(0 .. 255)
StartCode == <<0, 0, 0, 1>>

\* No start code inside a NAL unit, and no zero at its end: emulation prevention
\* and the trailing bits see to it.
WellFormed(nal) ==
  /\ nal \in Bytes /\ Len(nal) > 0 /\ Last(nal) # 0
  /\ \A i \in 1 .. Len(nal) - 2 : ~(nal[i] = 0 /\ nal[i + 1] = 0 /\ nal[i + 2] \in 0 .. 2)

\* nal_unit_type
Kind(nal) == IF Codec = "hevc" THEN (nal[1] \div 2) % 64 ELSE nal[1] % 32

\* Those of the parameter sets, in the order VideoToolbox is given them.
SetKinds == IF Codec = "hevc" THEN <<32, 33, 34>> ELSE <<7, 8>>

\* What the constants must be; the module that chooses them assumes it.
Assumption ==
  /\ Codec \in {"hevc", "h264"}
  /\ \A s \in ParameterSets :
       /\ s \in Seq(Bytes) /\ Len(s) = Len(SetKinds)
       /\ \A i \in DOMAIN s : WellFormed(s[i]) /\ Kind(s[i]) = SetKinds[i]
  /\ \A n \in Slices : WellFormed(n) /\ Kind(n) \notin ToSet(SetKinds)
  /\ {MaxSlices, MaxFrames, ChunkSize} \subseteq Nat \ {0}
  /\ MinCapacity \in Nat

None == <<>>

VARIABLES
  frames,     \* frames encoded
  inForce,    \* the parameter sets of the encoder's session
  sample,     \* the CMSampleBuffer it put out: key, sets and nals
  data,       \* the frame as bytes; of the host, then of the viewer
  datagrams,  \* of the frame on its way
  needKey,    \* a reference frame was lost: only a keyframe is handed out
  paramSets,  \* of the viewer's decoder: what its session was made with
  session,    \* what VideoToolbox's session was created for
  formatDesc, \* the session's cached description of the stream
  handed,     \* NAL units and description VideoToolbox was last given
  at          \* "encoding", "extracting", "fragmenting", "sending" or "decoding"

viewer == <<needKey, paramSets, session, formatDesc, handed>>
vars == <<frames, inForce, sample, data, datagrams, viewer, at>>

NoSample == [key |-> FALSE, sets |-> None, nals |-> None]
Nothing == [desc |-> None, nals |-> None]

TypeOK ==
  /\ frames \in 0 .. MaxFrames
  /\ inForce \in ParameterSets
  /\ sample.key \in BOOLEAN
  /\ data \in Bytes
  /\ needKey \in BOOLEAN
  /\ paramSets \in Bytes
  /\ at \in {"encoding", "extracting", "fragmenting", "sending", "decoding"}

Init ==
  /\ frames = 0
  /\ inForce \in ParameterSets
  /\ sample = NoSample /\ data = <<>> /\ datagrams = <<>>
  /\ needKey = TRUE /\ paramSets = <<>>
  /\ session = None /\ formatDesc = None /\ handed = Nothing
  /\ at = "encoding"

-----------------------------------------------------------------------------
(* The host.                                                               *)

\* VideoToolbox puts out a frame: the first of a session, made anew for another
\* size, is a keyframe.
Encode ==
  /\ at = "encoding" /\ frames < MaxFrames
  /\ frames' = frames + 1
  /\ inForce' \in ParameterSets
  /\ \E key \in BOOLEAN, nals \in UNION {[1 .. n -> Slices] : n \in 1 .. MaxSlices} :
       /\ key \/ (frames > 0 /\ inForce' = inForce)
       /\ sample' = [key |-> key, sets |-> inForce', nals |-> nals]
  /\ at' = "extracting"
  /\ UNCHANGED <<data, datagrams, viewer>>

\* Bytes that the first of some NAL units take, each behind a start code or a length
\* of four.
EncodedUpTo(nals) ==
  LET upTo[n \in 0 .. Len(nals)] == IF n = 0 THEN 0 ELSE upTo[n - 1] + 4 + Len(nals[n])
  IN upTo

Encoded(nals) == EncodedUpTo(nals)[Len(nals)]

\* renderd_CMSampleBufferEncodedLength: with parameter sets, keyframe or not.
EncodedLength(s) == Encoded(s.sets) + Encoded(s.nals)

\* The units of a sample, the parameter sets ahead of a keyframe's.
NALs(s) == (IF s.key THEN s.sets ELSE <<>>) \o s.nals

\* What the first of some units are written as: nothing that there is no room for.
Written(nals, capacity) ==
  LET out[n \in 0 .. Len(nals)] ==
        IF n = 0 THEN <<>>
        ELSE IF Len(out[n - 1]) + 4 + Len(nals[n]) <= capacity
        THEN out[n - 1] \o StartCode \o nals[n]
        ELSE out[n - 1]
  IN out

\* renderd_CMSampleBufferExtractNALs
ExtractNALs(nals, capacity) == Written(nals, capacity)[Len(nals)]

\* sample_buffer_extract_nals
Extract ==
  /\ at = "extracting"
  /\ LET needed == EncodedLength(sample)
     IN data' = ExtractNALs(NALs(sample), IF needed < MinCapacity THEN MinCapacity ELSE needed)
  /\ at' = "fragmenting"
  /\ UNCHANGED <<frames, inForce, sample, datagrams, viewer>>

\* fragment_frame
FragmentFrame(key, bytes) ==
  LET total == (Len(bytes) + ChunkSize - 1) \div ChunkSize
  IN [i \in 1 .. total |->
        [key |-> key, first |-> i = 1, last |-> i = total, total |-> total,
         chunk |-> SubSeq(bytes, (i - 1) * ChunkSize + 1,
                          IF i = total THEN Len(bytes) ELSE i * ChunkSize)]]

Fragment ==
  /\ at = "fragmenting"
  /\ datagrams' = FragmentFrame(sample.key, data)
  /\ data' = <<>>
  /\ at' = "sending"
  /\ UNCHANGED <<frames, inForce, sample, viewer>>

-----------------------------------------------------------------------------
(* The link.                                                               *)

\* The chunks of the first of some fragments, one after the other.
Assembled(fragments) ==
  LET bytes[n \in 0 .. Len(fragments)] ==
        IF n = 0 THEN <<>> ELSE bytes[n - 1] \o fragments[n].chunk
  IN bytes

\* A frame with all its fragments, put together by their numbers.
Arrive ==
  /\ at = "sending"
  /\ \A i \in DOMAIN datagrams :
       /\ datagrams[i].total = Len(datagrams)
       /\ datagrams[i].first = (i = 1) /\ datagrams[i].last = (i = Len(datagrams))
  /\ datagrams[1].key \/ ~needKey
  /\ data' = Assembled(datagrams)[Len(datagrams)]
  /\ needKey' = FALSE
  /\ datagrams' = <<>>
  /\ at' = "decoding"
  /\ UNCHANGED <<frames, inForce, sample, paramSets, session, formatDesc, handed>>

\* It is lost for good, and frames that refer to it are no better; or it is such
\* a frame.
Lost ==
  /\ at = "sending"
  /\ needKey' = TRUE
  /\ datagrams' = <<>>
  /\ at' = "encoding"
  /\ UNCHANGED <<frames, inForce, sample, data, paramSets, session, formatDesc, handed>>

-----------------------------------------------------------------------------
(* The viewer's scanners.  A start code is 0 0 1, or 0 0 0 1.              *)

Code3(i) == i + 2 <= Len(data) /\ data[i] = 0 /\ data[i + 1] = 0 /\ data[i + 2] = 1
Code4(i) == i + 3 <= Len(data) /\ data[i] = 0 /\ Code3(i + 1)

\* The first of some positions, or the end of the data.
FirstOf(positions) == Min(positions \cup {Len(data) + 1})

\* The position that n - 1 of some positions come before.
Nth(positions, n) == CHOOSE i \in positions : Cardinality({j \in positions : j <= i}) = n

\* The units that a scan finds behind the start codes up to a position: it goes
\* on where the last unit ended.
Units(limit) ==
  LET Starts == {i \in 1 .. limit : (Code3(i) \/ Code4(i)) /\ ~(i > 1 /\ Code4(i - 1))}
      Unit(i) == SubSeq(data, IF Code4(i) THEN i + 4 ELSE i + 3,
                        FirstOf({j \in Starts : j > i}) - 1)
  IN [n \in 1 .. Cardinality(Starts) |-> Unit(Nth(Starts, n))]

WithoutZeros(nal) ==
  SubSeq(nal, 1, Max({0} \cup {i \in DOMAIN nal : nal[i] # 0}))

\* annexb_nal_units looks for the short code only, and the zero of a long one is
\* taken off the unit before it.  Empty units, which it leaves out, are passed over
\* below.
AnnexbNalUnits ==
  LET Starts == {i \in 1 .. Len(data) : Code3(i)}
      Unit(i) == WithoutZeros(SubSeq(data, i + 3, FirstOf({j \in Starts : j > i}) - 1))
  IN [n \in 1 .. Cardinality(Starts) |-> Unit(Nth(Starts, n))]

\* The parameter sets among the first of some units, one after the other.
SetsIn(units) ==
  LET sets[n \in 0 .. Len(units)] ==
        IF n = 0 THEN <<>>
        ELSE IF units[n] # <<>> /\ Kind(units[n]) \in ToSet(SetKinds)
        THEN sets[n - 1] \o units[n]
        ELSE sets[n - 1]
  IN sets

\* parameter_sets
ParameterSetsOf == SetsIn(AnnexbNalUnits)[Len(AnnexbNalUnits)]

\* renderd_CreateFormatDescriptionFromNAL: the last set of each kind, if there is
\* one of each.  It stops looking for a start code four bytes from the end.
CreateFormatDescription ==
  LET units == Units(Len(data) - 4)
      Of(k) == {n \in DOMAIN units : units[n] # <<>> /\ Kind(units[n]) = SetKinds[k]}
  IN IF Len(data) > 8 /\ \A k \in DOMAIN SetKinds : Of(k) # {}
     THEN [k \in DOMAIN SetKinds |-> units[Max(Of(k))]]
     ELSE None

-----------------------------------------------------------------------------
(* The viewer's decoder.                                                   *)

MutRebuilds == session = None

\* Parameter sets other than the session's end it.
Rebuilds == session = None \/ (ParameterSetsOf # <<>> /\ ParameterSetsOf # paramSets)

\* renderd_VTDecompressionSessionCreateFromNAL, which VideoToolbox may refuse.
CreateFromNAL == {None, CreateFormatDescription}

\* renderd_VTDecompressionSessionDecodeFrame: the description the frame brings,
\* kept for those that bring none.
GiveFrame(described) ==
  LET desc == IF CreateFormatDescription # None THEN CreateFormatDescription ELSE described
  IN /\ formatDesc' = desc
     /\ handed' = IF desc = None THEN handed ELSE [desc |-> desc, nals |-> Units(Len(data))]

\* decode_packet: with the session there is, or one made from the frame, which
\* may fail, and does without parameter sets in it.
DecodePacket ==
  /\ at = "decoding"
  /\ paramSets' = IF ParameterSetsOf # <<>> THEN ParameterSetsOf ELSE paramSets
  /\ session' \in IF Rebuilds THEN CreateFromNAL ELSE {session}
  /\ IF session' = None THEN formatDesc' = None /\ handed' = handed /\ needKey' = TRUE
     ELSE GiveFrame(IF Rebuilds THEN None ELSE formatDesc) /\ needKey' = FALSE
  /\ at' = "encoding"
  /\ UNCHANGED <<frames, inForce, sample, data, datagrams>>

Next == Encode \/ Extract \/ Fragment \/ Arrive \/ Lost \/ DecodePacket

Spec == Init /\ [][Next]_vars

-----------------------------------------------------------------------------
(* Properties.                                                             *)

\* VideoToolbox on the viewer is given what VideoToolbox on the host put out: a
\* frame's NAL units with nothing missing or added, a keyframe's behind its
\* parameter sets, described by the parameter sets the host encodes with now,
\* and in a session created for them.
BitstreamWhole ==
  at = "encoding" /\ frames > 0 /\ ~needKey =>
    /\ handed.nals = (IF sample.key THEN sample.sets ELSE <<>>) \o sample.nals
    /\ handed.desc = inForce
    /\ session = inForce
=============================================================================
