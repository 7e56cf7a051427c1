----------------------------- MODULE D3D12Decode -----------------------------
(***************************************************************************)
(* The D3D12 decoder of the viewer (decode/d3d12_decode.rs): one packet is *)
(* copied up on the DIRECT queue, decoded on the VIDEO_DECODE queue and    *)
(* copied down on the DIRECT queue, the GPU ordering the three by one      *)
(* fence, and the CPU waits for the last.  Each command list is recorded   *)
(* from an allocator that is reset first.                                  *)
(*                                                                         *)
(* Content is the number of the call whose packet or picture it is.        *)
(***************************************************************************)
EXTENDS Naturals, Sequences, SequencesExt

CONSTANTS
  MaxCalls,   \* packets given to the decoder
  MaxErrors   \* calls that return early, and initializations that fail

\* What the constants must be; the module that chooses them assumes it.
Assumption == MaxCalls \in Nat \ {0} /\ MaxErrors \in Nat

Queue == {"direct", "video"}
Allocator == {"direct", "video", "direct_copy"}
Work == {"upload", "decode", "copy"}

VARIABLES
  handles,    \* the D3D12 objects exist; initialized is set before they do
  call,       \* the packet being decoded, or the last
  at,         \* where decode_inner is
  allocator,  \* which list each allocator was last reset for, by its fence value
  queues,     \* what each GPU queue has yet to do
  fenceValue, \* D3D12Decoder::fence_value
  fence,      \* the fence's completed value
  upload, bitstream, texture, readback,   \* the contents of the four resources
  frames,     \* the frames returned: [call, picture]
  errors, abandoned   \* calls that failed; history: one did with work queued

resources == <<upload, bitstream, texture, readback>>
vars == <<handles, call, at, allocator, queues, fenceValue, fence, resources, frames, errors, abandoned>>

Call == 0 .. MaxCalls
List(work, alloc) == [op |-> work, alloc |-> alloc, call |-> call, value |-> fenceValue + 1]
Signal(value) == [op |-> "signal", alloc |-> "none", call |-> call, value |-> value]
Wait(value) == [op |-> "wait", alloc |-> "none", call |-> call, value |-> value]

TypeOK ==
  /\ handles \in BOOLEAN /\ abandoned \in BOOLEAN
  /\ call \in Call
  /\ at \in {"idle", "mapped", "uploaded", "decoded", "copied", "readable"}
  /\ allocator \in [Allocator -> Nat]
  /\ \A q \in Queue : queues[q] \in Seq([op : Work \cup {"signal", "wait"}, alloc : Allocator \cup {"none"},
                                         call : Call, value : Nat])
  /\ fenceValue \in Nat /\ fence \in 0 .. fenceValue
  /\ {upload, bitstream, texture, readback} \subseteq Call
  /\ frames \subseteq [call : Call, picture : Call]
  /\ errors \in 0 .. MaxErrors

Init ==
  /\ handles = FALSE /\ call = 0 /\ at = "idle"
  /\ allocator = [a \in Allocator |-> 0]
  /\ queues = [q \in Queue |-> <<>>]
  /\ fenceValue = 0 /\ fence = 0
  /\ upload = 0 /\ bitstream = 0 /\ texture = 0 /\ readback = 0
  /\ frames = {} /\ errors = 0 /\ abandoned = FALSE

-----------------------------------------------------------------------------
(* The receive task.                                                       *)

\* initialize: everything is made, or the first failing step leaves no handle.
Initialize ==
  /\ ~handles
  /\ \/ handles' = TRUE /\ errors' = errors
     \/ handles' = FALSE /\ errors < MaxErrors /\ errors' = errors + 1
  /\ UNCHANGED <<call, at, allocator, queues, fenceValue, fence, resources, frames, abandoned>>

\* decode_inner: the packet is written to the upload buffer ...
MapUpload ==
  /\ handles /\ at = "idle" /\ call < MaxCalls
  /\ call' = call + 1
  /\ upload' = call + 1
  /\ at' = "mapped"
  /\ UNCHANGED <<handles, allocator, queues, fenceValue, fence, bitstream, texture, readback, frames, errors, abandoned>>

\* An allocator is reset, a list recorded from it and queued, with a signal of
\* the next fence value.  after: what the list's queue waits for first.
Submit(queue, work, alloc, after) ==
  /\ allocator' = [allocator EXCEPT ![alloc] = fenceValue + 1]
  /\ fenceValue' = fenceValue + 1
  /\ queues' = [queues EXCEPT ![queue] = @ \o after \o <<List(work, alloc), Signal(fenceValue + 1)>>]
  /\ UNCHANGED <<handles, call, fence, resources, frames, errors, abandoned>>

SubmitUpload ==
  /\ at = "mapped"
  /\ at' = "uploaded"
  /\ Submit("direct", "upload", "direct", <<>>)

MutSubmitDecodeLate ==
  /\ at = "uploaded"
  /\ at' = "decoded"
  /\ Submit("video", "decode", "video", <<Wait(fenceValue + 1)>>)

MutSubmitDecode ==
  /\ at = "uploaded"
  /\ at' = "decoded"
  /\ Submit("video", "decode", "video", <<>>)

SubmitDecode ==
  /\ at = "uploaded"
  /\ at' = "decoded"
  /\ Submit("video", "decode", "video", <<Wait(fenceValue)>>)

SubmitCopy ==
  /\ at = "decoded"
  /\ at' = "copied"
  /\ Submit("direct", "copy", "direct_copy", <<Wait(fenceValue)>>)

\* The CPU waits for the copy's fence value.
CpuWait ==
  /\ at = "copied" /\ fence >= fenceValue
  /\ at' = "readable"
  /\ UNCHANGED <<handles, call, allocator, queues, fenceValue, fence, resources, frames, errors, abandoned>>

\* ... and the picture is read out of the readback buffer.
ReadBack ==
  /\ at = "readable"
  /\ at' = "idle"
  /\ frames' = frames \cup {[call |-> call, picture |-> readback]}
  /\ UNCHANGED <<handles, call, allocator, queues, fenceValue, fence, resources, errors, abandoned>>

\* A D3D12 call fails and decode_inner returns at once, whatever is queued.
Fails ==
  /\ at # "idle" /\ errors < MaxErrors
  /\ at' = "idle"
  /\ errors' = errors + 1
  /\ abandoned' = (abandoned \/ at \in {"uploaded", "decoded", "copied"})
  /\ UNCHANGED <<handles, call, allocator, queues, fenceValue, fence, resources, frames>>

-----------------------------------------------------------------------------
(* The GPU: each queue runs in order, the two at their own pace.           *)

Busy(queue) == queues[queue] # <<>>
Done(queue) == queues' = [queues EXCEPT ![queue] = Tail(@)]

Run(queue) ==
  /\ Busy(queue) /\ Head(queues[queue]).op \in Work
  /\ Done(queue)
  /\ LET work == Head(queues[queue]).op IN
       /\ bitstream' = IF work = "upload" THEN upload ELSE bitstream
       /\ texture' = IF work = "decode" THEN bitstream ELSE texture
       /\ readback' = IF work = "copy" THEN texture ELSE readback
  /\ UNCHANGED <<handles, call, at, allocator, fenceValue, fence, upload, frames, errors, abandoned>>

Signalled(queue) ==
  /\ Busy(queue) /\ Head(queues[queue]).op = "signal"
  /\ Done(queue)
  /\ fence' = Head(queues[queue]).value
  /\ UNCHANGED <<handles, call, at, allocator, fenceValue, resources, frames, errors, abandoned>>

Waited(queue) ==
  /\ Busy(queue) /\ Head(queues[queue]).op = "wait" /\ fence >= Head(queues[queue]).value
  /\ Done(queue)
  /\ UNCHANGED <<handles, call, at, allocator, fenceValue, fence, resources, frames, errors, abandoned>>

-----------------------------------------------------------------------------
Gpu == \E q \in Queue : Run(q) \/ Signalled(q) \/ Waited(q)

Decode == MapUpload \/ SubmitUpload \/ SubmitDecode \/ SubmitCopy \/ CpuWait \/ ReadBack

Next == Initialize \/ Decode \/ Fails \/ Gpu

Spec == Init /\ [][Next]_vars

-----------------------------------------------------------------------------
(* Properties.                                                             *)

\* An allocator is not reset while a list recorded from it has yet to run.
ListsIntact ==
  \A q \in Queue : \A op \in ToSet(queues[q]) : op.op \in Work => allocator[op.alloc] = op.value

\* A frame returned shows its own packet's picture, decoded and copied whole, by
\* lists that were left alone until they had run; unless a call returned early
\* with work queued.
FramesTrue == ~abandoned => ListsIntact /\ \A f \in frames : f.picture = f.call

\* The CPU's wait, which has no timeout, ends: no queue waits for a value that
\* nobody will signal, or that a slower queue's older signal undoes.
DecodeEnds == at = "copied" ~> (at # "copied" \/ abandoned)
=============================================================================
