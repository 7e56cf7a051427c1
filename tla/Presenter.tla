------------------------------ MODULE Presenter -------------------------------
(***************************************************************************)
(* The D3D11 presenter of the Windows viewer                               *)
(* (crates/renderd-viewer/src/render/d3d11_presenter.rs): the swap chain,  *)
(* the video processor made for one size of texture and one of window, its *)
(* views of textures, cached by a texture's address, the texture that      *)
(* frames from system memory are uploaded to, and what is on screen, which *)
(* a resize draws again.  What frames it is given and when is              *)
(* ViewerPipeline's; where in the window the picture goes is Picture's.    *)
(*                                                                         *)
(* All of it runs on the window's thread, each call to its end; calls      *)
(* into D3D11 and DXGI may fail.  An error while showing a frame has the   *)
(* app replace the presenter; one while resizing is only logged.           *)
(*                                                                         *)
(* A frame is told by where it is: it is drawn as soon as it is there.     *)
(***************************************************************************)
EXTENDS Naturals, Sequences

CONSTANTS
  Windows,      \* sizes of the window
  Codeds,       \* sizes of textures
  Slices,       \* of a decoder's texture array
  Addresses,    \* where textures may be
  MaxViews,     \* MAX_CACHED_INPUT_VIEWS
  MaxTextures

\* What the constants must be; the module that chooses them assumes it.
Assumption ==
  /\ {MaxViews, MaxTextures} \subseteq Nat \ {0}
  /\ {Windows, Codeds, Slices, Addresses} \subseteq SUBSET (Nat \ {0})

None == <<>>
Minimised == 0

VARIABLES
  made,       \* textures created, which numbers them
  textures,   \* the ones there are, or were: where each is and of what size
  decoders,   \* the texture the decoder decodes into
  chain,      \* size of the swap chain's buffers
  size,       \* D3d11Presenter::size
  window,     \* size of the window
  processor,  \* VideoPipeline: input and output size, and which one it is
  built,      \* the number of the last one made, of two
  views,      \* input_views: address, slice, and what the view is of and for
  upload,     \* the texture frames are uploaded to
  shown,      \* Shown: texture and slice
  screen,     \* what the window shows
  missed,     \* history: a resize failed and nothing was drawn whole since
  gone        \* the presenter was replaced

gpu == <<made, textures, decoders>>
presenter == <<chain, size, processor, built, views, upload, shown>>
vars == <<gpu, presenter, window, screen, missed, gone>>

Texture == 1 .. MaxTextures
Slice == Slices \cup {0}
Drawn ==
  [texture : Texture \cup {0}, slice : Slice, by : [input : Codeds, output : Windows], size : Windows]

TypeOK ==
  /\ made \in 0 .. MaxTextures
  /\ textures \in [1 .. made -> [at : Addresses, size : Codeds]]
  /\ {decoders, upload} \subseteq 0 .. made
  /\ built \in {0, 1}
  /\ {chain, size} \subseteq Windows \cup {0}
  /\ window \in Windows \cup {Minimised}
  /\ Len(views) <= MaxViews
  /\ {missed, gone} \subseteq BOOLEAN
  /\ screen \in Drawn \cup {None}

Init ==
  /\ made = 0 /\ textures = <<>> /\ decoders = 0
  /\ chain = 0 /\ size = 0 /\ window \in Windows
  /\ processor = None /\ built = 0 /\ views = <<>> /\ upload = 0
  /\ shown = None /\ screen = None
  /\ missed = FALSE /\ gone = FALSE

MutHeld ==
  {decoders, upload} \cup (IF shown = None THEN {} ELSE {shown.texture})

\* Textures somebody refers to: a view does, as well as who uses it.  The address
\* of any other may come to be another's.
Held ==
  {decoders, upload} \cup (IF shown = None THEN {} ELSE {shown.texture})
    \cup {views[i].of : i \in DOMAIN views}

Vacant == Addresses \ {textures[t].at : t \in Held \ {0}}

\* ID3D11Device::CreateTexture2D
CreateTexture(coded) ==
  /\ made < MaxTextures /\ Vacant # {}
  /\ made' = made + 1
  /\ \E a \in Vacant : textures' = Append(textures, [at |-> a, size |-> coded])

-----------------------------------------------------------------------------
(* Drawing.  What a call leaves behind is written as a function of what it *)
(* finds: the processor, how many were made, and the views.                *)

Now == [processor |-> processor, built |-> built, views |-> views]

MutEnsureProcessor(p, input, output) ==
  IF p.processor # None /\ p.processor.input = input /\ p.processor.output = output THEN p
  ELSE [processor |-> [input |-> input, output |-> output, number |-> 1 - p.built],
        built |-> 1 - p.built, views |-> p.views]

\* ensure_processor: another one for other sizes, and no view outlives its own.
EnsureProcessor(p, input, output) ==
  IF p.processor # None /\ p.processor.input = input /\ p.processor.output = output THEN p
  ELSE [processor |-> [input |-> input, output |-> output, number |-> 1 - p.built],
        built |-> 1 - p.built, views |-> <<>>]

\* CreateVideoProcessor, or its enumerator, may fail: the old one is gone by then.
NoProcessor(p) == [p EXCEPT !.processor = None, !.views = <<>>]

\* Where the views of a slice of the texture at an address are cached, if any are.
ViewFor(p, at, slice) == {i \in DOMAIN p.views : p.views[i].at = at /\ p.views[i].slice = slice}

\* A full cache of views is emptied.
Room(p) == [p EXCEPT !.views = IF Len(@) >= MaxViews THEN <<>> ELSE @]

\* input_view: the one cached, or one made by the processor's enumerator.
InputView(p, t, slice, all) ==
  IF ViewFor(p, all[t].at, slice) # {} THEN p
  ELSE [p EXCEPT !.views =
          Append(Room(p).views,
                 [at |-> all[t].at, slice |-> slice, of |-> t, by |-> p.processor.number])]

\* VideoProcessorBlt draws what the view is of into a buffer of the swap chain.
Blt(p, t, slice, all, buffers) ==
  LET found == ViewFor(p, all[t].at, slice)
      view == p.views[CHOOSE i \in found : \A j \in found : i <= j]
  IN [texture |-> IF view.by = p.processor.number THEN view.of ELSE 0, slice |-> view.slice,
      by |-> [input |-> p.processor.input, output |-> p.processor.output],
      size |-> buffers]

Left(p) ==
  /\ processor' = p.processor /\ built' = p.built /\ views' = p.views

\* draw and present_now, which shows what was drawn: with the texture shown, the
\* textures, buffers and the window's size as the caller leaves them.
Draw(s, all, buffers, wanted) ==
  LET whole == InputView(EnsureProcessor(Now, all[s.texture].size, wanted), s.texture, s.slice, all)
  IN /\ Left(whole)
     /\ screen' = Blt(whole, s.texture, s.slice, all, buffers)

DrawFails(s, all, wanted) ==
  LET p == EnsureProcessor(Now, all[s.texture].size, wanted)
  IN \/ p # Now /\ Left(NoProcessor(p))
     \/ Left(p)
     \/ ViewFor(p, all[s.texture].at, s.slice) = {} /\ Left(Room(p))
     \/ Left(InputView(p, s.texture, s.slice, all))

-----------------------------------------------------------------------------
(* The decoder, and the frames it hands over.                              *)

\* A session begins: the decoder's surfaces are slices of another texture.
DecoderBegins ==
  /\ ~gone
  /\ \E coded \in Codeds : CreateTexture(coded)
  /\ decoders' = made + 1
  /\ UNCHANGED <<presenter, window, screen, missed, gone>>

\* upload: a texture for frames of this size, the one at hand if it will do.
Upload(coded) ==
  IF upload # 0 /\ textures[upload].size = coded
  THEN UNCHANGED <<made, textures, upload>>
  ELSE CreateTexture(coded) /\ upload' = made + 1

Running == chain # 0 /\ ~gone

\* What render_frame is given: a slice of the decoder's texture that nobody shows,
\* or a frame in system memory, uploaded first.
OnGpu(s) ==
  /\ decoders # 0
  /\ s = [texture |-> decoders, slice |-> s.slice] /\ s # shown
  /\ UNCHANGED <<made, textures, upload>>

Uploaded(s) ==
  /\ \E coded \in Codeds : Upload(coded)
  /\ s = [texture |-> upload', slice |-> 0]

Given(s) == IF s.slice = 0 THEN Uploaded(s) ELSE OnGpu(s)

\* render_frame and present.
RenderFrame ==
  /\ Running
  /\ \E s \in [texture : Texture, slice : Slice] :
       /\ Given(s)
       /\ shown' = s
       /\ Draw(s, textures', chain, size)
  /\ missed' = (missed /\ chain # size)
  /\ UNCHANGED <<decoders, chain, size, window, gone>>

\* ... of which a step fails, the upload, a part of draw or Present, or the start
\* did: the app shuts the presenter down and goes on with the software renderer.  What is left of
\* the decoder's textures is not followed.
RenderFails ==
  /\ ~gone
  /\ gone' = TRUE
  /\ made' = 0 /\ textures' = <<>> /\ decoders' = 0
  /\ chain' = 0 /\ size' = 0 /\ processor' = None /\ built' = 0 /\ views' = <<>>
  /\ upload' = 0 /\ shown' = None /\ screen' = None /\ missed' = FALSE
  /\ UNCHANGED window

-----------------------------------------------------------------------------
(* The window.                                                             *)

\* create_swapchain, and ResizeBuffers of what it made.
Swapchain(w) == size' = w /\ chain' = w

\* attach_window and initialize
Initialize ==
  /\ chain = 0 /\ ~gone
  /\ Swapchain(window)
  /\ UNCHANGED <<gpu, window, processor, built, views, upload, shown, screen, missed, gone>>

MutRedraw(w) ==
  UNCHANGED <<processor, built, views, screen, missed>>

\* The end of resize: what was on screen is drawn again, if anything was.
Redraw(w) ==
  IF shown = None
  THEN UNCHANGED <<processor, built, views, screen, missed>>
  ELSE Draw(shown, textures, w, w) /\ missed' = FALSE

\* resize: the buffers first.
Resize ==
  /\ Running
  /\ \E w \in Windows \ {window} :
       /\ window' = w /\ Swapchain(w)
       /\ Redraw(w)
  /\ UNCHANGED <<gpu, upload, shown, gone>>

\* ... which may fail, and so may drawing into them; the error is logged.
ResizeFails ==
  /\ Running
  /\ \E w \in Windows \ {window} :
       /\ window' = w /\ size' = w
       /\ \/ UNCHANGED <<chain, processor, built, views>>
          \/ chain' = w /\ shown # None /\ DrawFails(shown, textures, w)
  /\ missed' = TRUE
  /\ UNCHANGED <<gpu, upload, shown, screen, gone>>

\* A size of nothing: the buffers are kept until the window comes back.
Minimise ==
  /\ Running /\ window # Minimised
  /\ window' = Minimised
  /\ UNCHANGED <<gpu, presenter, screen, missed, gone>>

Next ==
  \/ DecoderBegins
  \/ RenderFrame \/ RenderFails
  \/ Initialize \/ Resize \/ ResizeFails \/ Minimise

Spec == Init /\ [][Next]_vars

-----------------------------------------------------------------------------
(* Properties.                                                             *)

\* A cached view is of the texture that is at its address now, and of the
\* processor in use: neither outlives what it was made for.
ViewsTrue ==
  \A i \in DOMAIN views :
    /\ textures[views[i].of].at = views[i].at
    /\ processor # None /\ views[i].by = processor.number

\* The window shows the newest frame, drawn from its own slice of its own texture
\* for the size the window has, whatever textures, processors and views came and
\* went since.
ScreenCurrent ==
  Running /\ shown # None /\ ~missed /\ window # Minimised =>
    screen = [texture |-> shown.texture, slice |-> shown.slice,
              by |-> [input |-> textures[shown.texture].size, output |-> window],
              size |-> window]

ScreenTrue == ViewsTrue /\ ScreenCurrent
=============================================================================
