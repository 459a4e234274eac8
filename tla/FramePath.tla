----------------------------- MODULE FramePath -----------------------------
(***************************************************************************)
(* How what a plugin draws comes to the Client's screen: the AppHost's     *)
(* window and its backing store (dispatch_draw_and_send() in               *)
(* src/apphost/ui_host_impl.cpp), the PIXEL_DATA frames on their way, and  *)
(* the Client's canvas (src/client/pixel_renderer.cpp).                    *)
(*                                                                         *)
(* A picture maps regions of the window to what is painted there; a        *)
(* rectangle is the set of regions it covers.  Frames arrive in order, as  *)
(* SendQueue and the TCP connections give it, while the session lives.     *)
(***************************************************************************)
EXTENDS Naturals, Sequences

CONSTANTS
    SeqMod,     \* frame_seq is a uint32: 2^32 in the code
    MaxFrames,  \* bound on the frames sent
    MaxFlight   \* bound on the frames in flight

ASSUME FrameAssumption ==
    /\ SeqMod \in Nat \ {0}
    /\ MaxFrames \in Nat /\ MaxFlight \in Nat \ {0}

VARIABLES
    pixels,          \* WindowRuntime::pixels
    frame_seq,       \* State::frame_seq
    frames,          \* PIXEL_DATA in flight, oldest first
    canvas,          \* PixelRenderer::pixels_
    last_frame_seq,  \* PixelRenderer::last_frame_seq_
    room,            \* the regions that lie within the viewer's canvas
    sent             \* frames sent (history)

frameVars == <<pixels, frame_seq, frames, canvas, last_frame_seq, room, sent>>

\* What is on both sides before anything is drawn: zeroed pixels, and the
\* blue of ViewerWindow::Start().  The canvas holds the window or is too small.
FrameInit(regions) ==
    /\ pixels = [r \in regions |-> "blank"]
    /\ frame_seq = 0 /\ frames = <<>>
    /\ canvas = [r \in regions |-> "blank"]
    /\ last_frame_seq = 0
    /\ room \in {regions, regions \cap {"small"}}
    /\ sent = 0

\* pack_pixel_data_rect(): only the rectangle leaves the backing store.
Pack(seq, picture, rect) == [seq |-> seq, data |-> [r \in rect |-> picture[r]]]

\* Room for one more frame, within the bounds.
MayDraw == sent < MaxFrames /\ Len(frames) < MaxFlight

\* Mutant of DrawAndSend: frame_seq is wider than its field.
DrawAndSendWide(picture, rect) ==
    /\ MayDraw
    /\ pixels' = picture
    /\ frame_seq' = frame_seq + 1
    /\ frames' = Append(frames, Pack(frame_seq', picture, rect))
    /\ sent' = sent + 1
    /\ UNCHANGED <<canvas, last_frame_seq, room>>

\* dispatch_draw_and_send(), under on_window_show() with the whole window or
\* on_window_damage(): the plugin paints `picture' into the backing store
\* and the rectangle is sent under the next number.
DrawAndSend(picture, rect) ==
    /\ MayDraw
    /\ pixels' = picture
    /\ frame_seq' = (frame_seq + 1) % SeqMod
    /\ frames' = Append(frames, Pack(frame_seq', picture, rect))
    /\ sent' = sent + 1
    /\ UNCHANGED <<canvas, last_frame_seq, room>>

\* apply_pixel_data_body() and apply_dirty_rect() of the next frame: one
\* that is older than the last applied, or beyond the canvas, is refused.
Apply ==
    /\ frames # <<>>
    /\ frames' = Tail(frames)
    /\ LET f == Head(frames) IN
       IF f.seq < last_frame_seq \/ ~(DOMAIN f.data \subseteq room)
       THEN UNCHANGED <<canvas, last_frame_seq>>
       ELSE /\ canvas' = [r \in DOMAIN canvas |->
                            IF r \in DOMAIN f.data THEN f.data[r] ELSE canvas[r]]
            /\ last_frame_seq' = f.seq
    /\ UNCHANGED <<pixels, frame_seq, room, sent>>

\* All frames arrived at a canvas that holds the window, and the numbers have
\* not wrapped: from then on the Client takes new frames for old ones.
Arrived == frames = <<>> /\ DOMAIN canvas \subseteq room /\ sent < SeqMod
=============================================================================
