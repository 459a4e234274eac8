-------------------------- MODULE RemoteAppProofs --------------------------
(***************************************************************************)
(* The properties of RemoteApp, for every board size, sequence modulus,    *)
(* bound, key and point: Mirror, the end of the game, types, the score and *)
(* the inputs' way to the plugin.                                          *)
(*                                                                         *)
(* Mirror is not inductive, since it says nothing of frames in flight.     *)
(* FrameInv does: for each region, the newest frame that carries it        *)
(* carries what the backing store has, and where none does, the canvas has *)
(* it already; Numbered keeps the Client from refusing any of them.  A     *)
(* frame leaves regions out, so each draw must paint the same there as the *)
(* last one: that needs LookInv, what the plugin has painted so far.       *)
(***************************************************************************)
EXTENDS RemoteApp, Board2048Proofs

IsSeq(s) == \E S : s \in Seq(S)

\* The shapes of the pictures and frames.
Pictures ==
    /\ IsSeq(frames)
    /\ DOMAIN pixels = Whole /\ DOMAIN canvas = Whole
    /\ \A i \in 1 .. Len(frames) :
          frames[i].seq \in Nat /\ DOMAIN frames[i].data \subseteq Whole
    /\ room \subseteq Whole
    /\ frame_seq \in Nat /\ last_frame_seq \in Nat /\ sent \in Nat

\* Until the numbers wrap, the frames in flight are the last ones sent, and no
\* newer one was applied.
Numbered ==
    sent < SeqMod =>
      /\ frame_seq = sent
      /\ last_frame_seq + Len(frames) <= sent
      /\ \A i \in 1 .. Len(frames) : frames[i].seq = sent - Len(frames) + i

\* Frame i is the newest that carries region r.
NewestWith(r, i) ==
    /\ r \in DOMAIN frames[i].data
    /\ \A j \in i+1 .. Len(frames) : r \notin DOMAIN frames[j].data

Carried ==
    room = Whole /\ sent < SeqMod =>
      \A r \in Whole :
        /\ \A i \in 1 .. Len(frames) :
              NewestWith(r, i) => frames[i].data[r] = pixels[r]
        /\ (\A i \in 1 .. Len(frames) : r \notin DOMAIN frames[i].data)
              => canvas[r] = pixels[r]

FrameInv == Pictures /\ Numbered /\ Carried

\* What the plugin has painted, at each place of its GuiMain().
LookInv ==
    /\ plugin \in {"app_2048", "demo_app"}
    /\ phase \in {"create", "show", "damage", "loop"}
    /\ phase = "damage" => ~Is2048
    /\ phase = "loop" => Shows(pixels)
    /\ ~Is2048 =>
         /\ draw_count \in 0..3
         /\ phase \in {"create", "show"} => draw_count = 0
         /\ phase \in {"create", "show", "damage"} =>
              bg_color = "BLUE" /\ small_color = "GREEN"
         /\ phase = "damage" => draw_count = 1 /\ pixels["background"] = bg_color
         /\ phase = "loop" => draw_count >= 2

MirrorInv == FrameInv /\ LookInv

-----------------------------------------------------------------------------
(* Sequences.                                                              *)

\* Appending to a sequence.
LEMMA AppendIsSeq ==
  ASSUME NEW s, NEW e, IsSeq(s)
  PROVE  /\ IsSeq(Append(s, e))
         /\ Len(s) \in Nat
         /\ Len(Append(s, e)) = Len(s) + 1
         /\ \A i \in 1 .. Len(s) : Append(s, e)[i] = s[i]
         /\ Append(s, e)[Len(s) + 1] = e
<1>1. PICK S : s \in Seq(S)
  BY DEF IsSeq
<1>2. s \in Seq(S \cup {e})
  BY <1>1
<1>3. Append(s, e) \in Seq(S \cup {e})
  BY <1>2
<1> QED
  BY <1>2, <1>3 DEF IsSeq

\* Taking the head off a sequence.
LEMMA TailIsSeq ==
  ASSUME NEW s, IsSeq(s), s # << >>
  PROVE  /\ IsSeq(Tail(s))
         /\ Len(s) \in Nat \ {0}
         /\ Len(Tail(s)) = Len(s) - 1
         /\ \A i \in 1 .. Len(s) - 1 : Tail(s)[i] = s[i+1]
         /\ Head(s) = s[1]
<1>1. PICK S : s \in Seq(S)
  BY DEF IsSeq
<1>2. Tail(s) \in Seq(S)
  BY <1>1
<1> QED
  BY <1>1, <1>2 DEF IsSeq

\* Below the modulus a number is its own remainder.
LEMMA BelowModulus ==
  ASSUME NEW m \in Nat \ {0}, NEW a \in Nat, a < m
  PROVE  a % m = a
OBVIOUS

-----------------------------------------------------------------------------
(* The frames.                                                             *)

\* A draw that paints the same as before outside the rectangle it sends keeps
\* the newest frame of every region equal to the backing store.
LEMMA DrawKeepsFrames ==
  ASSUME FrameInv, UNCHANGED plugin,
         NEW picture, NEW rect, rect \subseteq Whole,
         DOMAIN picture = Whole,
         \A r \in Whole \ rect : picture[r] = pixels[r],
         DrawAndSend(picture, rect)
  PROVE  FrameInv'
<1> DEFINE f == Pack(frame_seq', picture, rect)
           n == Len(frames)
<1>1. frames' = Append(frames, f) /\ pixels' = picture /\ sent' = sent + 1
      /\ frame_seq' = (frame_seq + 1) % SeqMod
      /\ UNCHANGED <<canvas, last_frame_seq, room>> /\ Whole' = Whole
  BY DEF DrawAndSend, Whole
<1>2. f.seq = frame_seq' /\ DOMAIN f.data = rect
      /\ \A r \in rect : f.data[r] = picture[r]
  BY DEF Pack
<1> HIDE DEF f
<1>3. /\ IsSeq(frames') /\ n \in Nat /\ Len(frames') = n + 1
      /\ \A i \in 1 .. n : frames'[i] = frames[i]
      /\ frames'[n + 1] = f
  BY <1>1, AppendIsSeq DEF FrameInv, Pictures
<1> HIDE DEF n
<1>4. Pictures'
  <2>1. frame_seq' \in Nat
    BY <1>1, FrameAssumption DEF FrameInv, Pictures
  <2>2. \A i \in 1 .. n + 1 :
           frames'[i].seq \in Nat /\ DOMAIN frames'[i].data \subseteq Whole
    BY <1>2, <1>3, <2>1 DEF FrameInv, Pictures, n
  <2> QED
    BY <1>1, <1>3, <2>1, <2>2 DEF FrameInv, Pictures
<1>5. Numbered'
  <2> SUFFICES ASSUME sent + 1 < SeqMod
               PROVE  Numbered'
    BY <1>1 DEF Numbered
  <2>1. sent \in Nat /\ frame_seq = sent /\ last_frame_seq + n <= sent
        /\ last_frame_seq \in Nat
        /\ \A i \in 1 .. n : frames[i].seq = sent - n + i
    BY FrameAssumption DEF FrameInv, Pictures, Numbered, n
  <2>2. frame_seq' = sent + 1
    <3>1. (sent + 1) % SeqMod = sent + 1
      BY <2>1, BelowModulus, FrameAssumption
    <3> QED
      BY <1>1, <2>1, <3>1
  <2>3. \A i \in 1 .. n + 1 : frames'[i].seq = sent - n + i
    BY <1>2, <1>3, <2>1, <2>2
  <2>4. last_frame_seq' + Len(frames') <= sent'
    BY <1>1, <1>3, <2>1
  <2>5. \A i \in 1 .. Len(frames') : frames'[i].seq = sent' - Len(frames') + i
    BY <1>1, <1>3, <2>1, <2>3
  <2> QED
    BY <1>1, <2>2, <2>4, <2>5 DEF Numbered
<1>6. Carried'
  <2> SUFFICES ASSUME room = Whole, sent + 1 < SeqMod, NEW r \in Whole
               PROVE  /\ \A i \in 1 .. n + 1 :
                           NewestWith(r, i)' => frames'[i].data[r] = picture[r]
                      /\ (\A i \in 1 .. n + 1 : r \notin DOMAIN frames'[i].data)
                           => canvas[r] = picture[r]
    BY <1>1, <1>3 DEF Carried
  <2>1. sent < SeqMod
    BY FrameAssumption DEF FrameInv, Pictures
  <2>2. CASE r \in rect
    <3>1. \A i \in 1 .. n : ~NewestWith(r, i)'
      BY <1>2, <1>3, <2>2 DEF NewestWith
    <3> QED
      BY <1>2, <1>3, <2>2, <3>1
  <2>3. CASE r \notin rect
    <3>1. picture[r] = pixels[r]
      BY <2>3
    <3>2. ASSUME NEW i \in 1 .. n + 1, NewestWith(r, i)'
          PROVE  i \in 1 .. n /\ NewestWith(r, i)
      BY <1>2, <1>3, <2>3, <3>2 DEF NewestWith, n
    <3>3. \A i \in 1 .. n + 1 :
             NewestWith(r, i)' => frames'[i].data[r] = picture[r]
      BY <1>3, <2>1, <3>1, <3>2 DEF FrameInv, Carried, n
    <3>4. (\A i \in 1 .. n + 1 : r \notin DOMAIN frames'[i].data)
             => canvas[r] = picture[r]
      BY <1>3, <2>1, <3>1 DEF FrameInv, Carried, n
    <3> QED
      BY <3>3, <3>4
  <2> QED
    BY <2>2, <2>3
<1> QED
  BY <1>4, <1>5, <1>6 DEF FrameInv

\* A frame that is applied takes its regions to the canvas.
LEMMA ApplyKeepsFrames ==
  ASSUME FrameInv, UNCHANGED plugin, Apply
  PROVE  FrameInv'
<1> DEFINE f == Head(frames)
           n == Len(frames)
           stale == f.seq < last_frame_seq \/ ~(DOMAIN f.data \subseteq room)
<1>1. /\ frames # << >> /\ frames' = Tail(frames) /\ Whole' = Whole
      /\ UNCHANGED <<pixels, frame_seq, room, sent>>
  BY DEF Apply, Whole
<1>2. /\ IsSeq(frames') /\ n \in Nat \ {0} /\ Len(frames') = n - 1
      /\ \A i \in 1 .. n - 1 : frames'[i] = frames[i+1]
      /\ f = frames[1]
  BY <1>1, TailIsSeq DEF FrameInv, Pictures
<1>3. CASE stale
  <2>1. UNCHANGED <<canvas, last_frame_seq>>
    BY <1>3 DEF Apply
  <2> HIDE DEF n, f
  <2>2. Pictures'
    BY <1>1, <1>2, <2>1 DEF FrameInv, Pictures, n
  <2>3. Numbered'
    BY <1>1, <1>2, <2>1 DEF FrameInv, Pictures, Numbered, n
  <2>4. ~(room = Whole /\ sent < SeqMod)
    BY <1>2, <1>3, FrameAssumption DEF FrameInv, Pictures, Numbered, n
  <2> QED
    BY <1>1, <2>2, <2>3, <2>4 DEF FrameInv, Carried
<1>4. CASE ~stale
  <2>1. /\ canvas' = [r \in DOMAIN canvas |->
                        IF r \in DOMAIN f.data THEN f.data[r] ELSE canvas[r]]
        /\ last_frame_seq' = f.seq
    BY <1>4 DEF Apply
  <2> HIDE DEF f, n
  <2>2. ASSUME sent < SeqMod
        PROVE  /\ last_frame_seq' = sent - n + 1
               /\ \A i \in 1 .. n - 1 : frames'[i].seq = sent - (n - 1) + i
    BY <1>2, <2>1, <2>2, FrameAssumption, SMTT(40) DEF FrameInv, Pictures, Numbered, n
  <2>3. Pictures'
    <3>1. DOMAIN canvas' = Whole
      BY <2>1 DEF FrameInv, Pictures
    <3>2. last_frame_seq' \in Nat
      BY <1>2, <2>1 DEF FrameInv, Pictures, n
    <3> QED
      BY <1>1, <1>2, <3>1, <3>2 DEF FrameInv, Pictures, n
  <2>4. Numbered'
    BY <1>1, <1>2, <2>2 DEF FrameInv, Pictures, Numbered, n
  <2>5. Carried'
    <3> SUFFICES ASSUME room = Whole, sent < SeqMod, NEW r \in Whole
                 PROVE  /\ \A i \in 1 .. n - 1 :
                             NewestWith(r, i)' => frames'[i].data[r] = pixels[r]
                        /\ (\A i \in 1 .. n - 1 : r \notin DOMAIN frames'[i].data)
                             => canvas'[r] = pixels[r]
      BY <1>1, <1>2 DEF Carried
    <3>1. ASSUME NEW i \in 1 .. n - 1, NewestWith(r, i)'
          PROVE  frames'[i].data[r] = pixels[r]
      <4>1. NewestWith(r, i+1)
        <5>1. \A j \in i+2 .. n : j-1 \in i+1 .. n-1 /\ frames'[j-1] = frames[j]
          BY <1>2
        <5>2. \A j \in i+2 .. n : r \notin DOMAIN frames[j].data
          BY <1>2, <3>1, <5>1 DEF NewestWith
        <5>3. r \in DOMAIN frames[i+1].data
          BY <1>2, <3>1 DEF NewestWith
        <5> QED
          BY <5>2, <5>3 DEF NewestWith, n
      <4> QED
        BY <1>2, <4>1 DEF FrameInv, Carried, n
    <3>2. ASSUME \A i \in 1 .. n - 1 : r \notin DOMAIN frames'[i].data
          PROVE  canvas'[r] = pixels[r]
      <4>1. \A i \in 2 .. n : r \notin DOMAIN frames[i].data
        <5>1. \A i \in 2 .. n : i - 1 \in 1 .. n - 1 /\ frames'[i-1] = frames[i]
          BY <1>2
        <5> QED
          BY <3>2, <5>1
      <4>2. CASE r \in DOMAIN f.data
        <5>1. NewestWith(r, 1)
          BY <1>2, <4>1, <4>2 DEF NewestWith, n
        <5> QED
          BY <1>2, <2>1, <4>2, <5>1 DEF FrameInv, Pictures, Carried, n
      <4>3. CASE r \notin DOMAIN f.data
        <5>1. \A i \in 1 .. n : r \notin DOMAIN frames[i].data
          BY <1>2, <4>1, <4>3
        <5> QED
          BY <2>1, <4>3, <5>1 DEF FrameInv, Pictures, Carried, n
      <4> QED
        BY <4>2, <4>3
    <3> QED
      BY <3>1, <3>2
  <2> QED
    BY <2>3, <2>4, <2>5 DEF FrameInv
<1> QED
  BY <1>3, <1>4

-----------------------------------------------------------------------------
(* The plugins.                                                            *)

\* The demo's window after one more draw of rect: FrameInv and its look.
LEMMA DemoDrawKeeps ==
  ASSUME MirrorInv, ~Is2048, UNCHANGED plugin,
         NEW bg, NEW small, NEW rect, rect \subseteq Whole,
         DemoDraws(bg, small, rect),
         rect = Whole \/ rect = {"small"},
         rect # Whole => bg = bg_color /\ phase \in {"damage", "loop"}
  PROVE  /\ FrameInv'
         /\ draw_count' \in 1..3 /\ (draw_count' = 1 <=> draw_count = 0)
         /\ bg_color' = bg
         /\ small_color' = (IF draw_count' = 2 THEN "GREEN" ELSE small)
         /\ pixels' = [background |-> IF draw_count' <= 2 THEN "BLUE" ELSE bg,
                       small |-> IF draw_count' = 1 THEN "RED" ELSE small_color']
<1> DEFINE picture == [background |-> IF draw_count' <= 2 THEN "BLUE" ELSE bg,
                       small |-> IF draw_count' = 1 THEN "RED" ELSE small_color']
<1>1. /\ draw_count' = (IF draw_count < 3 THEN draw_count + 1 ELSE 3)
      /\ bg_color' = bg
      /\ small_color' = (IF draw_count' = 2 THEN "GREEN" ELSE small)
      /\ DrawAndSend(picture, rect)
  BY DEF DemoDraws
<1>2. Whole = {"background", "small"} /\ DOMAIN picture = Whole
  BY DEF Whole, RegionsOf, Is2048
<1>3. draw_count \in 0..3
  BY DEF MirrorInv, LookInv
<1>4. ASSUME rect = {"small"}
      PROVE  picture["background"] = pixels["background"]
  BY <1>1, <1>2, <1>3, <1>4 DEF MirrorInv, LookInv, Shows
<1>5. \A r \in Whole \ rect : picture[r] = pixels[r]
  BY <1>2, <1>4
<1>6. FrameInv'
  BY <1>1, <1>2, <1>5, DrawKeepsFrames DEF MirrorInv
<1>7. pixels' = picture
  BY <1>1 DEF DrawAndSend
<1> QED
  BY <1>1, <1>3, <1>6, <1>7

\* An app_2048 draw sends the whole window.
LEMMA Draw2048Keeps ==
  ASSUME MirrorInv, Is2048, UNCHANGED plugin,
         NEW t, NEW m, NEW s, NEW st,
         DrawAndSend(Draw2048(t, m, s, st), Whole)
  PROVE  FrameInv' /\ pixels' = Draw2048(t, m, s, st)
<1>1. DOMAIN Draw2048(t, m, s, st) = Whole
  BY DEF Draw2048, Whole, RegionsOf, Is2048
<1>2. FrameInv'
  BY <1>1, DrawKeepsFrames DEF MirrorInv
<1> QED
  BY <1>2 DEF DrawAndSend

\* Steps that neither draw nor deliver.
LEMMA NoFrameKeeps ==
  ASSUME FrameInv, UNCHANGED <<plugin, frameVars>>
  PROVE  FrameInv'
BY DEF FrameInv, Pictures, Numbered, Carried, NewestWith, Whole, frameVars

-----------------------------------------------------------------------------
(* The invariant.                                                          *)

\* MirrorInv holds initially.
LEMMA InitMirror == Init => MirrorInv
<1> SUFFICES ASSUME Init PROVE MirrorInv
  OBVIOUS
<1>1. /\ frames = << >> /\ frame_seq = 0 /\ last_frame_seq = 0 /\ sent = 0
      /\ pixels = [r \in Whole |-> "blank"] /\ canvas = pixels
      /\ room \subseteq Whole
  BY DEF Init, FrameInit
<1>2. FrameInv
  <2>1. IsSeq(frames) /\ Len(frames) = 0
    <3>1. << >> \in Seq({})
      OBVIOUS
    <3> QED
      BY <1>1, <3>1 DEF IsSeq
  <2> QED
    BY <1>1, <2>1 DEF FrameInv, Pictures, Numbered, Carried
<1>3. LookInv
  BY DEF Init, LookInv, Is2048
<1> QED
  BY <1>2, <1>3 DEF MirrorInv

\* Every step keeps MirrorInv.
LEMMA NextMirror == MirrorInv /\ [Next]_vars => MirrorInv'
<1> SUFFICES ASSUME MirrorInv, [Next]_vars PROVE MirrorInv'
  OBVIOUS
<1>0. FrameInv /\ LookInv
  BY DEF MirrorInv
<1>1. CASE Create
  <2>1. FrameInv'
    BY <1>0, <1>1, NoFrameKeeps DEF Create
  <2>2. LookInv'
    BY <1>0, <1>1 DEF Create, LookInv, Is2048, demoVars
  <2> QED
    BY <2>1, <2>2 DEF MirrorInv
<1>2. CASE Show
  <2>1. CASE Is2048
    <3>1. FrameInv' /\ pixels' = Draw2048(tiles, merged, score, state)
      BY <1>2, <2>1, Draw2048Keeps DEF Show, Is2048
    <3>2. LookInv'
      BY <1>0, <1>2, <2>1, <3>1
      DEF Show, LookInv, Is2048, Shows, Draw2048, boardVars, demoVars
    <3> QED
      BY <3>1, <3>2 DEF MirrorInv
  <2>2. CASE ~Is2048
    <3>1. /\ FrameInv'
          /\ draw_count' \in 1..3 /\ (draw_count' = 1 <=> draw_count = 0)
          /\ bg_color' = bg_color
          /\ small_color' = (IF draw_count' = 2 THEN "GREEN" ELSE small_color)
          /\ pixels' = [background |-> IF draw_count' <= 2 THEN "BLUE" ELSE bg_color,
                        small |-> IF draw_count' = 1 THEN "RED" ELSE small_color']
      BY <1>2, <2>2, DemoDrawKeeps DEF Show, Is2048, Whole
    <3>2. LookInv'
      BY <1>0, <1>2, <2>2, <3>1 DEF Show, LookInv, Is2048
    <3> QED
      BY <3>1, <3>2 DEF MirrorInv
  <2> QED
    BY <2>1, <2>2
<1>3. CASE DamageSmall
  <2>1. ~Is2048 /\ {"small"} \subseteq Whole /\ UNCHANGED plugin
    BY <1>0, <1>3 DEF DamageSmall, LookInv, Is2048, Whole, RegionsOf
  <2>2. /\ FrameInv'
        /\ draw_count' \in 1..3 /\ (draw_count' = 1 <=> draw_count = 0)
        /\ bg_color' = bg_color
        /\ small_color' = (IF draw_count' = 2 THEN "GREEN" ELSE small_color)
        /\ pixels' = [background |-> IF draw_count' <= 2 THEN "BLUE" ELSE bg_color,
                      small |-> IF draw_count' = 1 THEN "RED" ELSE small_color']
    BY <1>3, <2>1, DemoDrawKeeps DEF DamageSmall
  <2>3. LookInv'
    BY <1>0, <1>3, <2>1, <2>2 DEF DamageSmall, LookInv, Is2048, Shows
  <2> QED
    BY <2>2, <2>3 DEF MirrorInv
<1>4. ASSUME NEW k \in Keys, NEW down \in BOOLEAN, Key(k, down)
      PROVE  MirrorInv'
  <2> DEFINE kb == Parse(ViewerKeyboard(k, down))
  <2>1. phase = "loop" /\ UNCHANGED <<plugin, phase>>
        /\ \/ Keyboard2048(kb) /\ UNCHANGED demoVars
           \/ KeyboardDemo(kb) /\ UNCHANGED boardVars
    BY <1>4 DEF Key
  <2> HIDE DEF kb
  <2>2. CASE Keyboard2048(kb)
    <3>1. Is2048 /\ Is2048' /\ phase' = "loop"
      BY <2>1, <2>2 DEF Keyboard2048, Is2048
    <3>2. CASE DrawAndSend(Draw2048(tiles', merged', score', state'), Whole)
      <4>1. FrameInv' /\ pixels' = Draw2048(tiles', merged', score', state')
        BY <2>1, <3>1, <3>2, Draw2048Keeps
      <4>2. LookInv'
        BY <1>0, <2>1, <3>1, <4>1 DEF LookInv, Shows, Draw2048
      <4> QED
        BY <4>1, <4>2 DEF MirrorInv
    <3>3. CASE UNCHANGED frameVars /\ \E d \in Directions : MoveChangesNothing(d)
      <4>1. FrameInv'
        BY <1>0, <2>1, <3>3, NoFrameKeeps
      <4>2. merged' = {} /\ UNCHANGED <<tiles, score, state, pixels>>
        BY <3>3 DEF MoveChangesNothing, frameVars
      <4>3. LookInv'
        BY <1>0, <2>1, <3>1, <4>2 DEF LookInv, Shows
      <4> QED
        BY <4>1, <4>3 DEF MirrorInv
    <3> QED
      BY <2>2, <3>2, <3>3 DEF Keyboard2048
  <2>3. CASE KeyboardDemo(kb)
    <3> DEFINE bg == IF bg_color = "BLUE" THEN "CYAN" ELSE "BLUE"
    <3>1. ~Is2048 /\ DemoDraws(bg, small_color, Whole)
      BY <2>3 DEF KeyboardDemo
    <3> HIDE DEF bg
    <3>2. /\ FrameInv'
          /\ draw_count' \in 1..3 /\ (draw_count' = 1 <=> draw_count = 0)
          /\ bg_color' = bg
          /\ small_color' = (IF draw_count' = 2 THEN "GREEN" ELSE small_color)
          /\ pixels' = [background |-> IF draw_count' <= 2 THEN "BLUE" ELSE bg,
                        small |-> IF draw_count' = 1 THEN "RED" ELSE small_color']
      BY <2>1, <3>1, DemoDrawKeeps
    <3>3. draw_count' = 3
      BY <1>0, <2>1, <3>1 DEF LookInv, DemoDraws
    <3>4. LookInv'
      BY <1>0, <2>1, <3>1, <3>2, <3>3 DEF LookInv, Is2048, Shows
    <3> QED
      BY <3>2, <3>4 DEF MirrorInv
  <2> QED
    BY <2>1, <2>2, <2>3
<1>5. ASSUME NEW e \in MouseEvents, NEW b \in Buttons, NEW p \in Points,
             MouseInput(e, b, p)
      PROVE  MirrorInv'
  <2> DEFINE small == IF small_color = "GREEN" THEN "YELLOW" ELSE "GREEN"
  <2>1. phase = "loop" /\ UNCHANGED <<plugin, phase>>
        /\ ~Is2048 /\ DemoDraws(bg_color, small, {"small"})
    BY <1>5 DEF MouseInput, MouseDemo
  <2> HIDE DEF small
  <2>2. {"small"} \subseteq Whole
    BY <2>1 DEF Whole, RegionsOf, Is2048
  <2>3. /\ FrameInv'
        /\ draw_count' \in 1..3 /\ (draw_count' = 1 <=> draw_count = 0)
        /\ bg_color' = bg_color
        /\ small_color' = (IF draw_count' = 2 THEN "GREEN" ELSE small)
        /\ pixels' = [background |-> IF draw_count' <= 2 THEN "BLUE" ELSE bg_color,
                      small |-> IF draw_count' = 1 THEN "RED" ELSE small_color']
    BY <2>1, <2>2, DemoDrawKeeps
  <2>4. draw_count' = 3
    BY <1>0, <2>1 DEF LookInv, DemoDraws
  <2>5. LookInv'
    BY <1>0, <2>1, <2>3, <2>4 DEF LookInv, Is2048, Shows
  <2> QED
    BY <2>3, <2>5 DEF MirrorInv
<1>6. CASE Deliver
  <2>1. FrameInv'
    BY <1>0, <1>6, ApplyKeepsFrames DEF Deliver
  <2>2. LookInv'
    BY <1>0, <1>6 DEF Deliver, Apply, LookInv, Is2048, Shows, boardVars, demoVars
  <2> QED
    BY <2>1, <2>2 DEF MirrorInv
<1>7. CASE UNCHANGED vars
  <2>1. FrameInv'
    BY <1>0, <1>7, NoFrameKeeps DEF vars
  <2>2. LookInv'
    BY <1>0, <1>7 DEF vars, LookInv, Is2048, Shows, boardVars, demoVars, frameVars
  <2> QED
    BY <2>1, <2>2 DEF MirrorInv
<1> QED
  BY <1>1, <1>2, <1>3, <1>4, <1>5, <1>6, <1>7 DEF Next

\* With nothing in flight, the canvas has every region of the backing store.
LEMMA InvIsMirror == MirrorInv => Mirror
<1> SUFFICES ASSUME MirrorInv, phase = "loop", Arrived PROVE Shows(canvas)
  BY DEF Mirror
<1>1. Shows(pixels) /\ plugin \in {"app_2048", "demo_app"}
  BY DEF MirrorInv, LookInv
<1>2. \A r \in Whole : canvas[r] = pixels[r]
  <2>1. Len(frames) = 0 /\ sent < SeqMod
    BY DEF Arrived
  <2>2. room = Whole
    BY DEF Arrived, MirrorInv, FrameInv, Pictures
  <2> QED
    BY <2>1, <2>2 DEF MirrorInv, FrameInv, Carried
<1>3. Whole = IF Is2048 THEN {"header", "board", "status"} ELSE {"background", "small"}
  BY DEF Whole, RegionsOf, Is2048
<1> QED
  BY <1>1, <1>2, <1>3 DEF Shows

\* Whatever the user does and wherever frames are, once all have arrived the
\* Client's canvas shows the plugin's board, score and state, or the demo's
\* colours.
THEOREM MirrorHolds == Spec => []Mirror
<1>1. Init => MirrorInv
  BY InitMirror
<1>2. MirrorInv /\ [Next]_vars => MirrorInv'
  BY NextMirror
<1>3. MirrorInv => Mirror
  BY InvIsMirror
<1> QED
  BY <1>1, <1>2, <1>3, PTL DEF Spec

-----------------------------------------------------------------------------
(* The game.                                                               *)

\* Where the 2048 window exists its board holds a tile, and the game is over
\* when any_move_possible() says so.
GameInv ==
    /\ phase \in {"create", "show", "damage", "loop"}
    /\ tiles \in Boards
    /\ state \in {"Playing", "GameOver"}
    /\ phase = "create" \/ ~Is2048 => state = "Playing"
    /\ phase # "create" /\ Is2048 =>
         /\ \E c \in Cells : tiles[c] # 0
         /\ state = "GameOver" <=> ~AnyMovePossible(tiles)

\* A spawn fills one cell at most, and leaves a board with a tile.
LEMMA SpawnedIs ==
  ASSUME NEW board \in Boards, NEW a \in Spawned(board)
  PROVE  /\ a.tiles \in Boards /\ a.tile \in {0, 2, 4}
         /\ \E c \in Cells : a.tiles[c] # 0
         /\ \E c \in Cells : \A e \in Cells : e # c => a.tiles[e] = board[e]
<1> USE BoardAssumption
<1> DEFINE empties == {c \in Cells : board[c] = 0}
<1>1. CASE empties = {}
  <2>1. a = [tiles |-> board, tile |-> 0]
    BY <1>1 DEF Spawned
  <2>2. <<0, 0>> \in Cells
    BY DEF Cells
  <2> QED
    BY <1>1, <2>1, <2>2
<1>2. CASE empties # {}
  <2>1. PICK c \in Cells, v \in {2, 4} : a = [tiles |-> [board EXCEPT ![c] = v], tile |-> v]
    BY <1>2 DEF Spawned
  <2>2. a.tiles = [board EXCEPT ![c] = v] /\ a.tile = v
    BY <2>1
  <2>3. a.tiles \in Boards
    BY <2>2 DEF Boards
  <2>4. a.tiles[c] # 0 /\ \A e \in Cells : e # c => a.tiles[e] = board[e]
    BY <2>2 DEF Boards
  <2> QED
    BY <2>2, <2>3, <2>4
<1> QED
  BY <1>1, <1>2

\* reset() leaves a board that can be played: two spawns fill two of its
\* cells at most.
LEMMA ResetIsPlayable ==
  ASSUME Reset
  PROVE  /\ tiles' \in Boards /\ state' = "Playing"
         /\ \E c \in Cells : tiles'[c] # 0
         /\ AnyMovePossible(tiles')
<1> USE BoardAssumption
<1>0. PICK a \in Spawned(EmptyBoard) : \E b \in Spawned(a.tiles) :
        tiles' = b.tiles /\ state' = "Playing"
  BY DEF Reset
<1>1. PICK b \in Spawned(a.tiles) : tiles' = b.tiles /\ state' = "Playing"
  BY <1>0
<1>2. EmptyBoard \in Boards
  BY DEF EmptyBoard, Boards
<1>3. a.tiles \in Boards
  BY <1>2, SpawnedIs
<1>4. tiles' \in Boards /\ \E c \in Cells : tiles'[c] # 0
  BY <1>1, <1>3, SpawnedIs
<1>5. PICK c \in Cells : \A e \in Cells : e # c => a.tiles[e] = EmptyBoard[e]
  BY <1>2, SpawnedIs
<1>6. PICK g \in Cells : \A e \in Cells : e # g => tiles'[e] = a.tiles[e]
  BY <1>1, <1>3, SpawnedIs
<1>7. <<0, 0>> \in Cells /\ <<0, 1>> \in Cells /\ <<1, 0>> \in Cells
  BY DEF Cells
<1>8. PICK e \in Cells : e # c /\ e # g
  <2>1. <<0, 0>> # <<0, 1>> /\ <<0, 0>> # <<1, 0>> /\ <<0, 1>> # <<1, 0>>
    OBVIOUS
  <2> QED
    BY <1>7, <2>1
<1>9. tiles'[e] = 0
  BY <1>5, <1>6, <1>8 DEF EmptyBoard
<1> QED
  BY <1>1, <1>4, <1>9 DEF AnyMovePossible

\* move() looks for a possible move on the board it leaves.
LEMMA MoveDecides ==
  ASSUME NEW d \in Directions, MoveChanges(d), tiles \in Boards
  PROVE  /\ tiles' \in Boards /\ state' \in {"Playing", "GameOver"}
         /\ \E c \in Cells : tiles'[c] # 0
         /\ state' = "GameOver" <=> ~AnyMovePossible(tiles')
<1>1. PICK a \in Spawned(Slide(tiles, d)) :
        /\ tiles' = a.tiles
        /\ state' = IF AnyMovePossible(a.tiles) THEN "Playing" ELSE "GameOver"
  BY DEF MoveChanges
<1>2. Slide(tiles, d) \in Boards
  BY SlideHasType
<1> QED
  BY <1>1, <1>2, SpawnedIs

LEMMA InitGame == Init => GameInv
BY DEF Init, GameInv, EmptyBoard, Boards

LEMMA NextGame == GameInv /\ [Next]_vars => GameInv'
<1> SUFFICES ASSUME GameInv, [Next]_vars PROVE GameInv'
  OBVIOUS
<1>1. CASE Create
  <2>1. CASE Is2048
    <3>1. Reset
      BY <1>1, <2>1 DEF Create
    <3> QED
      BY <1>1, <3>1, ResetIsPlayable DEF Create, GameInv, Is2048
  <2>2. CASE ~Is2048
    BY <1>1, <2>2 DEF Create, GameInv, Is2048, boardVars
  <2> QED
    BY <2>1, <2>2
<1>2. CASE Show
  BY <1>2 DEF Show, GameInv, Is2048, boardVars
<1>3. CASE DamageSmall
  BY <1>3 DEF DamageSmall, GameInv, Is2048, boardVars
<1>4. ASSUME NEW k \in Keys, NEW down \in BOOLEAN, Key(k, down)
      PROVE  GameInv'
  <2> DEFINE kb == Parse(ViewerKeyboard(k, down))
  <2>1. phase = "loop" /\ UNCHANGED <<plugin, phase>>
        /\ (Keyboard2048(kb) \/ UNCHANGED boardVars)
    BY <1>4 DEF Key
  <2> HIDE DEF kb
  <2>2. CASE UNCHANGED boardVars
    BY <2>1, <2>2 DEF GameInv, Is2048, boardVars
  <2>3. CASE Keyboard2048(kb)
    <3>1. Is2048 /\ (Reset \/ \E d \in Directions : MoveChanges(d) \/ MoveChangesNothing(d))
      BY <2>3 DEF Keyboard2048
    <3>2. CASE Reset
      BY <2>1, <3>1, <3>2, ResetIsPlayable DEF GameInv, Is2048
    <3>3. ASSUME NEW d \in Directions, MoveChanges(d) PROVE GameInv'
      <4>1. tiles \in Boards
        BY DEF GameInv
      <4>2. /\ tiles' \in Boards /\ state' \in {"Playing", "GameOver"}
            /\ \E c \in Cells : tiles'[c] # 0
            /\ state' = "GameOver" <=> ~AnyMovePossible(tiles')
        BY <3>3, <4>1, MoveDecides
      <4> QED
        BY <2>1, <3>1, <4>2 DEF GameInv, Is2048
    <3>4. ASSUME NEW d \in Directions, MoveChangesNothing(d) PROVE GameInv'
      BY <2>1, <3>4 DEF MoveChangesNothing, GameInv, Is2048
    <3> QED
      BY <3>1, <3>2, <3>3, <3>4
  <2> QED
    BY <2>1, <2>2, <2>3
<1>5. ASSUME NEW e \in MouseEvents, NEW b \in Buttons, NEW p \in Points,
             MouseInput(e, b, p)
      PROVE  GameInv'
  BY <1>5 DEF MouseInput, GameInv, Is2048, boardVars
<1>6. CASE Deliver
  BY <1>6 DEF Deliver, GameInv, Is2048, boardVars
<1>7. CASE UNCHANGED vars
  BY <1>7 DEF vars, GameInv, Is2048, boardVars
<1> QED
  BY <1>1, <1>2, <1>3, <1>4, <1>5, <1>6, <1>7 DEF Next

LEMMA GameIsDead == GameInv => GameOverIsDead
<1> SUFFICES ASSUME GameInv PROVE GameOverIsDead
  OBVIOUS
<1>1. CASE phase = "create" \/ ~Is2048
  BY <1>1 DEF GameInv, GameOverIsDead
<1>2. CASE phase # "create" /\ Is2048
  <2>1. tiles \in [Cells -> Nat] /\ \E c \in Cells : tiles[c] # 0
    BY <1>2 DEF GameInv, Boards
  <2>2. AnyMovePossible(tiles) <=> \E d \in Directions : Slide(tiles, d) # tiles
    BY <2>1, MovePossibleIsExact
  <2> QED
    BY <1>2, <2>2 DEF GameInv, GameOverIsDead
<1> QED
  BY <1>1, <1>2

\* On a board of any size, the game is over exactly when no direction would
\* change the board: any_move_possible(), which looks for an empty cell or
\* equal neighbours, agrees with what compress_line() does in all four
\* directions, and a new game can always be played.
THEOREM GameEndsWhenDead == Spec => []GameOverIsDead
<1>1. Init => GameInv
  BY InitGame
<1>2. GameInv /\ [Next]_vars => GameInv'
  BY NextGame
<1>3. GameInv => GameOverIsDead
  BY GameIsDead
<1> QED
  BY <1>1, <1>2, <1>3, PTL DEF Spec

-----------------------------------------------------------------------------
(* Types.                                                                  *)

\* What TypeOK says beside MirrorInv and GameInv: of the board, of the demo's
\* window, and of the numbers of frames.
BoardTyped == merged \subseteq Cells /\ score \in Nat /\ fours \in Nat

ColoursTyped ==
    /\ draw_count \in 0..3
    /\ bg_color \in {"BLUE", "CYAN"} /\ small_color \in {"GREEN", "YELLOW"}

SeqsTyped ==
    /\ IsSeq(frames)
    /\ frame_seq \in 0 .. SeqMod-1 /\ last_frame_seq \in 0 .. SeqMod-1
    /\ \A i \in 1 .. Len(frames) : frames[i].seq \in 0 .. SeqMod-1

\* score_delta is a number.
LEMMA GainIsNumber ==
  ASSUME NEW board \in Boards, NEW d \in Directions
  PROVE  Gain(board, d) \in Nat
<1>1. PICK after \in Boards : after = Slide(board, d)
  BY SlideHasType
<1>2. PICK M \in SUBSET Cells : M = MergedBy(board, d)
  BY SlideHasType
<1>3. IsFiniteSet(M)
  BY CellsAreFinite, FS_Subset
<1>4. \A c \in M : after[c] \in Nat
  BY DEF Boards
<1>5. SumOver(after, M) \in Nat
  BY <1>3, <1>4, SumTakes
<1>6. Gain(board, d) = SumOver(after, M)
  BY <1>1, <1>2 DEF Gain, SumOver
<1> QED
  BY <1>5, <1>6

LEMMA ResetTypes == ASSUME Reset PROVE BoardTyped'
<1>1. PICK a \in Spawned(EmptyBoard) : \E b \in Spawned(a.tiles) :
        /\ merged' = {} /\ score' = 0
        /\ fours' = (IF a.tile = 4 THEN 1 ELSE 0) + (IF b.tile = 4 THEN 1 ELSE 0)
  BY DEF Reset
<1> QED
  BY <1>1 DEF BoardTyped

LEMMA MoveTypes ==
  ASSUME NEW d \in Directions, MoveChanges(d) \/ MoveChangesNothing(d),
         tiles \in Boards, BoardTyped
  PROVE  BoardTyped'
<1>1. Gain(tiles, d) \in Nat /\ MergedBy(tiles, d) \subseteq Cells
  BY GainIsNumber, SlideHasType
<1>2. CASE MoveChanges(d)
  <2>1. /\ merged' = MergedBy(tiles, d) /\ score' = score + Gain(tiles, d)
        /\ fours' \in {fours, fours + 1}
    BY <1>2 DEF MoveChanges
  <2> QED
    BY <1>1, <2>1 DEF BoardTyped
<1>3. CASE MoveChangesNothing(d)
  BY <1>3 DEF MoveChangesNothing, BoardTyped
<1> QED
  BY <1>2, <1>3

\* A number is below its modulus.
LEMMA DrawTypes ==
  ASSUME SeqsTyped, NEW picture, NEW rect, DrawAndSend(picture, rect)
  PROVE  SeqsTyped'
<1> DEFINE f == Pack(frame_seq', picture, rect)
<1>1. /\ frames' = Append(frames, f) /\ last_frame_seq' = last_frame_seq
      /\ frame_seq' = (frame_seq + 1) % SeqMod
  BY DEF DrawAndSend
<1>2. f.seq = frame_seq'
  BY DEF Pack
<1>3. frame_seq' \in 0 .. SeqMod-1
  BY <1>1, FrameAssumption DEF SeqsTyped
<1> HIDE DEF f
<1>4. /\ IsSeq(frames') /\ Len(frames) \in Nat /\ Len(frames') = Len(frames) + 1
      /\ \A i \in 1 .. Len(frames) : frames'[i] = frames[i]
      /\ frames'[Len(frames) + 1] = f
  BY <1>1, AppendIsSeq DEF SeqsTyped
<1> QED
  BY <1>1, <1>2, <1>3, <1>4 DEF SeqsTyped

LEMMA ApplyTypes == ASSUME SeqsTyped, Apply PROVE SeqsTyped'
<1>1. /\ frames # << >> /\ frames' = Tail(frames)
      /\ frame_seq' = frame_seq
      /\ last_frame_seq' \in {last_frame_seq, Head(frames).seq}
  BY DEF Apply
<1>2. /\ IsSeq(frames') /\ Len(frames) \in Nat \ {0} /\ Len(frames') = Len(frames) - 1
      /\ \A i \in 1 .. Len(frames) - 1 : frames'[i] = frames[i+1]
      /\ Head(frames) = frames[1]
  BY <1>1, TailIsSeq DEF SeqsTyped
<1> QED
  BY <1>1, <1>2 DEF SeqsTyped

LEMMA InitTypes == Init => BoardTyped /\ ColoursTyped /\ SeqsTyped
<1> SUFFICES ASSUME Init PROVE BoardTyped /\ ColoursTyped /\ SeqsTyped
  OBVIOUS
<1>1. IsSeq(<< >>)
  <2>1. << >> \in Seq({})
    OBVIOUS
  <2> QED
    BY <2>1 DEF IsSeq
<1> QED
  BY <1>1, FrameAssumption DEF Init, FrameInit, BoardTyped, ColoursTyped, SeqsTyped

Typed == BoardTyped /\ ColoursTyped /\ SeqsTyped

LEMMA NextTypes ==
  ASSUME Typed, tiles \in Boards, [Next]_vars
  PROVE  Typed'
<1> USE DEF Typed
<1>1. CASE Create
  <2>1. UNCHANGED <<demoVars, frameVars>> /\ (Reset \/ UNCHANGED boardVars)
    BY <1>1 DEF Create
  <2> QED
    BY <2>1, ResetTypes DEF BoardTyped, ColoursTyped, SeqsTyped, boardVars, demoVars,
                            frameVars
<1>2. ASSUME NEW bg \in {"BLUE", "CYAN"}, NEW small \in {"GREEN", "YELLOW"}, NEW rect,
             DemoDraws(bg, small, rect)
      PROVE  ColoursTyped' /\ SeqsTyped'
  <2>1. \E picture : DrawAndSend(picture, rect)
    BY <1>2 DEF DemoDraws
  <2>2. SeqsTyped'
    BY <2>1, DrawTypes
  <2>3. ColoursTyped'
    BY <1>2 DEF DemoDraws, ColoursTyped
  <2> QED
    BY <2>2, <2>3
<1>3. ASSUME UNCHANGED boardVars PROVE BoardTyped'
  BY <1>3 DEF BoardTyped, boardVars
<1>4. ASSUME UNCHANGED demoVars PROVE ColoursTyped'
  BY <1>4 DEF ColoursTyped, demoVars
<1>5. CASE Show
  BY <1>2, <1>3, <1>4, <1>5, DrawTypes DEF Show, ColoursTyped
<1>6. CASE DamageSmall
  BY <1>2, <1>3, <1>6 DEF DamageSmall, ColoursTyped
<1>7. ASSUME NEW k \in Keys, NEW down \in BOOLEAN, Key(k, down)
      PROVE  Typed'
  <2> DEFINE kb == Parse(ViewerKeyboard(k, down))
  <2>1. \/ Keyboard2048(kb) /\ UNCHANGED demoVars
        \/ KeyboardDemo(kb) /\ UNCHANGED boardVars
    BY <1>7 DEF Key
  <2> HIDE DEF kb
  <2>2. CASE Keyboard2048(kb) /\ UNCHANGED demoVars
    <3>1. Reset \/ \E d \in Directions : MoveChanges(d) \/ MoveChangesNothing(d)
      BY <2>2 DEF Keyboard2048
    <3>2. BoardTyped'
      BY <3>1, ResetTypes, MoveTypes
    <3>3. UNCHANGED frameVars \/ \E picture : DrawAndSend(picture, Whole)
      BY <2>2 DEF Keyboard2048
    <3>4. SeqsTyped'
      BY <3>3, DrawTypes DEF SeqsTyped, frameVars
    <3> QED
      BY <1>4, <2>2, <3>2, <3>4
  <2>3. CASE KeyboardDemo(kb) /\ UNCHANGED boardVars
    <3>1. \E bg \in {"BLUE", "CYAN"} : DemoDraws(bg, small_color, Whole)
      BY <2>3 DEF KeyboardDemo
    <3> QED
      BY <1>2, <1>3, <2>3, <3>1 DEF ColoursTyped
  <2> QED
    BY <2>1, <2>2, <2>3
<1>8. ASSUME NEW e \in MouseEvents, NEW b \in Buttons, NEW p \in Points,
             MouseInput(e, b, p)
      PROVE  Typed'
  <2>1. UNCHANGED boardVars
        /\ \E small \in {"GREEN", "YELLOW"} : DemoDraws(bg_color, small, {"small"})
    BY <1>8 DEF MouseInput, MouseDemo
  <2> QED
    BY <1>2, <1>3, <2>1 DEF ColoursTyped
<1>9. CASE Deliver
  BY <1>3, <1>4, <1>9, ApplyTypes DEF Deliver
<1>10. CASE UNCHANGED vars
  BY <1>10 DEF vars, boardVars, demoVars, frameVars, BoardTyped, ColoursTyped, SeqsTyped
<1> QED
  BY <1>1, <1>5, <1>6, <1>7, <1>8, <1>9, <1>10 DEF Next

LEMMA TypesAreOK == Typed /\ MirrorInv /\ GameInv => TypeOK
<1> SUFFICES ASSUME Typed, MirrorInv, GameInv PROVE TypeOK
  OBVIOUS
<1>1. DOMAIN frames = 1 .. Len(frames)
  BY DEF Typed, SeqsTyped, IsSeq
<1>2. \A i \in DOMAIN frames : DOMAIN frames[i].data \subseteq Whole
  BY <1>1 DEF MirrorInv, FrameInv, Pictures
<1> QED
  BY <1>2 DEF Typed, BoardTyped, ColoursTyped, SeqsTyped, MirrorInv, FrameInv, Pictures,
              LookInv, GameInv, Boards, TypeOK

\* Every variable of the applications keeps its type, for every board size:
\* score_ stays a number, sums over the merged cells being numbers.
THEOREM AppsAreTyped == Spec => []TypeOK
<1>1. Init => Typed /\ MirrorInv /\ GameInv
  BY InitTypes, InitMirror, InitGame DEF Typed
<1>2. Typed /\ MirrorInv /\ GameInv /\ [Next]_vars => Typed' /\ MirrorInv' /\ GameInv'
  BY NextTypes, NextMirror, NextGame DEF GameInv
<1>3. Typed /\ MirrorInv /\ GameInv => TypeOK
  BY TypesAreOK
<1> QED
  BY <1>1, <1>2, <1>3, PTL DEF Spec

-----------------------------------------------------------------------------
(* The score.                                                              *)

\* ScoreLaw, and that the board has been played with 2s and 4s alone.
ScoreInv == tiles \in PlayedBoards /\ score + 4 * fours = BoardWorth(tiles)

\* A new game has scored nothing, and its 4s were spawned.
LEMMA ResetKeepsLaw == ASSUME Reset PROVE ScoreInv'
<1>1. PICK a \in Spawned(EmptyBoard) : \E b \in Spawned(a.tiles) :
        /\ tiles' = b.tiles /\ score' = 0
        /\ fours' = (IF a.tile = 4 THEN 1 ELSE 0) + (IF b.tile = 4 THEN 1 ELSE 0)
  BY DEF Reset
<1>2. PICK b \in Spawned(a.tiles) :
        /\ tiles' = b.tiles /\ score' = 0
        /\ fours' = (IF a.tile = 4 THEN 1 ELSE 0) + (IF b.tile = 4 THEN 1 ELSE 0)
  BY <1>1
<1>3. a.tiles \in PlayedBoards /\ BoardWorth(a.tiles) = IF a.tile = 4 THEN 4 ELSE 0
  BY EmptyIsWorthNothing, SpawnAddsWorth
<1>4. /\ b.tiles \in PlayedBoards
      /\ BoardWorth(b.tiles) = BoardWorth(a.tiles) + IF b.tile = 4 THEN 4 ELSE 0
  BY <1>3, SpawnAddsWorth
<1> QED
  BY <1>2, <1>3, <1>4 DEF ScoreInv

\* move() scores what its merges have added, and its spawn is scored later.
LEMMA MoveKeepsLaw ==
  ASSUME NEW d \in Directions, MoveChanges(d) \/ MoveChangesNothing(d),
         ScoreInv, BoardTyped
  PROVE  ScoreInv'
<1>1. CASE MoveChanges(d)
  <2>1. PICK a \in Spawned(Slide(tiles, d)) :
          /\ tiles' = a.tiles
          /\ fours' = IF a.tile = 4 THEN fours + 1 ELSE fours
    BY <1>1 DEF MoveChanges
  <2>2. score' = score + Gain(tiles, d)
    BY <1>1 DEF MoveChanges
  <2>3. /\ Slide(tiles, d) \in PlayedBoards
        /\ BoardWorth(Slide(tiles, d)) = BoardWorth(tiles) + Gain(tiles, d)
    BY MoveEarnsItsMerges DEF ScoreInv
  <2>4. /\ a.tiles \in PlayedBoards
        /\ BoardWorth(a.tiles) = BoardWorth(Slide(tiles, d)) + IF a.tile = 4 THEN 4 ELSE 0
    BY <2>3, SpawnAddsWorth
  <2>5. tiles \in Boards
    BY DEF ScoreInv, PlayedBoards
  <2>6. Gain(tiles, d) \in Nat
    BY <2>5, GainIsNumber
  <2>7. score \in Nat /\ fours \in Nat /\ score + 4 * fours = BoardWorth(tiles)
    BY DEF BoardTyped, ScoreInv
  <2>8. score' + 4 * fours' = BoardWorth(a.tiles)
    <3>1. CASE a.tile = 4
      BY <2>1, <2>2, <2>3, <2>4, <2>6, <2>7, <3>1
    <3>2. CASE a.tile # 4
      BY <2>1, <2>2, <2>3, <2>4, <2>6, <2>7, <3>2
    <3> QED
      BY <3>1, <3>2
  <2> QED
    BY <2>1, <2>4, <2>8 DEF ScoreInv
<1>2. CASE MoveChangesNothing(d)
  BY <1>2 DEF MoveChangesNothing, ScoreInv
<1> QED
  BY <1>1, <1>2

LEMMA NextScore ==
  ASSUME BoardTyped, ScoreInv, [Next]_vars
  PROVE  ScoreInv'
<1>1. UNCHANGED boardVars \/ Reset
      \/ \E d \in Directions : MoveChanges(d) \/ MoveChangesNothing(d)
  <2>1. CASE Create
    BY <2>1 DEF Create
  <2>2. CASE Show \/ DamageSmall
    BY <2>2 DEF Show, DamageSmall
  <2>3. ASSUME NEW k \in Keys, NEW down \in BOOLEAN, Key(k, down)
        PROVE  UNCHANGED boardVars \/ Reset
               \/ \E d \in Directions : MoveChanges(d) \/ MoveChangesNothing(d)
    <3>1. PICK kb : Keyboard2048(kb) \/ UNCHANGED boardVars
      BY <2>3 DEF Key
    <3> QED
      BY <3>1 DEF Keyboard2048
  <2>4. ASSUME NEW e \in MouseEvents, NEW b \in Buttons, NEW p \in Points,
               MouseInput(e, b, p)
        PROVE  UNCHANGED boardVars
    BY <2>4 DEF MouseInput
  <2>5. CASE Deliver \/ UNCHANGED vars
    BY <2>5 DEF Deliver, vars
  <2> QED
    BY <2>1, <2>2, <2>3, <2>4, <2>5 DEF Next
<1>2. CASE UNCHANGED boardVars
  BY <1>2 DEF boardVars, ScoreInv
<1> QED
  BY <1>1, <1>2, ResetKeepsLaw, MoveKeepsLaw

\* After any game on a board of any size, the score is what the tiles on it are
\* worth, less 4 for each 4 that was spawned: move()'s score_delta counts every
\* merge of every line once, and reset() starts from nothing.
THEOREM ScoreIsEarned == Spec => []ScoreLaw
<1> DEFINE Inv == Typed /\ MirrorInv /\ GameInv /\ ScoreInv
<1>1. Init => Inv
  <2>1. Init => ScoreInv
    BY EmptyIsWorthNothing DEF Init, ScoreInv
  <2> QED
    BY <2>1, InitTypes, InitMirror, InitGame DEF Typed
<1>2. Inv /\ [Next]_vars => Inv'
  BY NextTypes, NextMirror, NextGame, NextScore DEF GameInv, Typed
<1>3. Inv => ScoreLaw
  BY DEF ScoreInv, BoardWorth, SumOver, ScoreLaw
<1> QED
  BY <1>1, <1>2, <1>3, PTL DEF Spec

-----------------------------------------------------------------------------
(* Lines.                                                                  *)

\* No tile is merged twice in a move: the lines the run tries are among those
\* that CompressMergesOnce is about.
THEOREM LinesOfFourMergeOnce == Spec => []LinesMergeOnce
<1>1. ASSUME NEW line \in [1..4 -> {0, 2, 4, 8}] PROVE MergesOnce(line)
  <2>1. PICK size \in Nat : size = 4
    OBVIOUS
  <2>2. line \in [1..size -> Nat]
    BY <2>1
  <2>3. line \in Seq(Nat)
    BY <2>2, SeqDef
  <2> QED BY <2>3, CompressMergesOnce
<1>2. LinesMergeOnce
  BY <1>1 DEF LinesMergeOnce
<1> QED BY <1>2, PTL

-----------------------------------------------------------------------------
(* Inputs on the wire.                                                     *)

LEMMA Bytes16RoundTrip ==
  ASSUME NEW v \in 0..65535
  PROVE  FromBytes16(Bytes16(v)) = v
<1> DEFINE h == v \div 256
<1>1. h \in Int /\ v = 256 * h + (v % 256)
  OBVIOUS
<1> QED
  BY <1>1 DEF FromBytes16, Bytes16

\* The sign of a place is not lost in four unsigned bytes.
LEMMA Bytes32RoundTrip ==
  ASSUME NEW v \in Int, FitsInt(v)
  PROVE  FromBytes32(Bytes32(v)) = v
<1> DEFINE q1 == v \div 256
           q2 == q1 \div 256
           q3 == q2 \div 256
           b == Bytes32(v)
<1>1. /\ q1 \in Int /\ v % 256 \in 0..255 /\ v = 256 * q1 + (v % 256)
      /\ b[4] = v % 256 /\ b[3] = q1 % 256 /\ b[2] = q2 % 256 /\ b[1] = q3 % 256
      /\ q3 \in -128..127
  BY DEF FitsInt, Bytes32
<1>2. q2 \in Int /\ q1 = 256 * q2 + (q1 % 256) /\ q1 % 256 \in 0..255
  BY <1>1
<1> HIDE DEF q1, b
<1>3. q3 \in Int /\ q2 = 256 * q3 + (q2 % 256) /\ q2 % 256 \in 0..255
  BY <1>1, <1>2
<1> HIDE DEF q2
<1>4. q3 = IF q3 % 256 < 128 THEN q3 % 256 ELSE (q3 % 256) - 256
  BY <1>1, <1>3
<1> HIDE DEF q3
<1>5. FromBytes32(b) = 256 * (256 * (256 * q3 + b[2]) + b[3]) + b[4]
  BY <1>1, <1>4 DEF FromBytes32
<1>6. FromBytes32(b) = v
  BY <1>1, <1>2, <1>3, <1>5
<1> QED
  BY <1>6 DEF b

\* The quotient of two numbers that were scaled by `size'.
LEMMA Quotient ==
  ASSUME NEW u \in Nat, NEW size \in Nat \ {0}, NEW scale \in Nat \ {0}
  PROVE  LET v == (u * size) \div (size * scale) IN
         v \in Nat /\ v <= u * size /\ v * scale <= u /\ u < (v + 1) * scale
<1> DEFINE v == u \div scale
<1>1. v \in Nat /\ v * scale <= u /\ u < (v + 1) * scale
  OBVIOUS
<1>2. size * scale \in Nat \ {0} /\ u * size \in Nat /\ u <= u * size
  OBVIOUS
<1>3. v <= u
  BY <1>1
<1> HIDE DEF v
<1>4. (u * size) \div (size * scale) = v
  <2> DEFINE n == u * size
             d == size * scale
  <2>1. v * d = (v * scale) * size /\ (v + 1) * d = ((v + 1) * scale) * size
    BY <1>1
  <2>2. v * d <= n /\ n < (v + 1) * d
    BY <1>1, <2>1
  <2>3. n \in Nat /\ d \in Nat \ {0}
    BY <1>2
  <2> HIDE DEF n, d
  <2>4. n \div d = v
    BY <1>1, <2>2, <2>3
  <2> QED
    BY <2>4 DEF n, d
<1> QED
  BY <1>1, <1>2, <1>3, <1>4

\* What lies between 0 and an int is an int.
LEMMA BetweenFits ==
  ASSUME NEW a \in Int, NEW w \in Int, FitsInt(a),
         (0 <= w /\ w <= a) \/ (a <= w /\ w <= 0)
  PROVE  FitsInt(w)
  BY DEF FitsInt

\* A place is shown where it was scaled from, and fits its field.
LEMMA LogicalIsThere ==
  ASSUME NEW u \in Int, NEW size \in Nat \ {0}, NEW scale \in Nat \ {0},
         scale = Scale, FitsInt(u * size)
  PROVE  LET v == Logical(u, size, scale) IN
         /\ v \in Int /\ FitsInt(v)
         /\ IF u >= 0 THEN PaintedAt(v, u) ELSE PaintedAt(-v, -u)
<1> DEFINE v == Logical(u, size, scale)
           n == IF u >= 0 THEN u ELSE -u
           q == (n * size) \div (size * scale)
<1>1. n \in Nat
  OBVIOUS
<1>2. q \in Nat /\ q <= n * size /\ q * scale <= n /\ n < (q + 1) * scale
  BY <1>1, Quotient
<1>3. v = IF u >= 0 THEN q ELSE -q
  BY DEF Logical
<1>4. u * size = IF u >= 0 THEN n * size ELSE -(n * size)
  OBVIOUS
<1> HIDE DEF v, q
<1>5. v \in Int /\ (IF u >= 0 THEN PaintedAt(v, u) ELSE PaintedAt(-v, -u))
  BY <1>2, <1>3 DEF PaintedAt
<1>6. (0 <= v /\ v <= u * size) \/ (u * size <= v /\ v <= 0)
  BY <1>2, <1>3, <1>4
<1>7. FitsInt(v)
  BY <1>5, <1>6, BetweenFits
<1> QED
  BY <1>5, <1>7 DEF v

LEMMA KeysSurvive ==
  ASSUME NEW key \in 0..255, NEW down \in BOOLEAN
  PROVE  Parse(ViewerKeyboard(key, down)) = Keyboard(key, down)
<1>0. PICK body : body = ViewerKeyboard(key, down)
  OBVIOUS
<1>1. /\ body.type = (IF down THEN "KEY_DOWN" ELSE "KEY_UP")
      /\ body.len = KeyboardBodySize /\ body.code = Bytes16(key)
  BY <1>0 DEF ViewerKeyboard, PackKeyboard
<1>2. body.type \in KeyTypes /\ body.type \notin MouseTypes
  BY <1>1 DEF KeyTypes, MouseTypes
<1>3. FromBytes16(body.code) = key
  BY <1>1, Bytes16RoundTrip
<1>4. FillKeyboard(body.type, key) = Keyboard(key, down)
  BY <1>1 DEF FillKeyboard
<1>5. Parse(body) = FillKeyboard(body.type, FromBytes16(body.code))
  BY <1>1, <1>2 DEF Parse
<1> QED
  BY <1>0, <1>3, <1>4, <1>5

LEMMA MouseSurvives ==
  ASSUME NEW event, NEW button, NEW p \in Points,
         <<event, button>> \in Clicks \cup {<<"MOVE", "NONE">>, <<"WHEEL", "NONE">>}
  PROVE  LET m == Parse(ViewerMouse(event, button, p[1], p[2], View)) IN
         /\ m.kind = "mouse" /\ m.uEvent = event /\ m.btButton = button
         /\ m.x = Logical(p[1], Width, Scale) /\ m.y = Logical(p[2], Height, Scale)
<1> DEFINE x == Logical(p[1], Width, Scale)
           y == Logical(p[2], Height, Scale)
<1>0. PICK body : body = ViewerMouse(event, button, p[1], p[2], View)
  OBVIOUS
<1>1. /\ body.type = mouse_event_type(event, button) /\ body.len = MouseBodySize
      /\ body.x = Bytes32(x) /\ body.y = Bytes32(y)
  BY <1>0 DEF ViewerMouse, PackMouse, View
<1>2. FromBytes32(body.x) = x /\ FromBytes32(body.y) = y
  <2>1. p[1] \in Int /\ p[2] \in Int
    BY ViewAssumption
  <2>2. x \in Int /\ FitsInt(x) /\ y \in Int /\ FitsInt(y)
    BY <2>1, ViewAssumption, LogicalIsThere
  <2> QED
    BY <1>1, <2>2, Bytes32RoundTrip
<1> HIDE DEF x, y
<1>3. /\ body.type \in MouseTypes /\ body.type \notin KeyTypes
      /\ \E held : FillMouse(body.type, x, y) = Mouse(event, button, held, x, y)
  BY <1>1 DEF mouse_event_type, MouseTypes, KeyTypes, FillMouse, Clicks
<1>4. Parse(body) = FillMouse(body.type, x, y)
  BY <1>1, <1>2, <1>3 DEF Parse
<1>5. PICK held : Parse(body) = Mouse(event, button, held, x, y)
  BY <1>3, <1>4
<1> QED
  BY <1>0, <1>5 DEF Mouse, x, y

\* What the viewer makes of the user's input and what the AppHost makes of
\* that fit together: for every canvas and every scale within the range of an
\* int, a key arrives as it is, a move or a click on the pixel that is shown
\* under the pointer, and a wheel as a wheel, without its amount.
THEOREM InputsArriveAsMade == Spec => []InputsSurviveWire
<1>1. ASSUME NEW p \in Points, NEW a,
             a \in Clicks \cup {<<"MOVE", "NONE">>, <<"WHEEL", "NONE">>}
      PROVE  LET m == Parse(ViewerMouse(a[1], a[2], p[1], p[2], View))
                 There(v, u) == IF u >= 0 THEN PaintedAt(v, u) ELSE PaintedAt(-v, -u)
             IN  /\ m.kind = "mouse" /\ m.uEvent = a[1] /\ m.btButton = a[2]
                 /\ There(m.x, p[1]) /\ There(m.y, p[2])
  <2>0. a = <<a[1], a[2]>>
    BY <1>1 DEF Clicks
  <2>1. p[1] \in Int /\ p[2] \in Int
    BY ViewAssumption
  <2> DEFINE m == Parse(ViewerMouse(a[1], a[2], p[1], p[2], View))
             x == Logical(p[1], Width, Scale)
             y == Logical(p[2], Height, Scale)
  <2>2. /\ m.kind = "mouse" /\ m.uEvent = a[1] /\ m.btButton = a[2]
        /\ m.x = x /\ m.y = y
    BY <1>1, <2>0, MouseSurvives
  <2>3. /\ IF p[1] >= 0 THEN PaintedAt(x, p[1]) ELSE PaintedAt(-x, -p[1])
        /\ IF p[2] >= 0 THEN PaintedAt(y, p[2]) ELSE PaintedAt(-y, -p[2])
    BY <2>1, ViewAssumption, LogicalIsThere
  <2> HIDE DEF m, x, y
  <2>4. /\ IF p[1] >= 0 THEN PaintedAt(m.x, p[1]) ELSE PaintedAt(-m.x, -p[1])
        /\ IF p[2] >= 0 THEN PaintedAt(m.y, p[2]) ELSE PaintedAt(-m.y, -p[2])
    BY <2>2, <2>3
  <2> QED
    BY <2>2, <2>4 DEF m
<1>2. InputsSurviveWire
  <2>1. \A key \in Keys, down \in BOOLEAN :
          Parse(ViewerKeyboard(key, down)) = Keyboard(key, down)
    BY KeysAssumption, KeysSurvive
  <2> QED
    BY <1>1, <2>1 DEF InputsSurviveWire
<1> QED
  BY <1>2, PTL
=============================================================================
