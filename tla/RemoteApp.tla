----------------------------- MODULE RemoteApp -----------------------------
(***************************************************************************)
(* The two applications of the repository as the Client sees them: a       *)
(* plugin in the AppHost, app_2048 (plugins/app_2048/app_2048.cpp) or      *)
(* demo_app (plugins/demo_app/demo_app.cpp), at the far end of InputCodec  *)
(* and FramePath.  The plugin's code runs on the AppHost's main thread: an *)
(* input is one step, with the frame its Damage() sends.  The order of     *)
(* inputs is UiHost's business.                                            *)
(***************************************************************************)
EXTENDS Board2048, InputCodec, FramePath

CONSTANTS
    Keys,    \* key codes the user presses
    Points,  \* <<x, y>> of the mouse's messages, in pixels of the display
    Width,   \* --canvas-width, --canvas-height and
    Height,  \* --display-scale of the viewer
    Scale

\* btKey of GKC's keyboard message is a byte on both sides of the wire.
ASSUME KeysAssumption == Keys \subseteq 0..255

\* The range of a 32-bit int, by its first byte; DoMouse() does not exceed it.
FitsInt(v) == ((v \div 256) \div 256) \div 256 \in -128..127

ASSUME ViewAssumption ==
    /\ Width \in Nat \ {0} /\ Height \in Nat \ {0} /\ Scale \in Nat \ {0}
    /\ FitsInt(Width * Scale) /\ FitsInt(Height * Scale)
    /\ Points \subseteq Int \X Int
    /\ \A p \in Points : FitsInt(p[1] * Width) /\ FitsInt(p[2] * Height)

View == [width |-> Width, height |-> Height, scale |-> Scale]

VARIABLES
    plugin,      \* the plugin that AppHost has loaded
    phase,       \* where its GuiMain() is
    tiles,       \* Board::tiles_, merged_ (as a set of cells), score_, state_
    merged,
    score,
    state,
    fours,       \* tiles of 4 that were spawned since the reset (history)
    draw_count,  \* DemoWindow::draw_count_, of which only 0..3 is told apart
    bg_color,    \* DemoWindow::bg_color_, small_color_
    small_color

boardVars == <<tiles, merged, score, state, fours>>
demoVars == <<draw_count, bg_color, small_color>>
vars == <<plugin, phase, boardVars, demoVars, frameVars>>

Is2048 == plugin = "app_2048"

\* The regions of a plugin's window.
RegionsOf(p) == IF p = "app_2048" THEN {"header", "board", "status"}
                                  ELSE {"background", "small"}

Whole == RegionsOf(plugin)

TypeOK ==
    /\ plugin \in {"app_2048", "demo_app"}
    /\ phase \in {"create", "show", "damage", "loop"}
    /\ tiles \in [Cells -> Nat] /\ merged \subseteq Cells
    /\ score \in Nat /\ fours \in Nat
    /\ state \in {"Playing", "GameOver"}
    /\ draw_count \in 0..3
    /\ bg_color \in {"BLUE", "CYAN"} /\ small_color \in {"GREEN", "YELLOW"}
    /\ DOMAIN pixels = Whole /\ DOMAIN canvas = Whole
    /\ frame_seq \in 0 .. SeqMod-1 /\ last_frame_seq \in 0 .. SeqMod-1
    /\ \A i \in DOMAIN frames : DOMAIN frames[i].data \subseteq Whole
    /\ room \subseteq Whole /\ sent \in Nat

Init ==
    /\ plugin \in {"app_2048", "demo_app"}
    /\ phase = "create"
    /\ tiles = EmptyBoard /\ merged = {} /\ score = 0 /\ state = "Playing"
    /\ fours = 0
    /\ draw_count = 0 /\ bg_color = "BLUE" /\ small_color = "GREEN"
    /\ FrameInit(Whole)

-----------------------------------------------------------------------------
(* The 2048 window.                                                        *)

\* App2048Window::DoDraw() of a board: draw_header(), draw_board() with the
\* merge palette for highlighted tiles, draw_status().
Draw2048(t, m, s, st) ==
    [header |-> s, board |-> [tiles |-> t, merged |-> m], status |-> st]

\* Mutant of Reset: score_ is kept.
ResetKeepsScore ==
    \E a \in Spawned(EmptyBoard) : \E b \in Spawned(a.tiles) :
       /\ tiles' = b.tiles
       /\ merged' = {} /\ UNCHANGED score /\ state' = "Playing"
       /\ fours' = (IF a.tile = 4 THEN 1 ELSE 0) + (IF b.tile = 4 THEN 1 ELSE 0)

\* Board::reset().
Reset ==
    \E a \in Spawned(EmptyBoard) : \E b \in Spawned(a.tiles) :
       /\ tiles' = b.tiles
       /\ merged' = {} /\ score' = 0 /\ state' = "Playing"
       /\ fours' = (IF a.tile = 4 THEN 1 ELSE 0) + (IF b.tile = 4 THEN 1 ELSE 0)

\* Board::move() that changes the board: spawn, then look for a move.
MoveChanges(d) ==
    /\ state = "Playing" /\ Slide(tiles, d) # tiles
    /\ merged' = MergedBy(tiles, d)
    /\ score' = score + Gain(tiles, d)
    /\ \E a \in Spawned(Slide(tiles, d)) :
          /\ tiles' = a.tiles
          /\ state' = IF AnyMovePossible(a.tiles) THEN "Playing" ELSE "GameOver"
          /\ fours' = IF a.tile = 4 THEN fours + 1 ELSE fours

\* Board::move() that changes nothing but last turn's highlights.
MoveChangesNothing(d) ==
    /\ state = "Playing" /\ Slide(tiles, d) = tiles
    /\ merged' = {}
    /\ UNCHANGED <<tiles, score, state, fours>>

\* The keys that App2048Window::DoKeyboard() knows.
DirectionOf(key) == CASE key = 37 -> "Left" [] key = 38 -> "Up"
                      [] key = 39 -> "Right" [] key = 40 -> "Down"
                      [] OTHER -> "none"
KB_F2 == 113
KB_F1 == 112

\* App2048Window::DoKeyboard(): F2 restarts and an arrow moves; what changed
\* is painted anew with a Damage() of the whole window.
Keyboard2048(kb) ==
    /\ Is2048 /\ kb.btDown
    /\ \/ \E d \in Directions :
            /\ DirectionOf(kb.btKey) = d
            /\ \/ /\ MoveChanges(d)
                  /\ DrawAndSend(Draw2048(tiles', merged', score', state'), Whole)
               \/ MoveChangesNothing(d) /\ UNCHANGED frameVars
       \/ /\ kb.btKey = KB_F2 /\ Reset
          /\ DrawAndSend(Draw2048(tiles', merged', score', state'), Whole)

-----------------------------------------------------------------------------
(* The demo window.                                                        *)

\* DemoWindow::DoDraw() and the Damage() or Show() that asked for it: the
\* first two draws have their own colours, later ones those of the inputs.
DemoDraws(bg, small, rect) ==
    /\ draw_count' = IF draw_count < 3 THEN draw_count + 1 ELSE 3
    /\ bg_color' = bg
    /\ small_color' = IF draw_count' = 2 THEN "GREEN" ELSE small
    /\ DrawAndSend([background |-> IF draw_count' <= 2 THEN "BLUE" ELSE bg,
                    small |-> IF draw_count' = 1 THEN "RED" ELSE small_color'],
                   rect)

\* Mutant of KeyboardDemo: the small rectangle is damaged for a change of the
\* background.
KeyboardDemoSmall(kb) ==
    /\ ~Is2048 /\ kb.btDown /\ kb.btKey = KB_F1
    /\ DemoDraws(IF bg_color = "BLUE" THEN "CYAN" ELSE "BLUE", small_color, {"small"})

\* DemoWindow::DoKeyboard(): F1 toggles the background.
KeyboardDemo(kb) ==
    /\ ~Is2048 /\ kb.btDown /\ kb.btKey = KB_F1
    /\ DemoDraws(IF bg_color = "BLUE" THEN "CYAN" ELSE "BLUE", small_color, Whole)

InSmall(x, y) == x \in 8..15 /\ y \in 4..11

\* DemoWindow::DoMouse(): a left click into the small rectangle toggles it.
MouseDemo(m) ==
    /\ m.uEvent = "DOWN" /\ m.btButton = "LEFT" /\ InSmall(m.x, m.y)
    /\ DemoDraws(bg_color, IF small_color = "GREEN" THEN "YELLOW" ELSE "GREEN",
                 {"small"})

-----------------------------------------------------------------------------
(* GuiMain() and the inputs its Loop() is handed.                          *)

\* The board is set up (init()) and the window created.
Create ==
    /\ phase = "create" /\ phase' = "show"
    /\ IF Is2048 THEN Reset ELSE UNCHANGED boardVars
    /\ UNCHANGED <<plugin, demoVars, frameVars>>

\* Show(true) draws the whole window.
Show ==
    /\ phase = "show"
    /\ \/ /\ Is2048 /\ phase' = "loop"
          /\ DrawAndSend(Draw2048(tiles, merged, score, state), Whole)
          /\ UNCHANGED demoVars
       \/ /\ ~Is2048 /\ phase' = "damage"
          /\ DemoDraws(bg_color, small_color, Whole)
    /\ UNCHANGED <<plugin, boardVars>>

\* The demo's Damage() before its Loop().
DamageSmall ==
    /\ phase = "damage" /\ phase' = "loop"
    /\ DemoDraws(bg_color, small_color, {"small"})
    /\ UNCHANGED <<plugin, boardVars>>

\* A key goes down or up in the viewer and reaches the plugin.
Key(key, down) ==
    /\ phase = "loop"
    /\ LET kb == Parse(ViewerKeyboard(key, down)) IN
       /\ kb.kind = "keyboard"
       /\ \/ Keyboard2048(kb) /\ UNCHANGED demoVars
          \/ KeyboardDemo(kb) /\ UNCHANGED boardVars
    /\ UNCHANGED <<plugin, phase>>

\* The mouse does something over the viewer; only the demo listens.
MouseInput(event, button, point) ==
    /\ phase = "loop" /\ ~Is2048
    /\ LET m == Parse(ViewerMouse(event, button, point[1], point[2], View)) IN
       m.kind = "mouse" /\ MouseDemo(m)
    /\ UNCHANGED <<plugin, phase, boardVars>>

Deliver == Apply /\ UNCHANGED <<plugin, phase, boardVars, demoVars>>

Next ==
    \/ Create \/ Show \/ DamageSmall
    \/ \E k \in Keys, down \in BOOLEAN : Key(k, down)
    \/ \E e \in MouseEvents, b \in Buttons, p \in Points : MouseInput(e, b, p)
    \/ Deliver

Spec == Init /\ [][Next]_vars

-----------------------------------------------------------------------------
(* Properties.                                                             *)

\* A picture shows the plugin as it is.  Only the highlights may be older: a
\* key that moves nothing clears merged_ without a new frame.
Shows(picture) ==
    IF Is2048
    THEN /\ picture["board"].tiles = tiles /\ picture["header"] = score
         /\ picture["status"] = state
         /\ merged \in {{}, picture["board"].merged}
    ELSE picture["background"] = bg_color /\ picture["small"] = small_color

\* When no frame is on its way, the Client's canvas shows the board, score
\* and game state (or the demo's colours) as the plugin has them, although
\* frames carry only the damaged rectangle and keys come at any time.
Mirror == phase = "loop" /\ Arrived => Shows(canvas)

\* "If no empty cells remain and no adjacent equal tiles exist, enter
\* game-over state" (docs/design/2048.md:130), and in no other case: the game
\* is over exactly when no direction would change the board any more.
GameOverIsDead ==
    state = "GameOver" <=> phase # "create" /\ Is2048
                           /\ \A d \in Directions : Slide(tiles, d) = tiles

\* compress_line() of every line of the code's 4 places with tiles up to 8: each
\* tile takes part in one merge at most, nearest the destination first, and the
\* line keeps its order (TileCannotMergeTwiceInOneMove in
\* app_2048_logic_test.cpp tries one line).  It speaks of no state, so it is
\* asked of those in which the board has just been set up.
LinesMergeOnce ==
    phase = "show" => \A line \in [1..4 -> {0, 2, 4, 8}] : MergesOnce(line)

\* The score is what the merges behind the tiles on the board are worth, all
\* of them once: a 4 that was spawned was not scored.
ScoreLaw ==
    LET worth == [c \in Cells |-> Worth[tiles[c]]]
    IN  score + 4 * fours = MapThenSumSet(LAMBDA c : worth[c], Cells)

Clicks == {"DOWN", "UP"} \X {"LEFT", "RIGHT"}

\* The pixel v of the canvas is what blit_scaled_to_fit() paints at u.
PaintedAt(v, u) == v * Scale <= u /\ u < (v + 1) * Scale

\* What the user does reaches the plugin as far as the wire has room for it.
\* A key arrives with its code and direction.  A move, and a click of the left
\* or the right button, arrives as such and where the user sees it: on the
\* pixel of the canvas that the viewer paints under the pointer, or, left of
\* the window or above it, less than a pixel from there, although places go
\* over the wire unsigned.  A wheel arrives as a wheel and no more.
\* docs/design/protocol_spec.md:205 has its y carry the amount; the viewer
\* scales the amount like a place, so a small one becomes 0, and what
\* fill_mouse_message() puts into btValue is 0 (input_event.cpp:73-77).
\* (It speaks of no state but the window's being about to be shown.)
InputsSurviveWire ==
    phase = "show" =>
      /\ \A key \in Keys, down \in BOOLEAN :
            Parse(ViewerKeyboard(key, down)) = Keyboard(key, down)
      /\ \A p \in Points :
            LET At(a) == Parse(ViewerMouse(a[1], a[2], p[1], p[2], View))
                There(v, u) == IF u >= 0 THEN PaintedAt(v, u) ELSE PaintedAt(-v, -u)
            IN  /\ At(<<"WHEEL", "NONE">>).kind = "mouse"
                /\ At(<<"WHEEL", "NONE">>).uEvent = "WHEEL"
                /\ \A a \in Clicks \cup {<<"MOVE", "NONE">>} :
                      /\ At(a).kind = "mouse"
                      /\ At(a).uEvent = a[1] /\ At(a).btButton = a[2]
                      /\ There(At(a).x, p[1]) /\ There(At(a).y, p[2])
=============================================================================
