----------------------------- MODULE InputCodec -----------------------------
(***************************************************************************)
(* INPUT_EVENT bodies (src/common/input_event.cpp): what the Client viewer *)
(* packs (plugins/client_viewer/client_viewer.cpp) and what the AppHost    *)
(* makes of a body.  A body is its event type, its length and the bytes of *)
(* its other fields, but for the timestamp, which nobody reads.  (A mouse  *)
(* body has no room for all of it: the fields take 1 + 4 + 4 + 8 bytes,    *)
(* INPUT_EVENT_MOUSE_BODY_SIZE is 13, and both sides go on with the last   *)
(* four bytes of the timestamp behind the body: undefined in C++, and      *)
(* taken here to hurt no other field.)                                     *)
(***************************************************************************)
EXTENDS Integers

\* Header constants of input_event.h and GKC's input messages (an external
\* library), by name.
MouseTypes == {"MOUSE_MOVE", "MOUSE_LEFT_DOWN", "MOUSE_LEFT_UP",
               "MOUSE_RIGHT_DOWN", "MOUSE_RIGHT_UP", "MOUSE_SCROLL"}
KeyTypes == {"KEY_DOWN", "KEY_UP"}
MouseBodySize == 13
KeyboardBodySize == 11
MouseEvents == {"MOVE", "DOWN", "UP", "WHEEL", "QUERY_MOVE", "QUERY_CURSOR"}
Buttons == {"NONE", "LEFT", "RIGHT", "MIDDLE"}

\* What parse_input_event_body() returning false stands for.
Dropped == [kind |-> "dropped"]

\* btState is the set of buttons held; btDouble is 0 in every message.
Mouse(event, button, held, x, y) ==
    [kind |-> "mouse", uEvent |-> event, btButton |-> button, btState |-> held,
     btValue |-> 0, x |-> x, y |-> y]

\* btState, btValue and chFull are 0 in every message.
Keyboard(key, down) == [kind |-> "keyboard", btKey |-> key, btDown |-> down]

-----------------------------------------------------------------------------
(* Fields on the wire.                                                     *)

\* write_be16() and read_be16().
Bytes16(v) == <<v \div 256, v % 256>>
FromBytes16(b) == 256 * b[1] + b[2]

\* write_be32() of a signed value cast to uint32_t, that is modulo 2^32.
Bytes32(v) ==
    LET v1 == v \div 256
        v2 == v1 \div 256
        v3 == v2 \div 256
    IN  <<v3 % 256, v2 % 256, v1 % 256, v % 256>>

\* read_be32() cast to int32_t: the first bit is the sign.
FromBytes32(b) ==
    LET high == IF b[1] < 128 THEN b[1] ELSE b[1] - 256
    IN  256 * (256 * (256 * high + b[2]) + b[3]) + b[4]

-----------------------------------------------------------------------------
(* The viewer.                                                             *)

\* mouse_event_type(): the middle button and GKC's queries are sent as moves.
mouse_event_type(event, button) ==
    CASE event = "DOWN" /\ button = "LEFT"  -> "MOUSE_LEFT_DOWN"
      [] event = "UP"   /\ button = "LEFT"  -> "MOUSE_LEFT_UP"
      [] event = "DOWN" /\ button = "RIGHT" -> "MOUSE_RIGHT_DOWN"
      [] event = "UP"   /\ button = "RIGHT" -> "MOUSE_RIGHT_UP"
      [] event = "WHEEL" -> "MOUSE_SCROLL"
      [] OTHER -> "MOUSE_MOVE"

\* pack_mouse_input_event() and pack_keyboard_input_event().
PackMouse(type, x, y) ==
    [type |-> type, len |-> MouseBodySize, x |-> Bytes32(x), y |-> Bytes32(y)]

PackKeyboard(type, code) ==
    [type |-> type, len |-> KeyboardBodySize, code |-> Bytes16(code)]

\* Mutant of Logical: the quotient is rounded to the nearest.
LogicalRounded(v, size, scale) == (v * size + (size * scale) \div 2) \div (size * scale)

\* logical_x and logical_y of DoMouse(), for a canvas of `size' pixels shown
\* `scale' times enlarged.  C++ divides towards zero.
Logical(v, size, scale) ==
    IF v >= 0 THEN (v * size) \div (size * scale)
              ELSE -((-v * size) \div (size * scale))

\* DoMouse() and DoKeyboard() of the viewer's window.  The message's other
\* fields are not read.  A WHEEL has the amounts of the scrolling in x and y
\* (docs/GKC/GKC_usage.md:691), which are scaled like a place.
ViewerMouse(event, button, x, y, view) ==
    PackMouse(mouse_event_type(event, button),
              Logical(x, view.width, view.scale), Logical(y, view.height, view.scale))

ViewerKeyboard(key, down) ==
    PackKeyboard(IF down THEN "KEY_DOWN" ELSE "KEY_UP", key)

-----------------------------------------------------------------------------
(* The AppHost.                                                            *)

\* fill_mouse_message(): a WHEEL gets the amount 0.
FillMouse(type, x, y) ==
    CASE type = "MOUSE_MOVE"       -> Mouse("MOVE", "NONE", {}, x, y)
      [] type = "MOUSE_LEFT_DOWN"  -> Mouse("DOWN", "LEFT", {"LEFT"}, x, y)
      [] type = "MOUSE_LEFT_UP"    -> Mouse("UP", "LEFT", {}, x, y)
      [] type = "MOUSE_RIGHT_DOWN" -> Mouse("DOWN", "RIGHT", {"RIGHT"}, x, y)
      [] type = "MOUSE_RIGHT_UP"   -> Mouse("UP", "RIGHT", {}, x, y)
      [] type = "MOUSE_SCROLL"     -> Mouse("WHEEL", "NONE", {}, x, y)

\* fill_keyboard_message(): btKey is a byte, a wider code is refused.
FillKeyboard(type, code) ==
    IF code > 255 THEN Dropped ELSE Keyboard(code, type = "KEY_DOWN")

\* parse_input_event_body().
Parse(body) ==
    CASE body.type \in MouseTypes /\ body.len = MouseBodySize ->
           FillMouse(body.type, FromBytes32(body.x), FromBytes32(body.y))
      [] body.type \in KeyTypes /\ body.len = KeyboardBodySize ->
           FillKeyboard(body.type, FromBytes16(body.code))
      [] OTHER -> Dropped
=============================================================================
