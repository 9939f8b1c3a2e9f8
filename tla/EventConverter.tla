--------------------------- MODULE EventConverter ---------------------------
(***************************************************************************)
(* ecs/platform/win32/event_loop/event_converter.cpp: the conversions      *)
(* between the events of ecs/platform/message_loop/event.h and the native  *)
(* messages (MSG) of Windows, and the table of the native messages that    *)
(* each type of event is made from.                                        *)
(*                                                                         *)
(* wParam and lParam are pairs <<low word, high word>> of 16 bits each,    *)
(* which is how the converters read and write them; what a wParam of 64    *)
(* bits holds above that no converter looks at.  Coordinates are floats    *)
(* with whole values, and a wheel's deltas are counted in 120ths of a      *)
(* notch, so the roundings of the division by WHEEL_DELTA are left out.    *)
(***************************************************************************)
EXTENDS Integers

Word == {n \in Nat : n < 65536}          \* 16 bits
Low(n) == n % 65536                       \* a cast to WORD
Signed(w) == IF w < 32768 THEN w ELSE w - 65536    \* ... and to short

VK_ADD == 107
VK_SUBTRACT == 109
VK_MULTIPLY == 106
VK_DIVIDE == 111
VK_SHIFT == 16
VK_CONTROL == 17
VK_MENU == 18

NumpadAdd == 106
NumpadSubtract == 107
NumpadMultiply == 108
NumpadDivide == 109
NumpadEnter == 111
LShift == 160
LControl == 162
LAlt == 164

Mice == {"MouseMove", "MousePress", "MouseRelease", "MouseWheel"}
KeyStrokes == {"KeyPress", "KeyRelease"}
Plain == {"Event", "Close", "Focus", "LostFocus"}   \* a window and no more
Types == Plain \cup Mice \cup KeyStrokes \cup {"Resize", "Move", "KeyChar"}

\* nativeMsg(): the messages whose arrival schedules the type's listeners.
nativeMsg ==
    [Event        |-> {"WM_NULL"},
     Close        |-> {"WM_CLOSE"},
     Resize       |-> {"WM_SIZE"},
     Move         |-> {"WM_MOVE"},
     Focus        |-> {"WM_SETFOCUS"},
     LostFocus    |-> {"WM_KILLFOCUS"},
     MouseMove    |-> {"WM_MOUSEMOVE"},
     MousePress   |-> {"WM_LBUTTONDOWN", "WM_RBUTTONDOWN", "WM_MBUTTONDOWN",
                       "WM_XBUTTONDOWN"},
     MouseRelease |-> {"WM_LBUTTONUP", "WM_RBUTTONUP", "WM_MBUTTONUP",
                       "WM_XBUTTONUP"},
     MouseWheel   |-> {"WM_MOUSEHWHEEL"},
     KeyPress     |-> {"WM_KEYDOWN"},
     KeyRelease   |-> {"WM_KEYUP"},
     KeyChar      |-> {"WM_CHAR"}]

-----------------------------------------------------------------------------
(* Keys and buttons *)

\* GetKeyFromWParam.  The enumerators of Key are virtual-key codes but for the
\* operators of the number pad, which follow Numpad9 in an order of their own,
\* and for the modifiers, which name the left key.
KeyFrom(wParam) ==
    CASE wParam = <<VK_ADD, 0>>      -> NumpadAdd
      [] wParam = <<VK_SUBTRACT, 0>> -> NumpadSubtract
      [] wParam = <<VK_MULTIPLY, 0>> -> NumpadMultiply
      [] wParam = <<VK_DIVIDE, 0>>   -> NumpadDivide
      [] wParam = <<VK_SHIFT, 0>>    -> LShift
      [] wParam = <<VK_CONTROL, 0>>  -> LControl
      [] wParam = <<VK_MENU, 0>>     -> LAlt
      [] OTHER                       -> wParam[1]

Buttons == {"Left", "Right", "Middle", "X1", "X2"}

XButton(b) == IF b = "X1" THEN 1 ELSE 2   \* XBUTTON1, XBUTTON2

\* The two messages of a button, and the button of a message.
Down(b) == CASE b = "Left"   -> "WM_LBUTTONDOWN"
             [] b = "Right"  -> "WM_RBUTTONDOWN"
             [] b = "Middle" -> "WM_MBUTTONDOWN"
             [] OTHER        -> "WM_XBUTTONDOWN"

Up(b) == CASE b = "Left"   -> "WM_LBUTTONUP"
           [] b = "Right"  -> "WM_RBUTTONUP"
           [] b = "Middle" -> "WM_MBUTTONUP"
           [] OTHER        -> "WM_XBUTTONUP"

\* A plausible slip: XBUTTON1 is compared with the low word, where the flags
\* of the held buttons are.
PressedFlags(msg) ==
    CASE msg.message = "WM_LBUTTONDOWN" -> "Left"
      [] msg.message = "WM_RBUTTONDOWN" -> "Right"
      [] msg.message = "WM_MBUTTONDOWN" -> "Middle"
      [] OTHER -> IF msg.w[1] = XButton("X1") THEN "X1" ELSE "X2"

Pressed(msg) ==
    CASE msg.message = "WM_LBUTTONDOWN" -> "Left"
      [] msg.message = "WM_RBUTTONDOWN" -> "Right"
      [] msg.message = "WM_MBUTTONDOWN" -> "Middle"
      [] OTHER -> IF msg.w[2] = XButton("X1") THEN "X1" ELSE "X2"

Released(msg) ==
    CASE msg.message = "WM_LBUTTONUP" -> "Left"
      [] msg.message = "WM_RBUTTONUP" -> "Right"
      [] msg.message = "WM_MBUTTONUP" -> "Middle"
      [] OTHER -> IF msg.w[2] = XButton("X1") THEN "X1" ELSE "X2"

X(msg) == Signed(msg.l[1])       \* GET_X_LPARAM
Y(msg) == Signed(msg.l[2])       \* GET_Y_LPARAM
Place(x, y) == <<Low(x), Low(y)>>          \* MAKELONG

-----------------------------------------------------------------------------
(* fromNative, for each type of event *)

PlainFrom(t, msg) == [type |-> t, window |-> msg.hwnd]

ResizeFrom(msg) == [type |-> "Resize", window |-> msg.hwnd,
                    width |-> msg.l[1], height |-> msg.l[2]]

MoveFrom(msg) == [type |-> "Move", window |-> msg.hwnd, x |-> X(msg), y |-> Y(msg)]

MouseMoveFrom(msg) == [type |-> "MouseMove", window |-> msg.hwnd,
                       x |-> X(msg), y |-> Y(msg)]

MousePressFrom(msg) == [type |-> "MousePress", window |-> msg.hwnd,
                        button |-> Pressed(msg), x |-> X(msg), y |-> Y(msg)]

MouseReleaseFrom(msg) == [type |-> "MouseRelease", window |-> msg.hwnd,
                          button |-> Released(msg), x |-> X(msg), y |-> Y(msg)]

MouseWheelFrom(msg) ==
    LET delta == Signed(msg.w[2])
        sideways == msg.message = "WM_MOUSEHWHEEL"
    IN  [type |-> "MouseWheel", window |-> msg.hwnd,
         delta_x |-> IF sideways THEN -delta ELSE 0,
         delta_y |-> IF sideways THEN 0 ELSE delta,
         x |-> X(msg), y |-> Y(msg)]

KeyPressFrom(msg) == [type |-> "KeyPress", window |-> msg.hwnd,
                      key_code |-> KeyFrom(msg.w),
                      is_repeat |-> (msg.l[2] \div 16384) % 2 = 1]   \* bit 30

KeyReleaseFrom(msg) == [type |-> "KeyRelease", window |-> msg.hwnd,
                        key_code |-> KeyFrom(msg.w)]

KeyCharFrom(msg) == [type |-> "KeyChar", window |-> msg.hwnd, character |-> msg.w]

fromNative(t, msg) ==
    CASE t \in Plain          -> PlainFrom(t, msg)
      [] t = "Resize"         -> ResizeFrom(msg)
      [] t = "Move"           -> MoveFrom(msg)
      [] t = "MouseMove"      -> MouseMoveFrom(msg)
      [] t = "MousePress"     -> MousePressFrom(msg)
      [] t = "MouseRelease"   -> MouseReleaseFrom(msg)
      [] t = "MouseWheel"     -> MouseWheelFrom(msg)
      [] t = "KeyPress"       -> KeyPressFrom(msg)
      [] t = "KeyRelease"     -> KeyReleaseFrom(msg)
      [] t = "KeyChar"        -> KeyCharFrom(msg)

-----------------------------------------------------------------------------
(* toNative, for each type of event, into a buffer that still holds what its
   memory held before: a field that a converter does not set keeps junk.      *)

Message(e, message, w, l) == [hwnd |-> e.window, message |-> message, w |-> w, l |-> l]

PlainTo(e, junk) ==
    CASE e.type = "Event"     -> Message(e, "WM_NULL", junk.w, junk.l)
      [] e.type = "Close"     -> Message(e, "WM_CLOSE", junk.w, junk.l)
      [] e.type = "Focus"     -> Message(e, "WM_SETFOCUS", junk.w, <<0, 0>>)
      [] e.type = "LostFocus" -> Message(e, "WM_KILLFOCUS", junk.w, <<0, 0>>)

ResizeTo(e, junk) == Message(e, "WM_SIZE", junk.w, Place(e.width, e.height))

MoveTo(e, junk) == Message(e, "WM_MOVE", junk.w, Place(e.x, e.y))

MouseMoveTo(e, junk) == Message(e, "WM_MOUSEMOVE", junk.w, Place(e.x, e.y))

\* Only an X button writes wParam.
ButtonWord(b, junk) == IF b \in {"X1", "X2"} THEN <<0, XButton(b)>> ELSE junk.w

MousePressTo(e, junk) ==
    Message(e, Down(e.button), ButtonWord(e.button, junk), Place(e.x, e.y))

MouseReleaseTo(e, junk) ==
    Message(e, Up(e.button), ButtonWord(e.button, junk), Place(e.x, e.y))

MouseWheelTo(e, junk) ==
    IF e.delta_x # 0
    THEN Message(e, "WM_MOUSEHWHEEL", <<0, Low(-e.delta_x)>>, Place(e.x, e.y))
    ELSE Message(e, "WM_MOUSEWHEEL", <<0, Low(e.delta_y)>>, Place(e.x, e.y))

\* lParam |= 1 << 30 for a repeat, and whatever it was for a first press.
KeyPressTo(e, junk) ==
    LET set == (junk.l[2] \div 16384) % 2 = 1
        high == IF e.is_repeat /\ ~set THEN junk.l[2] + 16384 ELSE junk.l[2]
    IN  Message(e, "WM_KEYDOWN", <<e.key_code, 0>>, <<junk.l[1], high>>)

KeyReleaseTo(e, junk) == Message(e, "WM_KEYUP", <<e.key_code, 0>>, junk.l)

KeyCharTo(e, junk) == Message(e, "WM_CHAR", e.character, junk.l)

toNative(e, junk) ==
    CASE e.type \in Plain          -> PlainTo(e, junk)
      [] e.type = "Resize"         -> ResizeTo(e, junk)
      [] e.type = "Move"           -> MoveTo(e, junk)
      [] e.type = "MouseMove"      -> MouseMoveTo(e, junk)
      [] e.type = "MousePress"     -> MousePressTo(e, junk)
      [] e.type = "MouseRelease"   -> MouseReleaseTo(e, junk)
      [] e.type = "MouseWheel"     -> MouseWheelTo(e, junk)
      [] e.type = "KeyPress"       -> KeyPressTo(e, junk)
      [] e.type = "KeyRelease"     -> KeyReleaseTo(e, junk)
      [] e.type = "KeyChar"        -> KeyCharTo(e, junk)

-----------------------------------------------------------------------------
(* What of an event survives the way through the queue *)

Short == {n \in Int : -32768 <= n /\ n < 32768}

\* The events whose coordinates, sizes and codes fit the words of a message.
Sendable(windows) ==
    [type : Plain, window : windows]
    \cup [type : {"Resize"}, window : windows, width : Word, height : Word]
    \cup [type : {"Move", "MouseMove"}, window : windows, x : Short, y : Short]
    \cup [type : {"MousePress", "MouseRelease"}, window : windows, button : Buttons,
          x : Short, y : Short]
    \cup [type : {"MouseWheel"}, window : windows, delta_x : Short \ {-32768},
          delta_y : Short, x : Short, y : Short]
    \cup [type : {"KeyPress"}, window : windows, key_code : Word, is_repeat : BOOLEAN]
    \cup [type : {"KeyRelease"}, window : windows, key_code : Word]
    \cup [type : {"KeyChar"}, window : windows, character : Word \X Word]

\* The keys whose own code, read as a virtual-key code, names another key.
Crossed == {NumpadAdd, NumpadSubtract, NumpadDivide, NumpadEnter,
            VK_SHIFT, VK_CONTROL, VK_MENU}

\* What was sent as e comes out as f: the same event, but for a first press of
\* a key, which may come out as a repeat, and for the keys that are crossed.  A
\* wheel that turns both ways comes out sideways.
ComesOutAs(e, f) ==
    CASE e.type = "MouseWheel" /\ e.delta_x # 0 -> f = [e EXCEPT !.delta_y = 0]
      [] e.type = "KeyPress" ->
             /\ f.type = e.type /\ f.window = e.window
             /\ e.key_code \notin Crossed => f.key_code = e.key_code
             /\ e.is_repeat => f.is_repeat
      [] e.type = "KeyRelease" ->
             /\ f.type = e.type /\ f.window = e.window
             /\ e.key_code \notin Crossed => f.key_code = e.key_code
      [] OTHER -> f = e
=============================================================================
