--------------------------- MODULE MCMessageLoop ---------------------------
(* One window, events that exercise each kind of conversion, a click and the
   close button as the user's input, and a buffer that holds either nothing or
   the remains of a held key and button. *)
EXTENDS MessageLoop

CONSTANT w

SomeEvents ==
    {[type |-> "Close", window |-> w],
     [type |-> "MousePress", window |-> w, button |-> "X1", x |-> -1, y |-> 7],
     [type |-> "MouseWheel", window |-> w, delta_x |-> -120, delta_y |-> 240,
      x |-> 0, y |-> -32768],
     [type |-> "MouseWheel", window |-> w, delta_x |-> 0, delta_y |-> 120, x |-> 0, y |-> 0],
     [type |-> "KeyPress", window |-> w, key_code |-> NumpadMultiply,
      is_repeat |-> FALSE],
     [type |-> "MouseRelease", window |-> w, button |-> "X2", x |-> 9, y |-> -9],
     [type |-> "Resize", window |-> w, width |-> 65535, height |-> 40000]}

SomeInputs ==
    {[hwnd |-> w, message |-> "WM_CLOSE", w |-> <<0, 0>>, l |-> <<0, 0>>],
     [hwnd |-> w, message |-> "WM_LBUTTONDOWN", w |-> <<1, 0>>, l |-> <<3, 4>>]}

SomeJunk == {[w |-> <<0, 0>>, l |-> <<0, 0>>],
             [w |-> <<2, 1>>, l |-> <<65535, 65535>>]}
=============================================================================
