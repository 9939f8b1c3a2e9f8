-------------------------- MODULE MessageLoopProofs --------------------------
(***************************************************************************)
(* Proofs about EventConverter and MessageLoop for every event that fits a *)
(* message, every input, and whatever the buffer of Post holds.            *)
(***************************************************************************)
EXTENDS MessageLoop, TLAPS

-----------------------------------------------------------------------------
(* The converters *)

LEMMA ModPositive == ASSUME NEW n \in Int, 0 <= n, n < 65536 PROVE n % 65536 = n
OBVIOUS

LEMMA ModNegative == ASSUME NEW n \in Int, -65536 <= n, n < 0
                     PROVE  n % 65536 = n + 65536
OBVIOUS

LEMMA SignedLow == ASSUME NEW n \in Short
                   PROVE  Low(n) \in Word /\ Signed(Low(n)) = n
<1>0. n \in Int /\ -32768 <= n /\ n < 32768
  BY DEF Short
<1>1. CASE n >= 0
  <2>1. n % 65536 = n
    BY ONLY <1>0, <1>1, ModPositive
  <2>2. Low(n) = n
    BY ONLY <2>1 DEF Low
  <2> QED
    BY ONLY <1>0, <1>1, <2>2 DEF Signed, Word
<1>2. CASE n < 0
  <2>1. n % 65536 = n + 65536
    BY ONLY <1>0, <1>2, ModNegative
  <2>2. Low(n) = n + 65536
    BY ONLY <2>1 DEF Low
  <2> QED
    BY ONLY <1>0, <1>2, <2>2 DEF Signed, Word
<1> QED
  BY ONLY <1>0, <1>1, <1>2

LEMMA LowWord == \A n \in Word : Low(n) = n
<1> SUFFICES ASSUME NEW n \in Word PROVE Low(n) = n
  OBVIOUS
<1>1. n \in Int /\ 0 <= n /\ n < 65536
  BY DEF Word
<1>2. n % 65536 = n
  BY ONLY <1>1, ModPositive
<1> QED
  BY ONLY <1>2 DEF Low

LEMMA PlainTrip ==
    ASSUME NEW e \in [type : Plain, window : {Window}], NEW junk \in Junk, NEW t \in Types,
           toNative(e, junk).message \in nativeMsg[t]
    PROVE  t = e.type /\ ComesOutAs(e, fromNative(t, toNative(e, junk)))
<1>1. toNative(e, junk) = PlainTo(e, junk) /\ e.type \in Plain
  BY DEF toNative, Plain
<1>2. PlainTo(e, junk).hwnd = e.window
  BY <1>1 DEF PlainTo, Message, Plain
<1>3. t = e.type
  BY <1>1 DEF PlainTo, Message, Plain, nativeMsg, Types, Mice, KeyStrokes
<1>4. fromNative(t, toNative(e, junk)) = [type |-> e.type, window |-> e.window]
  BY <1>1, <1>2, <1>3 DEF fromNative, PlainFrom, Plain
<1>5. e = [type |-> e.type, window |-> e.window]
  OBVIOUS
<1> QED
  BY <1>1, <1>3, <1>4, <1>5 DEF ComesOutAs, Plain

LEMMA ResizeTrip ==
    ASSUME NEW e \in [type : {"Resize"}, window : {Window}, width : Word, height : Word],
           NEW junk \in Junk, NEW t \in Types,
           toNative(e, junk).message \in nativeMsg[t]
    PROVE  t = e.type /\ ComesOutAs(e, fromNative(t, toNative(e, junk)))
<1>1. toNative(e, junk) = ResizeTo(e, junk)
  BY DEF toNative, Plain
<1>3. t = e.type
  BY <1>1 DEF ResizeTo, Message, Plain, nativeMsg, Types, Mice, KeyStrokes
<1>4. fromNative(t, toNative(e, junk)) = e
  BY <1>1, <1>3, LowWord DEF fromNative, ResizeFrom, ResizeTo, Message, Plain, Place
<1> QED
  BY <1>1, <1>3, <1>4 DEF ComesOutAs

\* A place survives: its coordinates are signed words.
LEMMA PlaceTrip ==
    ASSUME NEW x \in Short, NEW y \in Short
    PROVE  Signed(Place(x, y)[1]) = x /\ Signed(Place(x, y)[2]) = y
BY SignedLow DEF Place

LEMMA MoveTrip ==
    ASSUME NEW e \in [type : {"Move", "MouseMove"}, window : {Window}, x : Short, y : Short],
           NEW junk \in Junk, NEW t \in Types,
           toNative(e, junk).message \in nativeMsg[t]
    PROVE  t = e.type /\ ComesOutAs(e, fromNative(t, toNative(e, junk)))
<1>1. CASE e.type = "Move"
  <2>1. toNative(e, junk) = MoveTo(e, junk)
    BY <1>1 DEF toNative, Plain
  <2>2. t = e.type
    BY <1>1, <2>1 DEF MoveTo, Message, Plain, nativeMsg, Types, Mice, KeyStrokes
  <2>3. fromNative(t, toNative(e, junk)) = e
    BY <1>1, <2>1, <2>2, PlaceTrip DEF fromNative, MoveFrom, MoveTo, Message, Plain, X, Y
  <2> QED
    BY <1>1, <2>2, <2>3 DEF ComesOutAs
<1>2. CASE e.type = "MouseMove"
  <2>1. toNative(e, junk) = MouseMoveTo(e, junk)
    BY <1>2 DEF toNative, Plain
  <2>2. t = e.type
    BY <1>2, <2>1 DEF MouseMoveTo, Message, Plain, nativeMsg, Types, Mice, KeyStrokes
  <2>3. fromNative(t, toNative(e, junk)) = e
    BY <1>2, <2>1, <2>2, PlaceTrip
       DEF fromNative, MouseMoveFrom, MouseMoveTo, Message, Plain, X, Y
  <2> QED
    BY <1>2, <2>2, <2>3 DEF ComesOutAs
<1> QED
  BY <1>1, <1>2

LEMMA ButtonTrip ==
    ASSUME NEW e \in [type : {"MousePress", "MouseRelease"}, window : {Window},
                      button : Buttons, x : Short, y : Short],
           NEW junk \in Junk, NEW t \in Types,
           toNative(e, junk).message \in nativeMsg[t]
    PROVE  t = e.type /\ ComesOutAs(e, fromNative(t, toNative(e, junk)))
<1>1. CASE e.type = "MousePress"
  <2>1. toNative(e, junk) = MousePressTo(e, junk)
    BY <1>1 DEF toNative, Plain
  <2>2. t = e.type
    BY <1>1, <2>1 DEF MousePressTo, Down, Message, Plain, nativeMsg, Types, Mice, KeyStrokes
  <2>3. Pressed(MousePressTo(e, junk)) = e.button
    BY DEF Pressed, MousePressTo, Message, Down, ButtonWord, XButton, Buttons
  <2>4. X(MousePressTo(e, junk)) = e.x /\ Y(MousePressTo(e, junk)) = e.y
    BY PlaceTrip DEF X, Y, MousePressTo, Message
  <2>5. fromNative(t, toNative(e, junk)) = MousePressFrom(MousePressTo(e, junk))
    BY <1>1, <2>1, <2>2 DEF fromNative, Plain
  <2>6. MousePressFrom(MousePressTo(e, junk)) = e
    <3>1. MousePressTo(e, junk).hwnd = e.window
      BY DEF MousePressTo, Message
    <3> QED
      BY <1>1, <2>3, <2>4, <3>1 DEF MousePressFrom
  <2> QED
    BY <1>1, <2>2, <2>5, <2>6 DEF ComesOutAs
<1>2. CASE e.type = "MouseRelease"
  <2>1. toNative(e, junk) = MouseReleaseTo(e, junk)
    BY <1>2 DEF toNative, Plain
  <2>2. t = e.type
    BY <1>2, <2>1 DEF MouseReleaseTo, Up, Message, Plain, nativeMsg, Types, Mice, KeyStrokes
  <2>3. Released(MouseReleaseTo(e, junk)) = e.button
    BY DEF Released, MouseReleaseTo, Message, Up, ButtonWord, XButton, Buttons
  <2>4. X(MouseReleaseTo(e, junk)) = e.x /\ Y(MouseReleaseTo(e, junk)) = e.y
    BY PlaceTrip DEF X, Y, MouseReleaseTo, Message
  <2>5. fromNative(t, toNative(e, junk)) = MouseReleaseFrom(MouseReleaseTo(e, junk))
    BY <1>2, <2>1, <2>2 DEF fromNative, Plain
  <2>6. MouseReleaseFrom(MouseReleaseTo(e, junk)) = e
    <3>1. MouseReleaseTo(e, junk).hwnd = e.window
      BY DEF MouseReleaseTo, Message
    <3> QED
      BY <1>2, <2>3, <2>4, <3>1 DEF MouseReleaseFrom
  <2> QED
    BY <1>2, <2>2, <2>5, <2>6 DEF ComesOutAs
<1> QED
  BY <1>1, <1>2

\* A wheel that turns up or down is a message of no scheduler, so that what
\* arrives turned sideways.
LEMMA WheelTrip ==
    ASSUME NEW e \in [type : {"MouseWheel"}, window : {Window}, delta_x : Short \ {-32768},
                      delta_y : Short, x : Short, y : Short],
           NEW junk \in Junk, NEW t \in Types,
           toNative(e, junk).message \in nativeMsg[t]
    PROVE  t = e.type /\ ComesOutAs(e, fromNative(t, toNative(e, junk)))
<1>1. toNative(e, junk) = MouseWheelTo(e, junk)
  BY DEF toNative, Plain
<1>2. t = e.type /\ e.delta_x # 0
  BY <1>1 DEF MouseWheelTo, Message, Plain, nativeMsg, Types, Mice, KeyStrokes
<1> DEFINE m == MouseWheelTo(e, junk)
<1>3. m = [hwnd |-> e.window, message |-> "WM_MOUSEHWHEEL", w |-> <<0, Low(-e.delta_x)>>,
           l |-> Place(e.x, e.y)]
  BY <1>2 DEF MouseWheelTo, Message
<1>4. X(m) = e.x /\ Y(m) = e.y
  BY <1>3, PlaceTrip DEF X, Y
<1>5. -Signed(m.w[2]) = e.delta_x
  <2>1. -e.delta_x \in Short
    BY DEF Short
  <2>2. Signed(Low(-e.delta_x)) = -e.delta_x
    BY <2>1, SignedLow
  <2>3. Signed(m.w[2]) = -e.delta_x
    BY <1>3, <2>2
  <2>4. e.delta_x \in Int
    BY DEF Short
  <2> QED
    BY <2>3, <2>4
<1>6. m.hwnd = e.window /\ m.message = "WM_MOUSEHWHEEL"
  BY <1>3
<1> HIDE DEF m
<1>7. fromNative(t, m) = MouseWheelFrom(m)
  BY <1>2 DEF fromNative, Plain
<1>8. MouseWheelFrom(m) = [type |-> "MouseWheel", window |-> e.window,
                           delta_x |-> e.delta_x, delta_y |-> 0, x |-> e.x, y |-> e.y]
  BY <1>4, <1>5, <1>6 DEF MouseWheelFrom
<1>9. MouseWheelFrom(m) = [e EXCEPT !.delta_y = 0]
  BY <1>8
<1> QED
  BY <1>1, <1>2, <1>7, <1>9 DEF ComesOutAs, m

\* The keys whose enumerator is the virtual-key code of another key are the
\* crossed ones; a key that is held stays held, whatever the buffer held.
LEMMA KeyTrip ==
    ASSUME NEW k \in Word, k \notin Crossed
    PROVE  KeyFrom(<<k, 0>>) = k
BY DEF KeyFrom, Crossed, VK_ADD, VK_SUBTRACT, VK_MULTIPLY, VK_DIVIDE, VK_SHIFT, VK_CONTROL,
       VK_MENU, NumpadAdd, NumpadSubtract, NumpadMultiply, NumpadDivide, NumpadEnter,
       LShift, LControl, LAlt

LEMMA RepeatBit ==
    ASSUME NEW n \in Word, (n \div 16384) % 2 # 1
    PROVE  ((n + 16384) \div 16384) % 2 = 1
<1>1. n \in Int /\ 0 <= n /\ n < 65536
  BY DEF Word
<1>2. n \div 16384 \in 0..3
  BY <1>1
<1>3. (n + 16384) \div 16384 = (n \div 16384) + 1
  BY <1>1
<1> QED
  BY <1>2, <1>3

LEMMA PressTrip ==
    ASSUME NEW e \in [type : {"KeyPress"}, window : {Window}, key_code : Word,
                      is_repeat : BOOLEAN],
           NEW junk \in Junk, NEW t \in Types,
           toNative(e, junk).message \in nativeMsg[t]
    PROVE  t = e.type /\ ComesOutAs(e, fromNative(t, toNative(e, junk)))
<1>1. toNative(e, junk) = KeyPressTo(e, junk)
  BY DEF toNative, Plain
<1>2. t = e.type
  BY <1>1 DEF KeyPressTo, Message, Plain, nativeMsg, Types, Mice, KeyStrokes
<1> DEFINE m == KeyPressTo(e, junk)
<1>3. m.hwnd = e.window /\ m.w = <<e.key_code, 0>>
  BY DEF KeyPressTo, Message
<1>4. e.is_repeat => (m.l[2] \div 16384) % 2 = 1
  <2>1. junk.l[2] \in Word
    BY LoopAssumption
  <2>2. CASE (junk.l[2] \div 16384) % 2 = 1
    BY <2>2 DEF KeyPressTo, Message
  <2>3. CASE (junk.l[2] \div 16384) % 2 # 1 /\ e.is_repeat
    <3>1. m.l[2] = junk.l[2] + 16384
      BY <2>3 DEF KeyPressTo, Message
    <3> QED
      BY <2>1, <2>3, <3>1, RepeatBit
  <2> QED
    BY <2>2, <2>3
<1>5. fromNative(t, toNative(e, junk)) = KeyPressFrom(m)
  BY <1>1, <1>2 DEF fromNative, Plain
<1> HIDE DEF m
<1> DEFINE f == KeyPressFrom(m)
<1>6. f.type = "KeyPress" /\ f.window = e.window
  BY <1>3 DEF KeyPressFrom
<1>7. f.key_code = KeyFrom(<<e.key_code, 0>>)
  BY <1>3 DEF KeyPressFrom
<1>8. e.is_repeat => f.is_repeat
  BY <1>4 DEF KeyPressFrom
<1> HIDE DEF f
<1> QED
  BY <1>2, <1>5, <1>6, <1>7, <1>8, KeyTrip DEF ComesOutAs, f

LEMMA ReleaseTrip ==
    ASSUME NEW e \in [type : {"KeyRelease"}, window : {Window}, key_code : Word],
           NEW junk \in Junk, NEW t \in Types,
           toNative(e, junk).message \in nativeMsg[t]
    PROVE  t = e.type /\ ComesOutAs(e, fromNative(t, toNative(e, junk)))
<1>1. toNative(e, junk) = KeyReleaseTo(e, junk)
  BY DEF toNative, Plain
<1>2. t = e.type
  BY <1>1 DEF KeyReleaseTo, Message, Plain, nativeMsg, Types, Mice, KeyStrokes
<1> DEFINE m == KeyReleaseTo(e, junk)
<1>3. m.hwnd = e.window /\ m.w = <<e.key_code, 0>>
  BY DEF KeyReleaseTo, Message
<1>4. fromNative(t, toNative(e, junk)) = KeyReleaseFrom(m)
  BY <1>1, <1>2 DEF fromNative, Plain
<1> HIDE DEF m
<1> DEFINE f == KeyReleaseFrom(m)
<1>5. f.type = "KeyRelease" /\ f.window = e.window
  BY <1>3 DEF KeyReleaseFrom
<1>6. f.key_code = KeyFrom(<<e.key_code, 0>>)
  BY <1>3 DEF KeyReleaseFrom
<1> HIDE DEF f
<1> QED
  BY <1>2, <1>4, <1>5, <1>6, KeyTrip DEF ComesOutAs, f

LEMMA CharTrip ==
    ASSUME NEW e \in [type : {"KeyChar"}, window : {Window}, character : Word \X Word],
           NEW junk \in Junk, NEW t \in Types,
           toNative(e, junk).message \in nativeMsg[t]
    PROVE  t = e.type /\ ComesOutAs(e, fromNative(t, toNative(e, junk)))
<1>1. toNative(e, junk) = KeyCharTo(e, junk)
  BY DEF toNative, Plain
<1>2. t = e.type
  BY <1>1 DEF KeyCharTo, Message, Plain, nativeMsg, Types, Mice, KeyStrokes
<1>3. fromNative(t, toNative(e, junk)) = e
  BY <1>1, <1>2 DEF fromNative, KeyCharFrom, KeyCharTo, Message, Plain
<1> QED
  BY <1>2, <1>3 DEF ComesOutAs

\* An event that fits a message, sent through a buffer that holds anything, is
\* dispatched as its own type if it is dispatched at all, and comes out as it was
\* but for what ComesOutAs excepts.
THEOREM RoundTrip ==
    ASSUME NEW e \in Sendable({Window}), NEW junk \in Junk, NEW t \in Types,
           toNative(e, junk).message \in nativeMsg[t]
    PROVE  t = e.type /\ ComesOutAs(e, fromNative(t, toNative(e, junk)))
BY PlainTrip, ResizeTrip, MoveTrip, ButtonTrip, WheelTrip, PressTrip, ReleaseTrip, CharTrip
   DEF Sendable

-----------------------------------------------------------------------------
(* The loop.  What is under way is a message that somebody sent, with the      *)
(* event that its type makes of it; the application's handler of Close is in  *)
(* place as long as there is a window; and the default of a WM_CLOSE waits for *)
(* a yes that has told the loop to quit.                                       *)

Mail == {[msg |-> toNative(e, junk), of |-> e] : e \in Events, junk \in Junk}

Sent == Mail \cup {[msg |-> msg, of |-> NoEvent] : msg \in Inputs}

Outcomes == {fromNative(t, m.msg) : t \in Types, m \in Sent}

Frame == [m : Sent, type : Types, event : Outcomes,
          at : {"handler", "box", "listeners"}, k : Nat, n : Nat, ret : BOOLEAN]

Scheduler == [listeners : Seq({"user", "press"}), handler : {"none", "user", "ask"}]

SchedulersInv == /\ DOMAIN schedulers \subseteq Types
                 /\ schedulers \in [DOMAIN schedulers -> Scheduler]

TypeInv == queue \in Seq(Mail) /\ frames \in Seq(Frame) /\ SchedulersInv

\* The event of a dispatch is made from its message by the converter of its type.
Made(f) == /\ f.m.msg.message \in nativeMsg[f.type]
           /\ f.event = fromNative(f.type, f.m.msg)

MadeInv == \A i \in 1..Len(frames) : Made(frames[i]) /\ frames[i].type \in DOMAIN schedulers

AskInv == window # "none" => "Close" \in DOMAIN schedulers /\ schedulers["Close"].handler = "ask"

NoneInv == /\ run = "start" => window = "none"
           /\ window = "none" => queue = <<>> /\ frames = <<>>

\* A dispatch of Close that will let the window go has had its yes.
Agreed(f) == f.type = "Close" /\ f.at = "listeners" /\ f.ret

RetInv == \A i \in 1..Len(frames) : Agreed(frames[i]) => quit \/ run = "ended"

GoneInv == window = "gone" => queue = <<>> /\ (quit \/ run = "ended")

Inv == TypeInv /\ MadeInv /\ AskInv /\ NoneInv /\ RetInv /\ GoneInv

-----------------------------------------------------------------------------
(* The stack of dispatches *)

LEMMA InnerShape ==
    ASSUME frames \in Seq(Frame), frames # <<>>, NEW f \in Frame
    PROVE  /\ Len(frames) \in Nat \ {0} /\ Top \in Frame
           /\ Inner(f) \in Seq(Frame) /\ Len(Inner(f)) = Len(frames)
           /\ \A i \in 1..Len(frames) : Inner(f)[i] = IF i = Len(frames) THEN f ELSE frames[i]
BY DEF Inner, Top

Reaching(f, ret, n) == [f EXCEPT !.at = "listeners", !.ret = ret, !.n = n]

LEMMA ReachingShape ==
    ASSUME NEW f \in Frame, NEW ret \in BOOLEAN, NEW n \in Nat
    PROVE  /\ Reaching(f, ret, n) \in Frame
           /\ Reaching(f, ret, n).m = f.m /\ Reaching(f, ret, n).type = f.type
           /\ Reaching(f, ret, n).event = f.event /\ Reaching(f, ret, n).ret = ret
<1> DEFINE g == Reaching(f, ret, n)
<1>1. f = [m |-> f.m, type |-> f.type, event |-> f.event, at |-> f.at, k |-> f.k,
           n |-> f.n, ret |-> f.ret]
  BY DEF Frame
<1>2. g = [m |-> f.m, type |-> f.type, event |-> f.event, at |-> "listeners", k |-> f.k,
           n |-> n, ret |-> ret]
  <2>1. g = [f EXCEPT !.at = "listeners", !.ret = ret, !.n = n]
    BY DEF Reaching
  <2> HIDE DEF g
  <2> QED
    BY <1>1, <2>1
<1>3. /\ f.m \in Sent /\ f.type \in Types /\ f.event \in Outcomes /\ f.k \in Nat
  BY DEF Frame
<1> HIDE DEF g
<1>4. /\ g \in Frame /\ g.m = f.m /\ g.type = f.type /\ g.event = f.event
      /\ g.ret = ret
  BY ONLY <1>2, <1>3, ret \in BOOLEAN, n \in Nat DEF Frame
<1> QED
  BY <1>4 DEF g

LEMMA TopShape ==
    ASSUME frames \in Seq(Frame), frames # <<>>
    PROVE  /\ Len(frames) \in Nat \ {0} /\ Len(frames) \in 1..Len(frames)
           /\ Top = frames[Len(frames)] /\ Top \in Frame
BY DEF Top

LEMMA ReturnShape ==
    ASSUME frames \in Seq(Frame), frames # <<>>
    PROVE  LET s == SubSeq(frames, 1, Len(frames) - 1) IN
           /\ s \in Seq(Frame) /\ Len(s) = Len(frames) - 1
           /\ \A i \in 1..Len(s) : s[i] = frames[i] /\ i \in 1..Len(frames)
<1> DEFINE n == Len(frames) - 1
<1>1. Len(frames) \in Nat \ {0}
  OBVIOUS
<1>2. n \in Nat /\ n < Len(frames) /\ 1..n \subseteq 1..Len(frames)
  BY <1>1
<1>3. \A i \in 1..n : frames[i] \in Frame
  BY <1>2
<1>4. SubSeq(frames, 1, n) = [i \in 1..n |-> frames[i]]
  BY <1>2
<1> HIDE DEF n
<1>5. /\ SubSeq(frames, 1, n) \in Seq(Frame) /\ Len(SubSeq(frames, 1, n)) = n
      /\ \A i \in 1..n : SubSeq(frames, 1, n)[i] = frames[i]
  BY <1>2, <1>3, <1>4
<1> QED
  BY <1>2, <1>5 DEF n

LEMMA CloseOnly == ASSUME NEW t \in Types, "WM_CLOSE" \in nativeMsg[t]
                   PROVE  t = "Close"
BY DEF nativeMsg, Types, Plain, Mice, KeyStrokes

LEMMA CloseHandled == "Close" \in Types /\ "WM_CLOSE" \in nativeMsg["Close"]
BY DEF nativeMsg, Types, Plain

-----------------------------------------------------------------------------
(* What calls do to the queue and to the schedulers *)

LEMMA PostKeeps ==
    ASSUME TypeInv, NEW e \in Events, Post(e)
    PROVE  queue' \in Seq(Mail) /\ window = "shown" /\ Len(queue') > Len(queue)
<1>1. PICK junk \in Junk : queue' = Append(queue, [msg |-> toNative(e, junk), of |-> e])
  BY DEF Post
<1>2. [msg |-> toNative(e, junk), of |-> e] \in Mail
  BY DEF Mail
<1> QED
  BY <1>1, <1>2 DEF Post, TypeInv

\* Types lose neither their scheduler nor, for Close, their handler.
SchedulersKept == /\ SchedulersInv'
                  /\ DOMAIN schedulers \subseteq DOMAIN schedulers'
                  /\ "Close" \in DOMAIN schedulers =>
                         schedulers'["Close"].handler = schedulers["Close"].handler

LEMMA ReplaceKeeps ==
    ASSUME SchedulersInv, NEW t \in DOMAIN schedulers, NEW s \in Scheduler,
           schedulers' = [schedulers EXCEPT ![t] = s],
           t = "Close" => s.handler = schedulers[t].handler
    PROVE  SchedulersKept
<1>1. DOMAIN schedulers' = DOMAIN schedulers
  BY DEF SchedulersInv
<1>2. \A u \in DOMAIN schedulers : schedulers'[u] = IF u = t THEN s ELSE schedulers[u]
  BY DEF SchedulersInv
<1>3. schedulers' \in [DOMAIN schedulers -> Scheduler]
  BY DEF SchedulersInv
<1> QED
  BY <1>1, <1>2, <1>3 DEF SchedulersInv, SchedulersKept

LEMMA AddKeeps ==
    ASSUME SchedulersInv, NEW t \in Types \ DOMAIN schedulers, NEW s \in Scheduler,
           schedulers' = [u \in DOMAIN schedulers \cup {t} |->
                             IF u = t THEN s ELSE schedulers[u]]
    PROVE  SchedulersKept
<1>1. DOMAIN schedulers' = DOMAIN schedulers \cup {t}
  OBVIOUS
<1>2. \A u \in DOMAIN schedulers : schedulers'[u] = schedulers[u]
  OBVIOUS
<1>3. \A u \in DOMAIN schedulers' : schedulers'[u] \in Scheduler
  BY DEF SchedulersInv
<1>4. schedulers' \in [DOMAIN schedulers' -> Scheduler]
  BY <1>3
<1> QED
  BY <1>1, <1>2, <1>4 DEF SchedulersInv, SchedulersKept

LEMMA OnKeeps ==
    ASSUME TypeInv, NEW t \in UserTypes, On(t)
    PROVE  SchedulersKept
<1>1. CASE t \in DOMAIN schedulers
  <2> DEFINE s == [schedulers[t] EXCEPT !.listeners = Append(schedulers[t].listeners, "user")]
  <2>1. schedulers[t] \in Scheduler
    BY <1>1 DEF TypeInv, SchedulersInv
  <2>2. s \in Scheduler /\ s.handler = schedulers[t].handler
    BY <2>1 DEF Scheduler
  <2>3. schedulers' = [schedulers EXCEPT ![t] = s]
    BY <1>1 DEF On
  <2> HIDE DEF s
  <2> QED
    BY <1>1, <2>2, <2>3, ReplaceKeeps DEF TypeInv
<1>2. CASE t \notin DOMAIN schedulers
  <2> DEFINE s == [listeners |-> <<"user">>, handler |-> "none"]
  <2>1. s \in Scheduler
    BY DEF Scheduler
  <2>2. schedulers' = [u \in DOMAIN schedulers \cup {t} |-> IF u = t THEN s ELSE schedulers[u]]
    BY <1>2 DEF On
  <2>3. t \in Types \ DOMAIN schedulers
    BY <1>2, LoopAssumption
  <2> HIDE DEF s
  <2> QED
    BY <2>1, <2>2, <2>3, AddKeeps DEF TypeInv
<1> QED
  BY <1>1, <1>2

LEMMA SetHandlerKeeps ==
    ASSUME TypeInv, NEW t \in UserTypes, SetHandler(t)
    PROVE  SchedulersKept
<1>1. CASE t \in DOMAIN schedulers
  <2> DEFINE s == [schedulers[t] EXCEPT !.handler = "user"]
  <2>1. schedulers[t] \in Scheduler
    BY <1>1 DEF TypeInv, SchedulersInv
  <2>2. s \in Scheduler
    BY <2>1 DEF Scheduler
  <2>3. schedulers' = [schedulers EXCEPT ![t] = s]
    BY <1>1 DEF SetHandler
  <2>4. t # "Close"
    BY LoopAssumption
  <2> HIDE DEF s
  <2> QED
    BY <1>1, <2>2, <2>3, <2>4, ReplaceKeeps DEF TypeInv
<1>2. CASE t \notin DOMAIN schedulers
  <2> DEFINE s == [listeners |-> <<>>, handler |-> "user"]
  <2>1. s \in Scheduler
    BY DEF Scheduler
  <2>2. schedulers' = [u \in DOMAIN schedulers \cup {t} |-> IF u = t THEN s ELSE schedulers[u]]
    BY <1>2 DEF SetHandler
  <2>3. t \in Types \ DOMAIN schedulers
    BY <1>2, LoopAssumption
  <2> HIDE DEF s
  <2> QED
    BY <2>1, <2>2, <2>3, AddKeeps DEF TypeInv
<1> QED
  BY <1>1, <1>2

LEMMA SameKeeps == ASSUME SchedulersInv, schedulers' = schedulers
                   PROVE  SchedulersKept
BY DEF SchedulersInv, SchedulersKept

\* What a callback may leave of the queue and the schedulers.
LEMMA ActKeeps ==
    ASSUME TypeInv, NEW left, Act(left)
    PROVE  /\ queue' \in Seq(Mail) /\ (queue' = queue \/ window = "shown")
           /\ queue' = queue \/ Len(queue') > Len(queue)
           /\ SchedulersKept /\ (quit => quit')
<1>0. quit => quit'
  BY DEF Act, PostQuit
<1>1. CASE UNCHANGED <<queue, schedulers>>
  BY <1>0, <1>1, SameKeeps DEF TypeInv
<1>2. CASE (\E e \in Events : Post(e)) /\ UNCHANGED schedulers
  BY <1>0, <1>2, PostKeeps, SameKeeps DEF TypeInv
<1>3. CASE (\E t \in UserTypes : On(t) \/ SetHandler(t)) /\ UNCHANGED queue
  BY <1>0, <1>3, OnKeeps, SetHandlerKeeps DEF TypeInv
<1> QED
  BY <1>1, <1>2, <1>3 DEF Act

-----------------------------------------------------------------------------
(* The steps *)

\* A message that arrives opens a dispatch, or meets a default that leaves the
\* window alone: WM_CLOSE has its scheduler.
LEMMA WindowProcKeeps ==
    ASSUME Inv, NEW m \in Sent, NEW rest \in Seq(Mail), WindowProc(m, rest),
           window \notin {"none", "gone"}, UNCHANGED <<quit, schedulers>>,
           run' # "start", run = "ended" => run' = "ended"
    PROVE  Inv'
<1> DEFINE found == {t \in DOMAIN schedulers : m.msg.message \in nativeMsg[t]}
<1>1. CASE found = {}
  <2>1. m.msg.message # "WM_CLOSE"
    BY <1>1, CloseHandled DEF Inv, AskInv
  <2>2. window' = window /\ queue' = rest /\ frames' = frames
    BY <1>1, <2>1 DEF WindowProc, Default
  <2> QED
    BY <2>2 DEF Inv, TypeInv, SchedulersInv, MadeInv, AskInv, NoneInv, RetInv, GoneInv
<1>2. CASE found # {}
  <2> DEFINE f(t) == [m |-> m, type |-> t, event |-> fromNative(t, m.msg), at |-> "handler",
                      k |-> 0, n |-> 0, ret |-> TRUE]
  <2>1. PICK t \in found : frames' = Append(frames, f(t))
    BY <1>2 DEF WindowProc
  <2>2. queue' = rest /\ window' = window
    BY <1>2 DEF WindowProc
  <2>3. t \in DOMAIN schedulers /\ t \in Types /\ m.msg.message \in nativeMsg[t]
    BY DEF Inv, TypeInv, SchedulersInv
  <2>4. f(t) \in Frame /\ Made(f(t)) /\ ~Agreed(f(t)) /\ f(t).type = t
    BY <2>3 DEF Frame, Outcomes, Made, Agreed
  <2> HIDE DEF f
  <2>5. /\ frames' \in Seq(Frame) /\ Len(frames') = Len(frames) + 1
        /\ Len(frames) \in Nat
        /\ \A i \in 1..Len(frames') :
              frames'[i] = f(t) \/ (i \in 1..Len(frames) /\ frames'[i] = frames[i])
    BY <2>1, <2>4 DEF Inv, TypeInv
  <2>6. TypeInv'
    BY <2>2, <2>5 DEF Inv, TypeInv, SchedulersInv
  <2>7. MadeInv'
    BY <2>3, <2>4, <2>5 DEF Inv, MadeInv, Made
  <2>8. RetInv'
    BY <2>4, <2>5 DEF Inv, RetInv, Agreed
  <2>9. AskInv' /\ NoneInv' /\ GoneInv'
    BY <2>2 DEF Inv, AskInv, NoneInv, GoneInv
  <2> QED
    BY <2>6, <2>7, <2>8, <2>9 DEF Inv
<1> QED
  BY <1>1, <1>2

LEMMA PostedKeeps ==
    ASSUME Inv, Posted, UNCHANGED <<quit, schedulers>>,
           run' # "start", run = "ended" => run' = "ended"
    PROVE  Inv'
<1>1. Head(queue) \in Mail /\ Tail(queue) \in Seq(Mail) /\ queue # <<>>
  BY DEF Posted, Inv, TypeInv
<1>2. Head(queue) \in Sent /\ window \notin {"none", "gone"}
  BY <1>1 DEF Sent, Inv, NoneInv, GoneInv
<1> QED
  BY <1>1, <1>2, WindowProcKeeps DEF Posted

LEMMA TypedKeeps ==
    ASSUME Inv, Typed, UNCHANGED <<quit, schedulers>>,
           run' # "start", run = "ended" => run' = "ended"
    PROVE  Inv'
<1>1. PICK msg \in Inputs : WindowProc([msg |-> msg, of |-> NoEvent], <<>>)
  BY DEF Typed
<1>2. [msg |-> msg, of |-> NoEvent] \in Sent /\ <<>> \in Seq(Mail)
  BY DEF Sent
<1>3. window \notin {"none", "gone"}
  BY DEF Typed
<1> QED
  BY <1>1, <1>2, <1>3, WindowProcKeeps

\* The innermost dispatch moves on.
LEMMA TopKeeps ==
    ASSUME Inv, frames # <<>>, NEW g \in Frame, frames' = Inner(g),
           g.m = Top.m, g.type = Top.type, g.event = Top.event,
           SchedulersKept, queue' \in Seq(Mail), queue' = queue \/ window = "shown",
           window' = window, run' = run,
           quit => quit', Agreed(g) => quit' \/ run = "ended"
    PROVE  Inv'
<1>1. frames \in Seq(Frame)
  BY DEF Inv, TypeInv
<1>2. /\ frames' \in Seq(Frame) /\ Len(frames') = Len(frames)
      /\ \A i \in 1..Len(frames) : frames'[i] = IF i = Len(frames) THEN g ELSE frames[i]
  BY <1>1, InnerShape
<1>3. Len(frames) \in 1..Len(frames) /\ Top = frames[Len(frames)]
  BY <1>1, TopShape
<1>4. Made(g) /\ g.type \in DOMAIN schedulers
  BY <1>3 DEF Inv, MadeInv, Made
<1>5. TypeInv'
  BY <1>2 DEF SchedulersKept, TypeInv
<1>6. MadeInv'
  BY <1>2, <1>4 DEF Inv, MadeInv, Made, SchedulersKept
<1>7. RetInv'
  BY <1>2 DEF Inv, RetInv, Agreed
<1>8. window # "none" /\ run # "start"
  BY DEF Inv, NoneInv
<1>9. AskInv' /\ NoneInv' /\ GoneInv'
  BY <1>8 DEF Inv, AskInv, NoneInv, GoneInv, SchedulersKept
<1> QED
  BY <1>5, <1>6, <1>7, <1>9 DEF Inv

LEMMA HandleKeeps == ASSUME Inv, Handle PROVE Inv'
<1>0. /\ frames \in Seq(Frame) /\ frames # <<>> /\ UNCHANGED <<window, run>>
      /\ TypeInv /\ SchedulersInv /\ queue \in Seq(Mail)
  BY DEF Handle, Inv, TypeInv
<1>1. /\ Top \in Frame /\ Top.type \in DOMAIN schedulers
      /\ schedulers[Top.type] \in Scheduler
  BY <1>0, TopShape DEF Inv, MadeInv, SchedulersInv
<1>2. Top.type = "Close" => schedulers[Top.type].handler = "ask"
  BY <1>0 DEF Inv, AskInv, NoneInv
<1>3. ASSUME NEW ret \in BOOLEAN, NEW n \in Nat, frames' = ToListeners(ret, n),
             Top.type # "Close", SchedulersKept, queue' \in Seq(Mail),
             queue' = queue \/ window = "shown", quit => quit'
      PROVE  Inv'
  <2> DEFINE g == Reaching(Top, ret, n)
  <2>0. g = Reaching(Top, ret, n)
    OBVIOUS
  <2>2. frames' = Inner(g)
    BY <1>3 DEF ToListeners, Reaching
  <2> HIDE DEF g
  <2>1. g \in Frame /\ g.m = Top.m /\ g.type = Top.type /\ g.event = Top.event
    BY <1>1, <2>0, ReachingShape
  <2>3. ~Agreed(g)
    BY <1>3, <2>1 DEF Agreed
  <2> QED
    BY <1>0, <1>3, <2>1, <2>2, <2>3, TopKeeps
<1>4. CASE /\ schedulers[Top.type].handler = "none"
           /\ frames' = ToListeners(TRUE, Len(schedulers[Top.type].listeners))
           /\ UNCHANGED <<queue, quit, tasks, schedulers, broken, calls>>
  <2>1. Len(schedulers[Top.type].listeners) \in Nat
    BY <1>1 DEF Scheduler
  <2> QED
    BY <1>0, <1>2, <1>3, <1>4, <2>1, SameKeeps
<1>5. CASE /\ schedulers[Top.type].handler = "user" /\ Act(tasks)
           /\ \E ret \in BOOLEAN :
                frames' = ToListeners(ret, Len(schedulers'[Top.type].listeners))
  <2>1. SchedulersKept /\ queue' \in Seq(Mail) /\ (queue' = queue \/ window = "shown")
        /\ (quit => quit')
    BY <1>0, <1>5, ActKeeps
  <2>2. schedulers'[Top.type] \in Scheduler
    BY <1>1, <2>1 DEF SchedulersKept, SchedulersInv
  <2>3. Len(schedulers'[Top.type].listeners) \in Nat
    BY <2>2 DEF Scheduler
  <2>4. Top.type # "Close"
    BY <1>2, <1>5
  <2> QED
    BY <1>3, <1>5, <2>1, <2>3, <2>4
<1>6. CASE /\ schedulers[Top.type].handler = "ask"
           /\ frames' = Inner([Top EXCEPT !.at = "box"])
           /\ UNCHANGED <<queue, quit, tasks, schedulers, broken, calls>>
  <2> DEFINE g == [Top EXCEPT !.at = "box"]
  <2>0. g \in Frame
    BY <1>1 DEF Frame
  <2>1. g \in Frame /\ g.m = Top.m /\ g.type = Top.type /\ g.event = Top.event /\ g.at = "box"
    BY <1>1, <2>0 DEF Frame
  <2>2. frames' = Inner(g)
    BY <1>6
  <2> HIDE DEF g
  <2>3. ~Agreed(g)
    BY <2>1 DEF Agreed
  <2> QED
    BY <1>0, <1>6, <2>1, <2>2, <2>3, TopKeeps, SameKeeps
<1> QED
  BY <1>4, <1>5, <1>6 DEF Handle

LEMMA ListenKeeps == ASSUME Inv, Listen PROVE Inv'
<1>0. /\ frames \in Seq(Frame) /\ frames # <<>> /\ UNCHANGED <<window, run>>
      /\ TypeInv /\ SchedulersInv /\ queue \in Seq(Mail) /\ Top.at = "listeners"
  BY DEF Listen, Inv, TypeInv
<1>1. Top \in Frame /\ (Agreed(Top) => quit \/ run = "ended")
  BY <1>0, TopShape DEF Inv, RetInv
<1>2. SchedulersKept /\ queue' \in Seq(Mail) /\ (queue' = queue \/ window = "shown")
      /\ (quit => quit')
  BY <1>0, ActKeeps, SameKeeps DEF Listen
<1> DEFINE g == [Top EXCEPT !.k = Top.k + 1]
<1>3. g \in Frame /\ g.m = Top.m /\ g.type = Top.type /\ g.event = Top.event
      /\ g.at = Top.at /\ g.ret = Top.ret
  BY <1>1 DEF Frame
<1>4. frames' = Inner(g)
  BY DEF Listen
<1> HIDE DEF g
<1>5. Agreed(g) => quit' \/ run = "ended"
  BY <1>0, <1>1, <1>2, <1>3 DEF Agreed
<1> QED
  BY <1>0, <1>2, <1>3, <1>4, <1>5, TopKeeps

LEMMA AnsweredKeeps == ASSUME Inv, InBox, NEW yes \in BOOLEAN, Answered(yes) PROVE Inv'
<1>0. /\ frames \in Seq(Frame) /\ frames # <<>> /\ UNCHANGED <<queue, window, schedulers, run>>
      /\ SchedulersInv /\ queue \in Seq(Mail) /\ quit' = (quit \/ yes)
  BY DEF InBox, Answered, Inv, TypeInv
<1>1. /\ Top \in Frame /\ Top.type \in DOMAIN schedulers
      /\ schedulers[Top.type] \in Scheduler
  BY <1>0, TopShape DEF Inv, MadeInv, SchedulersInv
<1>2. Len(schedulers[Top.type].listeners) \in Nat
  BY <1>1 DEF Scheduler
<1> DEFINE g == Reaching(Top, yes, Len(schedulers[Top.type].listeners))
<1>3. g = Reaching(Top, yes, Len(schedulers[Top.type].listeners))
  OBVIOUS
<1>4. frames' = Inner(g)
  BY DEF Answered, ToListeners, Reaching
<1> HIDE DEF g
<1>6. /\ g \in Frame /\ g.m = Top.m /\ g.type = Top.type /\ g.event = Top.event
      /\ g.ret = yes
  BY <1>1, <1>2, <1>3, ReachingShape
<1>5. Agreed(g) => quit'
  BY <1>0, <1>6 DEF Agreed
<1> QED
  BY <1>0, <1>4, <1>5, <1>6, TopKeeps, SameKeeps

\* The end of a dispatch: the window goes only after a yes.
LEMMA ReturnKeeps == ASSUME Inv, Return PROVE Inv'
<1>0. /\ frames \in Seq(Frame) /\ frames # <<>> /\ Top.at = "listeners"
      /\ frames' = SubSeq(frames, 1, Len(frames) - 1) /\ queue \in Seq(Mail)
      /\ UNCHANGED <<quit, schedulers, run>>
  BY DEF Return, Inv, TypeInv
<1>1. Top \in Frame /\ Made(Top) /\ (Agreed(Top) => quit \/ run = "ended")
  BY <1>0, TopShape DEF Inv, RetInv, MadeInv
<1>2. /\ frames' \in Seq(Frame)
      /\ \A i \in 1..Len(frames') : frames'[i] = frames[i] /\ i \in 1..Len(frames)
  BY <1>0, ReturnShape
<1>3. window # "none" /\ run # "start"
  BY <1>0 DEF Inv, NoneInv
<1>4. \/ window' = window /\ queue' = queue
      \/ Top.ret /\ Top.m.msg.message = "WM_CLOSE" /\ window' = "gone" /\ queue' = <<>>
  BY DEF Return, Default
<1>5. window' = "gone" => queue' = <<>> /\ (quit \/ run = "ended")
  <2>1. CASE window' = window
    BY <1>4, <2>1 DEF Inv, GoneInv
  <2>2. CASE Top.ret /\ Top.m.msg.message = "WM_CLOSE"
    <3>1. Top.type \in Types
      BY <1>1 DEF Frame
    <3>2. Top.type = "Close"
      BY <1>1, <2>2, <3>1, CloseOnly DEF Made
    <3> QED
      BY <1>0, <1>1, <1>4, <2>2, <3>2 DEF Agreed, Inv, GoneInv
  <2> QED
    BY <1>4, <2>1, <2>2
<1>6. queue' \in Seq(Mail) /\ window' # "none"
  <2>1. <<>> \in Seq(Mail)
    OBVIOUS
  <2> QED
    BY <1>0, <1>3, <1>4, <2>1
<1>7. TypeInv'
  BY <1>0, <1>2, <1>6 DEF Inv, TypeInv, SchedulersInv
<1>8. MadeInv'
  BY <1>0, <1>2 DEF Inv, MadeInv, Made
<1>9. RetInv'
  BY <1>0, <1>2 DEF Inv, RetInv, Agreed
<1>10. AskInv' /\ NoneInv' /\ GoneInv'
  BY <1>0, <1>3, <1>5, <1>6 DEF Inv, AskInv, NoneInv, GoneInv
<1> QED
  BY <1>7, <1>8, <1>9, <1>10 DEF Inv

\* Steps that no dispatch is part of.
LEMMA QuietKeeps ==
    ASSUME Inv, frames' = frames, window' = window, queue' \in Seq(Mail),
           queue' = queue \/ window = "shown", SchedulersKept,
           run' = "start" => run = "start", quit => quit' \/ run' = "ended",
           run = "ended" => run' = "ended"
    PROVE  Inv'
<1>1. TypeInv'
  BY DEF Inv, TypeInv, SchedulersKept
<1>2. MadeInv'
  BY DEF Inv, MadeInv, Made, SchedulersKept
<1>3. RetInv' /\ GoneInv'
  BY DEF Inv, RetInv, Agreed, GoneInv
<1>4. AskInv' /\ NoneInv'
  BY DEF Inv, AskInv, NoneInv, SchedulersKept
<1> QED
  BY <1>1, <1>2, <1>3, <1>4 DEF Inv

LEMMA StartKeeps == ASSUME Inv, Start PROVE Inv'
<1>1. /\ window = "none" /\ queue = <<>> /\ frames = <<>> /\ run' = "poll" /\ SchedulersInv
      /\ UNCHANGED <<queue, frames, quit>>
  BY DEF Start, Inv, NoneInv, TypeInv
<1>2. CASE window' = "shown" /\ schedulers' = RegisterEvent
  <2>1. /\ DOMAIN schedulers' = {"Close", "MousePress"}
        /\ schedulers'["Close"] = [listeners |-> <<>>, handler |-> "ask"]
        /\ schedulers'["MousePress"] = [listeners |-> <<"press">>, handler |-> "none"]
    BY <1>2 DEF RegisterEvent
  <2>2. schedulers'["Close"] \in Scheduler /\ schedulers'["MousePress"] \in Scheduler
    BY <2>1 DEF Scheduler
  <2>3. schedulers' \in [{"Close", "MousePress"} -> Scheduler]
    BY <1>2, <2>2 DEF RegisterEvent
  <2>4. SchedulersInv'
    BY <2>1, <2>3 DEF SchedulersInv, Types, Plain, Mice
  <2>5. frames' = <<>> /\ frames' \in Seq(Frame) /\ queue' = <<>> /\ queue' \in Seq(Mail)
        /\ Len(frames') = 0
    BY <1>1
  <2> QED
    BY <1>1, <1>2, <2>1, <2>4, <2>5
       DEF Inv, TypeInv, MadeInv, AskInv, NoneInv, RetInv, GoneInv
<1>3. CASE UNCHANGED <<window, schedulers>>
  <2>1. queue' \in Seq(Mail)
    BY <1>1
  <2> QED
    BY <1>1, <1>3, <2>1, QuietKeeps, SameKeeps DEF Start
<1> QED
  BY <1>2, <1>3 DEF Start

LEMMA OutsideKeeps == ASSUME Inv, Outside PROVE Inv'
<1>1. UNCHANGED <<quit, window, schedulers, frames, run>> /\ TypeInv /\ SchedulersInv
  BY DEF Outside, Inv, TypeInv
<1>2. queue' \in Seq(Mail) /\ (queue' = queue \/ window = "shown")
  BY <1>1, PostKeeps DEF Outside, TypeInv
<1> QED
  BY <1>1, <1>2, QuietKeeps, SameKeeps

LEMMA RunTaskKeeps == ASSUME Inv, RunTask PROVE Inv'
<1>1. UNCHANGED <<window, frames, run>> /\ TypeInv /\ SchedulersInv
  BY DEF RunTask, Inv, TypeInv
<1>2. SchedulersKept /\ queue' \in Seq(Mail) /\ (queue' = queue \/ window = "shown")
      /\ (quit => quit')
  BY <1>1, ActKeeps DEF RunTask
<1> QED
  BY <1>1, <1>2, QuietKeeps

LEMMA LoopStepKeeps == ASSUME Inv, LoopStep PROVE Inv'
<1>0. TypeInv /\ SchedulersInv /\ queue \in Seq(Mail)
  BY DEF Inv, TypeInv
<1>1. CASE Dismissed
  BY <1>1, AnsweredKeeps DEF Dismissed
<1>2. CASE BoxPumps
  <2>1. run # "start"
    BY <1>2 DEF BoxPumps, InBox, Inv, NoneInv
  <2> QED
    BY <1>2, <2>1, PostedKeeps DEF BoxPumps
<1>3. CASE PoolEvent
  <2>1. UNCHANGED <<quit, schedulers>> /\ run = "poll" /\ run' = "drain"
    BY <1>3 DEF PoolEvent
  <2>2. CASE Posted
    BY <2>1, <2>2, PostedKeeps
  <2>3. CASE Typed
    BY <2>1, <2>3, TypedKeeps
  <2>4. CASE UNCHANGED <<queue, window, frames, calls>>
    BY <1>0, <2>1, <2>4, QuietKeeps, SameKeeps
  <2> QED
    BY <1>3, <2>2, <2>3, <2>4 DEF PoolEvent
<1>4. CASE PoolQuit
  BY <1>0, <1>4, QuietKeeps, SameKeeps DEF PoolQuit
<1>5. CASE Drained
  BY <1>0, <1>5, QuietKeeps, SameKeeps DEF Drained
<1> QED
  BY <1>1, <1>2, <1>3, <1>4, <1>5, StartKeeps, ReturnKeeps, HandleKeeps, ListenKeeps,
     RunTaskKeeps DEF LoopStep

LEMMA LoopInit == Init => Inv
<1> SUFFICES ASSUME Init PROVE Inv
  OBVIOUS
<1>1. /\ queue = <<>> /\ frames = <<>> /\ schedulers = <<>> /\ window = "none"
      /\ run = "start"
  BY DEF Init
<1>2. queue \in Seq(Mail) /\ frames \in Seq(Frame) /\ Len(frames) = 0
  BY <1>1
<1>3. DOMAIN schedulers = {}
  BY <1>1
<1>4. SchedulersInv
  <2>1. schedulers \in Seq({})
    BY <1>1
  <2>2. schedulers = [t \in {} |-> schedulers[t]]
    BY <1>3, <2>1
  <2> QED
    BY <1>3, <2>2 DEF SchedulersInv
<1> QED
  BY <1>1, <1>2, <1>4 DEF Inv, TypeInv, MadeInv, AskInv, NoneInv, RetInv, GoneInv

LEMMA LoopInv == Spec => []Inv
<1>1. Inv /\ [Next]_vars => Inv'
  <2> SUFFICES ASSUME Inv, [Next]_vars PROVE Inv'
    OBVIOUS
  <2>1. CASE LoopStep
    BY <2>1, LoopStepKeeps
  <2>2. CASE Click
    BY <2>2, AnsweredKeeps DEF Click
  <2>3. CASE Outside
    BY <2>3, OutsideKeeps
  <2>4. CASE UNCHANGED vars
    BY <2>4 DEF vars, Inv, TypeInv, SchedulersInv, MadeInv, Made, AskInv, NoneInv, RetInv,
                Agreed, GoneInv
  <2> QED
    BY <2>1, <2>2, <2>3, <2>4 DEF Next
<1> QED
  BY LoopInit, <1>1, PTL DEF Spec

-----------------------------------------------------------------------------
(* The theorems *)

\* A message is taken from the queue by Posted, or goes with the window.
LEMMA TakenByPosted ==
    ASSUME Inv, [Next]_vars, Len(queue') < Len(queue), window' = window
    PROVE  Posted
<1>1. TypeInv /\ queue \in Seq(Mail) /\ queue' # queue /\ ~(Len(queue') > Len(queue))
      /\ queue # <<>>
  BY DEF Inv, TypeInv
<1>2. window # "gone"
  BY <1>1 DEF Inv, GoneInv
<1>3. CASE Return
  BY <1>1, <1>2, <1>3 DEF Return, Default
<1>4. CASE Handle \/ Listen \/ RunTask
  <2>1. UNCHANGED queue \/ \E left : Act(left)
    BY <1>4 DEF Handle, Listen, RunTask
  <2> QED
    BY <1>1, <2>1, ActKeeps
<1>5. CASE Outside
  BY <1>1, <1>5, PostKeeps DEF Outside
<1>6. CASE PoolEvent \/ BoxPumps
  BY <1>1, <1>6 DEF PoolEvent, BoxPumps, Typed
<1>7. CASE \/ Start \/ Dismissed \/ PoolQuit \/ Drained \/ Click \/ UNCHANGED vars
  BY <1>1, <1>7 DEF Start, Dismissed, Answered, PoolQuit, Drained, Click, vars
<1> QED
  BY <1>3, <1>4, <1>5, <1>6, <1>7 DEF Next, LoopStep

\* Every event but the upright wheel becomes a message of its type.
LEMMA HasMessage ==
    ASSUME NEW e \in Sendable({Window}), NEW junk \in Junk
    PROVE  IF Upright(e) THEN \A t \in Types : toNative(e, junk).message \notin nativeMsg[t]
           ELSE toNative(e, junk).message \in nativeMsg[e.type]
<1> USE DEF Plain, Upright, Message, nativeMsg
<1>1. CASE e \in [type : Plain, window : {Window}]
  BY <1>1 DEF toNative, PlainTo
<1>2. CASE e \in [type : {"Resize"}, window : {Window}, width : Word, height : Word]
  BY <1>2 DEF toNative, ResizeTo
<1>3. CASE e \in [type : {"Move", "MouseMove"}, window : {Window}, x : Short, y : Short]
  BY <1>3 DEF toNative, MoveTo, MouseMoveTo
<1>4. CASE e \in [type : {"MousePress", "MouseRelease"}, window : {Window},
                  button : Buttons, x : Short, y : Short]
  BY <1>4 DEF toNative, MousePressTo, MouseReleaseTo, Down, Up, Buttons
<1>5. CASE e \in [type : {"MouseWheel"}, window : {Window}, delta_x : Short \ {-32768},
                  delta_y : Short, x : Short, y : Short]
  <2>1. toNative(e, junk) = MouseWheelTo(e, junk) /\ e.type = "MouseWheel"
    BY <1>5 DEF toNative
  <2>2. toNative(e, junk).message = IF e.delta_x # 0 THEN "WM_MOUSEHWHEEL" ELSE "WM_MOUSEWHEEL"
    BY <2>1 DEF MouseWheelTo
  <2> QED
    BY <2>1, <2>2 DEF Types, Mice, KeyStrokes
<1>6. CASE e \in [type : {"KeyPress"}, window : {Window}, key_code : Word,
                  is_repeat : BOOLEAN]
  BY <1>6 DEF toNative, KeyPressTo
<1>7. CASE e \in [type : {"KeyRelease"}, window : {Window}, key_code : Word]
  BY <1>7 DEF toNative, KeyReleaseTo
<1>8. CASE e \in [type : {"KeyChar"}, window : {Window}, character : Word \X Word]
  BY <1>8 DEF toNative, KeyCharTo
<1> QED
  BY <1>1, <1>2, <1>3, <1>4, <1>5, <1>6, <1>7, <1>8 DEF Sendable

\* A posted event that is taken from the queue is dispatched to its own type, as the
\* event it was posted as but for what ComesOutAs allows, if that type has anybody and
\* it is no upright wheel; if not, nobody is called: event_converter.cpp against
\* dispatch, PoolEvent and the message box.
THEOREM LoopArrives == Spec => ArrivesAsPosted
<1>1. ASSUME Inv, [Next]_vars, Len(queue') < Len(queue), window' = window
      PROVE  LET e == Head(queue).of
             IN  IF e.type \in DOMAIN schedulers /\ ~Upright(e)
                 THEN Dispatches(e) ELSE UNCHANGED frames
  <2> DEFINE m == Head(queue)
             found == {t \in DOMAIN schedulers : m.msg.message \in nativeMsg[t]}
             f(t) == [m |-> m, type |-> t, event |-> fromNative(t, m.msg),
                      at |-> "handler", k |-> 0, n |-> 0, ret |-> TRUE]
  <2>1. queue # <<>> /\ WindowProc(m, Tail(queue))
    BY <1>1, TakenByPosted DEF Posted
  <2>2. m \in Mail /\ DOMAIN schedulers \subseteq Types /\ frames \in Seq(Frame)
    BY <1>1, <2>1 DEF Inv, TypeInv, SchedulersInv
  <2>3. /\ found = {} => UNCHANGED frames
        /\ found # {} => \E t \in found : frames' = Append(frames, f(t))
    BY <2>1 DEF WindowProc
  <2> HIDE DEF m
  <2>4. PICK e \in Events, junk \in Junk : m = [msg |-> toNative(e, junk), of |-> e]
    BY <2>2 DEF Mail
  <2>5. m.of = e /\ m.msg = toNative(e, junk) /\ e \in Sendable({Window})
    BY <2>4, LoopAssumption
  <2>6. \A t \in found : t \in Types /\ t = e.type /\ ComesOutAs(e, fromNative(t, m.msg))
    BY <2>2, <2>5, RoundTrip
  <2>7. CASE e.type \in DOMAIN schedulers /\ ~Upright(e)
    <3>1. e.type \in found
      BY <2>5, <2>7, HasMessage
    <3>2. PICK t \in found : frames' = Append(frames, f(t))
      BY <2>3, <3>1
    <3>3. f(t).type = e.type /\ f(t).at = "handler" /\ ComesOutAs(e, f(t).event)
      BY <2>6
    <3> HIDE DEF f
    <3>4. Len(frames') = Len(frames) + 1 /\ frames'[Len(frames')] = f(t)
      BY <2>2, <3>2
    <3> QED
      BY <2>5, <2>7, <3>3, <3>4 DEF Dispatches, m
  <2>8. CASE ~(e.type \in DOMAIN schedulers /\ ~Upright(e))
    <3>1. found = {}
      <4> SUFFICES ASSUME NEW t \in found PROVE FALSE
        OBVIOUS
      <4>1. t = e.type /\ t \in Types /\ toNative(e, junk).message \in nativeMsg[t]
        BY <2>5, <2>6
      <4> QED
        BY <2>5, <2>8, <4>1, HasMessage
    <3> QED
      BY <2>3, <2>5, <2>8, <3>1 DEF m
  <2> QED
    BY <2>7, <2>8
<1>2. Inv /\ [Next]_vars
        => [Len(queue') < Len(queue) /\ window' = window =>
               LET e == Head(queue).of
               IN  IF e.type \in DOMAIN schedulers /\ ~Upright(e)
                   THEN Dispatches(e) ELSE UNCHANGED frames]_vars
  BY <1>1
<1> QED
  BY LoopInv, <1>2, PTL DEF Spec, ArrivesAsPosted

\* No loop goes on for a window that is gone: it was told to quit, in whatever
\* box and however many were open (HandleMainWindowClose).
THEOREM LoopQuits == Spec => []WindowGoneMeansQuit
<1>1. Inv => WindowGoneMeansQuit
  BY DEF Inv, GoneInv, WindowGoneMeansQuit
<1> QED
  BY LoopInv, <1>1, PTL
=============================================================================
