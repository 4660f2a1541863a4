---------------------------- MODULE StartupProofs ----------------------------
(***************************************************************************)
(* The programs written in C and C++, for every command line: what the     *)
(* Windows runner promises, proved here, and what the Linux runner and the *)
(* C server promise, from the proofs of their own modules.                 *)
(***************************************************************************)
EXTENDS MCStartup, FiniteSetTheorems, SequenceTheorems, WellFoundedInduction, TLAPS

(***************************************************************************)
(* The stacks, by the step that is next.                                   *)
(***************************************************************************)
Then(step, stack) == <<step>> \o stack

DoUnregister(rest)    == Then("UnregisterIfLast", rest)
DoDestroyWindow(rest) == Then("DestroyWindow", DoUnregister(rest))
DoDestroy(rest)       == Then("OnDestroy", DoDestroyWindow(rest))

DoLoop           == <<"GetMessage">>
DoSetQuitOnClose == Then("SetQuitOnClose", DoLoop)
DoForceRedraw    == Then("ForceRedraw", DoSetQuitOnClose)
DoSetCallback    == Then("SetNextFrameCallback", DoForceRedraw)
DoSetChild       == Then("SetChildContent", DoSetCallback)
DoOnCreate       == Then("OnCreate", DoSetQuitOnClose)
DoUpdateTheme    == Then("UpdateTheme", DoOnCreate)
DoNcCreate       == Then("WM_NCCREATE", DoUpdateTheme)
DoGetMinMaxInfo  == Then("WM_GETMINMAXINFO", DoNcCreate)
DoCreateWindow   == Then("CreateWindow", DoUpdateTheme)
DoGetClass       == Then("GetWindowClass", DoCreateWindow)
DoConstruct      == Then("FlutterWindow", DoDestroy(DoGetClass))

DoNcDestroy(rest) == Then("WM_NCDESTROY", rest)
DoPostQuit(rest)  == Then("PostQuitMessage", DoNcDestroy(rest))
DoWmDestroy(rest) == Then("WM_DESTROY", DoNcDestroy(rest))

DoDeleted(rest)    == Then("Deleted", rest)
DoDeleteController(rest) == Then("DeleteController", DoDeleted(rest))

DoReturn         == <<"return">>
DoDestructBase   == Then("~Win32Window", DoReturn)
DoDestruct       == Then("~FlutterWindow", DoDestructBase)
DoForget         == Then("ForgetHandle", DoUnregister(DoReturn))

LoopMessages == {"WM_CLOSE", "WM_SIZE", "WM_DPICHANGED", "WM_ACTIVATE",
                 "WM_FONTCHANGE", "WM_DWMCOLORIZATIONCOLORCHANGED"}

(***************************************************************************)
(* The step that is next, and the stack below it.                          *)
(***************************************************************************)
On(step, stack, rest) ==
  /\ stack \in Seq(Steps) /\ rest \in Seq(Steps)
  /\ stack # << >> /\ Head(stack) = step /\ Tail(stack) = rest

At(step, rest) == First(step) /\ Tail(todo) = rest

(***************************************************************************)
(* What is there: the object, the window, Flutter's child window, the      *)
(* class, the program.                                                     *)
(***************************************************************************)
Object(is, handle, child, controller) ==
  /\ window.is = is
  /\ window.window_handle_ <=> handle
  /\ window.child_content_ <=> child
  /\ window.flutter_controller_ = controller

NoWindow   == hwnd.life = "none" /\ ~hwnd.that /\ hwnd.destroys = 0
Alive      == hwnd.life = "alive" /\ hwnd.that /\ hwnd.destroys = 0
Dying      == hwnd.life = "destroying" /\ hwnd.that /\ hwnd.destroys = 1
WindowGone == hwnd.life = "gone" /\ ~hwnd.that /\ hwnd.destroys = 1

NoChild == ~view.window /\ ~view.parent
Child   == view.window /\ view.parent

Class(count, registered, known) ==
  /\ registrar.count = count
  /\ registrar.class_registered_ <=> registered
  /\ registrar.known <=> known

(***************************************************************************)
(* wWinMain up to the loop.                                                *)
(***************************************************************************)
Starting ==
  /\ sys.exit = "running" /\ ~sys.quit
  /\ ~window.quit_on_close_ /\ ~window.deleting
  /\ \/ /\ \/ At("GetCommandLineArguments", << >>)
           \/ At("FlutterWindow", DoDestroy(DoGetClass)) /\ sys.com
        /\ Object("none", FALSE, FALSE, "null") /\ NoWindow /\ NoChild
        /\ Class(0, FALSE, FALSE)
     \/ /\ sys.com
        /\ \/ At("OnDestroy", DoDestroyWindow(DoGetClass))
           \/ At("DestroyWindow", DoUnregister(DoGetClass))
           \/ At("UnregisterIfLast", DoGetClass)
           \/ At("GetWindowClass", DoCreateWindow)
        /\ Object("FlutterWindow", FALSE, FALSE, "null") /\ NoWindow /\ NoChild
        /\ Class(1, FALSE, FALSE)
     \/ /\ sys.com /\ At("CreateWindow", DoUpdateTheme)
        /\ Object("FlutterWindow", FALSE, FALSE, "null") /\ NoWindow /\ NoChild
        /\ Class(1, TRUE, TRUE)
     \/ /\ sys.com /\ \/ At("WM_GETMINMAXINFO", DoNcCreate)
                      \/ At("WM_NCCREATE", DoUpdateTheme)
        /\ Object("FlutterWindow", FALSE, FALSE, "null") /\ NoChild
        /\ hwnd.life = "alive" /\ ~hwnd.that /\ hwnd.destroys = 0
        /\ Class(1, TRUE, TRUE)
     \/ /\ sys.com /\ \/ At("UpdateTheme", DoOnCreate)
                      \/ At("OnCreate", DoSetQuitOnClose)
        /\ Object("FlutterWindow", TRUE, FALSE, "null") /\ Alive /\ NoChild
        /\ Class(1, TRUE, TRUE)
     \/ /\ sys.com /\ At("SetChildContent", DoSetCallback)
        /\ Object("FlutterWindow", TRUE, FALSE, "ok") /\ Alive
        /\ view.window /\ ~view.parent
        /\ Class(1, TRUE, TRUE)
     \/ /\ sys.com /\ \/ At("SetNextFrameCallback", DoForceRedraw)
                      \/ At("ForceRedraw", DoSetQuitOnClose)
                      \/ At("SetQuitOnClose", DoLoop)
        /\ Object("FlutterWindow", TRUE, TRUE, "ok") /\ Alive /\ Child
        /\ Class(1, TRUE, TRUE)

(***************************************************************************)
(* The loop, and WM_DESTROY in it, from a window the user closes.          *)
(***************************************************************************)
Running ==
  /\ Object("FlutterWindow", TRUE, TRUE, "ok") /\ Child
  /\ ~window.deleting /\ ~sys.quit

Looping ==
  /\ sys.exit = "running" /\ sys.com
  /\ window.quit_on_close_
  /\ Class(1, TRUE, TRUE)
  /\ \/ /\ \/ At("GetMessage", << >>)
           \/ \E m \in LoopMessages \cup {"Show"} : At(m, DoLoop)
           \/ At("WM_ACTIVATE", Then("WM_SIZE", DoLoop))
        /\ Running /\ Alive
     \/ /\ \/ At("WM_ACTIVATE", DoWmDestroy(DoLoop))
           \/ At("WM_DESTROY", DoNcDestroy(DoLoop))
        /\ Running /\ Dying
     \/ /\ At("OnDestroy", DoDestroyWindow(DoPostQuit(DoLoop)))
        /\ Object("FlutterWindow", FALSE, TRUE, "ok") /\ Dying /\ Child
        /\ ~window.deleting /\ ~sys.quit
     \/ /\ At("DeleteController", DoDeleted(DoDestroyWindow(DoPostQuit(DoLoop))))
        /\ Object("FlutterWindow", FALSE, TRUE, "null") /\ Dying /\ Child
        /\ window.deleting /\ ~sys.quit
     \/ /\ \/ At("WM_PARENTNOTIFY", DoDeleted(DoDestroyWindow(DoPostQuit(DoLoop))))
           \/ At("Deleted", DoDestroyWindow(DoPostQuit(DoLoop)))
        /\ Object("FlutterWindow", FALSE, TRUE, "null") /\ Dying /\ NoChild
        /\ window.deleting /\ ~sys.quit
     \/ /\ \/ /\ \/ At("DestroyWindow", DoUnregister(DoPostQuit(DoLoop)))
                 \/ At("UnregisterIfLast", DoPostQuit(DoLoop))
                 \/ At("PostQuitMessage", DoNcDestroy(DoLoop))
              /\ ~sys.quit
           \/ At("WM_NCDESTROY", DoLoop) /\ sys.quit
        /\ Object("FlutterWindow", FALSE, TRUE, "null") /\ Dying /\ NoChild
        /\ ~window.deleting
     \/ /\ At("GetMessage", << >>)
        /\ Object("FlutterWindow", FALSE, TRUE, "null") /\ WindowGone /\ NoChild
        /\ ~window.deleting /\ sys.quit

(***************************************************************************)
(* The destructors, when no window is left: it was closed, or never made.  *)
(***************************************************************************)
Leaving ==
  /\ \/ window.quit_on_close_ /\ WindowGone /\ sys.exit = "running"
     \/ ~window.quit_on_close_ /\ NoWindow /\ sys.exit = "failure"
  /\ NoChild /\ ~window.deleting /\ (sys.com <=> sys.exit = "failure")
  /\ \/ /\ \/ At("~FlutterWindow", DoDestructBase)
           \/ At("~Win32Window", DoReturn)
        /\ Object("FlutterWindow", FALSE, window.quit_on_close_, "null")
        /\ Class(1, TRUE, TRUE)
     \/ /\ \/ At("OnDestroy", DoDestroyWindow(DoReturn))
           \/ At("DestroyWindow", DoUnregister(DoReturn))
           \/ At("UnregisterIfLast", DoReturn)
        /\ Object("Win32Window", FALSE, window.quit_on_close_, "null")
        /\ Class(0, TRUE, TRUE)
     \/ /\ At("return", << >>)
        /\ Object("Win32Window", FALSE, window.quit_on_close_, "null")
        /\ Class(0, FALSE, FALSE)

(***************************************************************************)
(* The destructors, when OnCreate failed: the window is still there, and   *)
(* ~Win32Window destroys it.                                               *)
(***************************************************************************)
Failing ==
  /\ sys.exit = "failure" /\ sys.com
  /\ ~window.quit_on_close_ /\ ~view.parent
  /\ \/ /\ At("~FlutterWindow", DoDestructBase)
        /\ Object("FlutterWindow", TRUE, FALSE, "broken") /\ Alive
        /\ ~window.deleting /\ Class(1, TRUE, TRUE)
     \/ /\ \/ At("DeleteController", DoDeleted(DoDestructBase))
           \/ At("Deleted", DoDestructBase) /\ NoChild
        /\ Object("FlutterWindow", TRUE, FALSE, "broken") /\ Alive
        /\ window.deleting /\ Class(1, TRUE, TRUE)
     \/ /\ ~window.deleting /\ NoChild
        /\ \/ /\ At("~Win32Window", DoReturn)
              /\ Object("FlutterWindow", TRUE, FALSE, "null") /\ Alive
              /\ Class(1, TRUE, TRUE)
           \/ /\ \/ At("OnDestroy", DoDestroyWindow(DoReturn))
                 \/ At("DestroyWindow", DoUnregister(DoReturn))
              /\ Object("Win32Window", TRUE, FALSE, "null") /\ Alive
              /\ Class(0, TRUE, TRUE)
           \/ /\ At("WM_DESTROY", DoNcDestroy(DoForget))
              /\ Object("Win32Window", TRUE, FALSE, "null") /\ Dying
              /\ Class(0, TRUE, TRUE)
           \/ /\ \/ At("OnDestroy", DoDestroyWindow(DoPostQuit(DoForget)))
                 \/ At("DestroyWindow", DoUnregister(DoPostQuit(DoForget)))
                 \/ At("UnregisterIfLast", DoPostQuit(DoForget))
              /\ Object("Win32Window", FALSE, FALSE, "null") /\ Dying
              /\ Class(0, TRUE, TRUE)
           \/ /\ \/ At("PostQuitMessage", DoNcDestroy(DoForget))
                 \/ At("WM_NCDESTROY", DoForget)
              /\ Object("Win32Window", FALSE, FALSE, "null") /\ Dying
              /\ Class(0, FALSE, TRUE)
           \/ /\ \/ At("ForgetHandle", DoUnregister(DoReturn))
                 \/ At("UnregisterIfLast", DoReturn)
              /\ Object("Win32Window", FALSE, FALSE, "null") /\ WindowGone
              /\ Class(0, FALSE, TRUE)
           \/ /\ At("return", << >>)
              /\ Object("Win32Window", FALSE, FALSE, "null") /\ WindowGone
              /\ Class(0, FALSE, FALSE)

Ended ==
  /\ todo = << >> /\ sys.exit # "running"
  /\ window.is = "none" /\ window.flutter_controller_ = "null" /\ ~window.deleting
  /\ (NoWindow \/ WindowGone) /\ NoChild
  /\ Class(0, FALSE, FALSE)

Place == Starting \/ Looping \/ Leaving \/ Failing \/ Ended

TaskHasView   == view.task => view.window
ShownInLoop   == hwnd.shown => window.quit_on_close_
NoticeToAlive == hwnd.life \in {"none", "gone"} => ~sys.notice

Fits   == view.parent => view.size = hwnd.size \/ At("WM_SIZE", DoLoop)
Themes ==
  hwnd.life = "alive" /\ sys.brightness # "missing" /\ ~sys.notice =>
    \/ hwnd.dark <=> sys.brightness = "dark"
    \/ At("WM_GETMINMAXINFO", DoNcCreate) \/ At("WM_NCCREATE", DoUpdateTheme)
    \/ At("UpdateTheme", DoOnCreate)
    \/ At("WM_DWMCOLORIZATIONCOLORCHANGED", DoLoop)


-----------------------------------------------------------------------------
(***************************************************************************)
(* Stacks: each is one step on another stack.                              *)
(***************************************************************************)
LEMMA ThenOn ==
  ASSUME NEW step \in Steps, NEW rest \in Seq(Steps)
  PROVE  On(step, Then(step, rest), rest)
BY DEF On, Then

LEMMA Unfold ==
  ASSUME NEW s \in Seq(Steps), s # << >>, NEW rest \in Seq(Steps)
  PROVE  s \o rest = Then(Head(s), Tail(s) \o rest)
<1>1. s = <<Head(s)>> \o Tail(s)
  BY HeadTailProperties
<1>2. <<Head(s)>> \in Seq(Steps) /\ Tail(s) \in Seq(Steps)
  BY HeadTailProperties
<1> QED
  BY <1>1, <1>2, ConcatAssociative DEF Then

LEMMA Two ==
  ASSUME NEW a \in Steps, NEW b \in Steps, NEW rest \in Seq(Steps)
  PROVE  <<a, b>> \o rest = Then(a, Then(b, rest))
<1> DEFINE s == <<a, b>>
<1>1. s \in Seq(Steps) /\ s # << >>
  OBVIOUS
<1>2. Head(s) = a /\ Tail(s) = <<b>>
  OBVIOUS
<1>3. <<b>> \o rest = Then(b, rest)
  BY DEF Then
<1> HIDE DEF s
<1>4. s \o rest = Then(a, <<b>> \o rest)
  BY <1>1, <1>2, Unfold
<1> QED
  BY <1>3, <1>4 DEF s

LEMMA Three ==
  ASSUME NEW a \in Steps, NEW b \in Steps, NEW c \in Steps,
         NEW rest \in Seq(Steps)
  PROVE  <<a, b, c>> \o rest = Then(a, Then(b, Then(c, rest)))
<1> DEFINE s == <<a, b, c>>
<1>1. s \in Seq(Steps) /\ s # << >>
  OBVIOUS
<1>2. Head(s) = a /\ Tail(s) = <<b, c>>
  OBVIOUS
<1>3. <<b, c>> \o rest = Then(b, Then(c, rest))
  BY Two
<1> HIDE DEF s
<1>4. s \o rest = Then(a, <<b, c>> \o rest)
  BY <1>1, <1>2, Unfold
<1> QED
  BY <1>3, <1>4 DEF s

LEMMA Bottoms ==
  /\ On("GetMessage", DoLoop, << >>)
  /\ On("return", DoReturn, << >>)
  /\ On("GetCommandLineArguments", <<"GetCommandLineArguments">>, << >>)
<1>1. "GetMessage" \in Steps /\ "return" \in Steps /\ "GetCommandLineArguments" \in Steps
  BY DEF Steps
<1> QED
  BY <1>1 DEF On, DoLoop, DoReturn

LEMMA DestroyStacks ==
  ASSUME NEW rest \in Seq(Steps)
  PROVE  /\ On("UnregisterIfLast", DoUnregister(rest), rest)
         /\ On("DestroyWindow", DoDestroyWindow(rest), DoUnregister(rest))
         /\ On("OnDestroy", DoDestroy(rest), DoDestroyWindow(rest))
<1>1. {"UnregisterIfLast", "DestroyWindow", "OnDestroy"} \subseteq Steps
  BY DEF Steps
<1>2. On("UnregisterIfLast", DoUnregister(rest), rest)
  BY <1>1, ThenOn DEF DoUnregister
<1>3. On("DestroyWindow", DoDestroyWindow(rest), DoUnregister(rest))
  BY <1>1, <1>2, ThenOn DEF On, DoDestroyWindow
<1>4. On("OnDestroy", DoDestroy(rest), DoDestroyWindow(rest))
  BY <1>1, <1>3, ThenOn DEF On, DoDestroy
<1> QED
  BY <1>2, <1>3, <1>4
LEMMA MessageStacks ==
  ASSUME NEW rest \in Seq(Steps)
  PROVE  /\ On("WM_NCDESTROY", DoNcDestroy(rest), rest)
         /\ On("PostQuitMessage", DoPostQuit(rest), DoNcDestroy(rest))
         /\ On("WM_DESTROY", DoWmDestroy(rest), DoNcDestroy(rest))
<1>1. {"WM_NCDESTROY", "PostQuitMessage", "WM_DESTROY"} \subseteq Steps
  BY DEF Steps, Messages
<1>2. On("WM_NCDESTROY", DoNcDestroy(rest), rest)
  BY <1>1, ThenOn DEF DoNcDestroy
<1>3. On("PostQuitMessage", DoPostQuit(rest), DoNcDestroy(rest))
  BY <1>1, <1>2, ThenOn DEF On, DoPostQuit
<1>4. On("WM_DESTROY", DoWmDestroy(rest), DoNcDestroy(rest))
  BY <1>1, <1>2, ThenOn DEF On, DoWmDestroy
<1> QED
  BY <1>2, <1>3, <1>4

LEMMA DeleteStacks ==
  ASSUME NEW rest \in Seq(Steps)
  PROVE  /\ On("Deleted", DoDeleted(rest), rest)
         /\ On("DeleteController", DoDeleteController(rest), DoDeleted(rest))
<1>1. {"Deleted", "DeleteController"} \subseteq Steps
  BY DEF Steps
<1>2. On("Deleted", DoDeleted(rest), rest)
  BY <1>1, ThenOn DEF DoDeleted
<1>3. On("DeleteController", DoDeleteController(rest), DoDeleted(rest))
  BY <1>1, <1>2, ThenOn DEF On, DoDeleteController
<1> QED
  BY <1>2, <1>3

LEMMA StartStacks ==
  /\ On("SetQuitOnClose", DoSetQuitOnClose, DoLoop)
  /\ On("ForceRedraw", DoForceRedraw, DoSetQuitOnClose)
  /\ On("SetNextFrameCallback", DoSetCallback, DoForceRedraw)
  /\ On("SetChildContent", DoSetChild, DoSetCallback)
  /\ On("OnCreate", DoOnCreate, DoSetQuitOnClose)
  /\ On("UpdateTheme", DoUpdateTheme, DoOnCreate)
  /\ On("WM_NCCREATE", DoNcCreate, DoUpdateTheme)
  /\ On("WM_GETMINMAXINFO", DoGetMinMaxInfo, DoNcCreate)
  /\ On("CreateWindow", DoCreateWindow, DoUpdateTheme)
  /\ On("GetWindowClass", DoGetClass, DoCreateWindow)
  /\ On("FlutterWindow", DoConstruct, DoDestroy(DoGetClass))
<1>1. {"SetQuitOnClose", "ForceRedraw", "SetNextFrameCallback", "SetChildContent",
       "OnCreate", "UpdateTheme", "WM_NCCREATE", "WM_GETMINMAXINFO",
       "CreateWindow", "GetWindowClass", "FlutterWindow"} \subseteq Steps
  BY DEF Steps, Messages
<1>2. On("SetQuitOnClose", DoSetQuitOnClose, DoLoop)
  BY <1>1, Bottoms, ThenOn DEF On, DoSetQuitOnClose
<1>3. On("ForceRedraw", DoForceRedraw, DoSetQuitOnClose)
  BY <1>1, <1>2, ThenOn DEF On, DoForceRedraw
<1>4. On("SetNextFrameCallback", DoSetCallback, DoForceRedraw)
  BY <1>1, <1>3, ThenOn DEF On, DoSetCallback
<1>5. On("SetChildContent", DoSetChild, DoSetCallback)
  BY <1>1, <1>4, ThenOn DEF On, DoSetChild
<1>6. On("OnCreate", DoOnCreate, DoSetQuitOnClose)
  BY <1>1, <1>2, ThenOn DEF On, DoOnCreate
<1>7. On("UpdateTheme", DoUpdateTheme, DoOnCreate)
  BY <1>1, <1>6, ThenOn DEF On, DoUpdateTheme
<1>8. On("WM_NCCREATE", DoNcCreate, DoUpdateTheme)
  BY <1>1, <1>7, ThenOn DEF On, DoNcCreate
<1>9. On("WM_GETMINMAXINFO", DoGetMinMaxInfo, DoNcCreate)
  BY <1>1, <1>8, ThenOn DEF On, DoGetMinMaxInfo
<1>10. On("CreateWindow", DoCreateWindow, DoUpdateTheme)
  BY <1>1, <1>7, ThenOn DEF On, DoCreateWindow
<1>11. On("GetWindowClass", DoGetClass, DoCreateWindow)
  BY <1>1, <1>10, ThenOn DEF On, DoGetClass
<1>12. DoDestroy(DoGetClass) \in Seq(Steps)
  BY <1>11, DestroyStacks DEF On
<1>13. On("FlutterWindow", DoConstruct, DoDestroy(DoGetClass))
  BY <1>1, <1>12, ThenOn DEF DoConstruct
<1> QED
  BY <1>2, <1>3, <1>4, <1>5, <1>6, <1>7, <1>8, <1>9, <1>10, <1>11, <1>13

LEMMA EndStacks ==
  /\ On("~Win32Window", DoDestructBase, DoReturn)
  /\ On("~FlutterWindow", DoDestruct, DoDestructBase)
  /\ On("ForgetHandle", DoForget, DoUnregister(DoReturn))
<1>1. {"~Win32Window", "~FlutterWindow", "ForgetHandle"} \subseteq Steps
  BY DEF Steps
<1>2. On("~Win32Window", DoDestructBase, DoReturn)
  BY <1>1, Bottoms, ThenOn DEF On, DoDestructBase
<1>3. On("~FlutterWindow", DoDestruct, DoDestructBase)
  BY <1>1, <1>2, ThenOn DEF On, DoDestruct
<1>4. On("ForgetHandle", DoForget, DoUnregister(DoReturn))
  <2>1. DoUnregister(DoReturn) \in Seq(Steps)
    BY Bottoms, DestroyStacks DEF On
  <2> QED
    BY <1>1, <2>1, ThenOn DEF DoForget
<1> QED
  BY <1>2, <1>3, <1>4

LEMMA PostQuitStacks ==
  ASSUME NEW rest \in Seq(Steps)
  PROVE  LET quit == DoPostQuit(rest)
         IN  /\ On("UnregisterIfLast", DoUnregister(quit), quit)
             /\ On("DestroyWindow", DoDestroyWindow(quit), DoUnregister(quit))
             /\ On("OnDestroy", DoDestroy(quit), DoDestroyWindow(quit))
<1>1. DoPostQuit(rest) \in Seq(Steps)
  BY MessageStacks DEF On
<1> QED
  BY <1>1, DestroyStacks

LEMMA CreateStacks ==
  /\ On("UnregisterIfLast", DoUnregister(DoGetClass), DoGetClass)
  /\ On("DestroyWindow", DoDestroyWindow(DoGetClass), DoUnregister(DoGetClass))
  /\ On("OnDestroy", DoDestroy(DoGetClass), DoDestroyWindow(DoGetClass))
<1>1. DoGetClass \in Seq(Steps)
  BY StartStacks DEF On
<1> QED
  BY <1>1, DestroyStacks

LEMMA ReturnStacks ==
  /\ On("UnregisterIfLast", DoUnregister(DoReturn), DoReturn)
  /\ On("DestroyWindow", DoDestroyWindow(DoReturn), DoUnregister(DoReturn))
  /\ On("OnDestroy", DoDestroy(DoReturn), DoDestroyWindow(DoReturn))
<1>1. DoReturn \in Seq(Steps)
  BY Bottoms DEF On
<1> QED
  BY <1>1, DestroyStacks

LEMMA Rests ==
  /\ DoLoop \in Seq(Steps) /\ DoForget \in Seq(Steps) /\ DoReturn \in Seq(Steps)
  /\ DoUpdateTheme \in Seq(Steps) /\ DoSetQuitOnClose \in Seq(Steps)
  /\ DoDestructBase \in Seq(Steps) /\ DoGetClass \in Seq(Steps)
BY Bottoms, StartStacks, EndStacks DEF On

(***************************************************************************)
(* What the calls put on the stack.                                        *)
(***************************************************************************)
LEMMA CallsDestroy ==
  ASSUME NEW rest \in Seq(Steps)
  PROVE  /\ Destroy \o rest = DoDestroy(rest)
         /\ WhenClosed \o rest = DoDestroy(Then("PostQuitMessage", rest))
<1>1. {"OnDestroy", "DestroyWindow", "UnregisterIfLast", "PostQuitMessage"}
        \subseteq Steps
  BY DEF Steps
<1>2. \A r \in Seq(Steps) : Destroy \o r = DoDestroy(r)
  BY <1>1, Three DEF Destroy, DoDestroy, DoDestroyWindow, DoUnregister
<1>3. Destroy \in Seq(Steps) /\ <<"PostQuitMessage">> \in Seq(Steps)
  BY <1>1 DEF Destroy
<1>4. WhenClosed \o rest = Destroy \o Then("PostQuitMessage", rest)
  BY <1>3, ConcatAssociative DEF WhenClosed, Then
<1>5. Then("PostQuitMessage", rest) \in Seq(Steps)
  BY <1>1, ThenOn DEF On
<1> QED
  BY <1>2, <1>4, <1>5

LEMMA CallsOthers ==
  ASSUME NEW rest \in Seq(Steps)
  PROVE  /\ <<"DeleteController", "Deleted">> \o rest = DoDeleteController(rest)
         /\ <<"WM_GETMINMAXINFO", "WM_NCCREATE">> \o rest
              = Then("WM_GETMINMAXINFO", Then("WM_NCCREATE", rest))
         /\ <<"SetChildContent", "SetNextFrameCallback", "ForceRedraw">> \o rest
              = Then("SetChildContent", Then("SetNextFrameCallback",
                  Then("ForceRedraw", rest)))
         /\ <<"WM_ACTIVATE", "WM_SIZE">> \o rest
              = Then("WM_ACTIVATE", Then("WM_SIZE", rest))
<1>1. {"DeleteController", "Deleted", "SetChildContent", "SetNextFrameCallback",
       "ForceRedraw"} \subseteq Steps
  BY DEF Steps
<1>2. {"WM_GETMINMAXINFO", "WM_NCCREATE", "WM_ACTIVATE", "WM_SIZE"} \subseteq Steps
  BY DEF Steps, Messages, Resized
<1>3. <<"DeleteController", "Deleted">> \o rest = DoDeleteController(rest)
  BY <1>1, Two DEF DoDeleteController, DoDeleted
<1>4. <<"WM_GETMINMAXINFO", "WM_NCCREATE">> \o rest
        = Then("WM_GETMINMAXINFO", Then("WM_NCCREATE", rest))
  BY <1>2, Two
<1>5. <<"SetChildContent", "SetNextFrameCallback", "ForceRedraw">> \o rest
        = Then("SetChildContent", Then("SetNextFrameCallback",
            Then("ForceRedraw", rest)))
  BY <1>1, Three
<1>6. <<"WM_ACTIVATE", "WM_SIZE">> \o rest = Then("WM_ACTIVATE", Then("WM_SIZE", rest))
  BY <1>2, Two
<1> QED
  BY <1>3, <1>4, <1>5, <1>6

LEMMA CallsDestroyWindow ==
  ASSUME NEW rest \in Seq(Steps)
  PROVE  DestroyMessages \o rest =
           IF hwnd.shown THEN Then("WM_ACTIVATE", DoWmDestroy(rest))
                         ELSE DoWmDestroy(rest)
<1>1. {"WM_ACTIVATE", "WM_DESTROY", "WM_NCDESTROY"} \subseteq Steps
  BY DEF Steps, Messages
<1> DEFINE always == <<"WM_DESTROY", "WM_NCDESTROY">>
<1>2. always \in Seq(Steps) /\ <<"WM_ACTIVATE">> \in Seq(Steps)
  BY <1>1
<1>3. always \o rest = DoWmDestroy(rest)
  BY <1>1, Two DEF DoWmDestroy, DoNcDestroy
<1>4. DestroyMessages = (IF hwnd.shown THEN <<"WM_ACTIVATE">> ELSE << >>) \o always
  BY DEF DestroyMessages
<1> HIDE DEF always
<1>5. CASE hwnd.shown
  <2>1. (<<"WM_ACTIVATE">> \o always) \o rest = <<"WM_ACTIVATE">> \o (always \o rest)
    BY <1>2, ConcatAssociative
  <2>2. DestroyMessages = <<"WM_ACTIVATE">> \o always
    BY <1>4, <1>5
  <2> QED
    BY <1>3, <1>5, <2>1, <2>2 DEF Then
<1>6. CASE ~hwnd.shown
  BY <1>2, <1>3, <1>4, <1>6, ConcatEmptySeq
<1> QED
  BY <1>5, <1>6

LEMMA CallsMain ==
  /\ Destructors = DoDestruct
  /\ <<"FlutterWindow">> \o Destroy \o
       <<"GetWindowClass", "CreateWindow", "UpdateTheme", "OnCreate",
         "SetQuitOnClose", "GetMessage">> = DoConstruct
<1>1. Destructors = DoDestruct
  BY DEF Destructors, DoDestruct, DoDestructBase, DoReturn, Then
<1> QED
  BY <1>1 DEF Destroy, DoConstruct, DoDestroy, DoDestroyWindow, DoUnregister,
    DoGetClass, DoCreateWindow, DoUpdateTheme, DoOnCreate, DoSetQuitOnClose, DoLoop,
    Then

(***************************************************************************)
(* How a step moves the thread: back to the stack below, or into what it   *)
(* calls.                                                                  *)
(***************************************************************************)
LEMMA Returns ==
  ASSUME NEW step, NEW next, NEW below, NEW rest,
         At(step, rest), Return, On(next, rest, below)
  PROVE  At(next, below)'
BY DEF At, On, First, Return

LEMMA Calls ==
  ASSUME NEW step, NEW steps, NEW next, NEW below, NEW rest,
         At(step, rest), Call(steps), On(next, steps \o rest, below)
  PROVE  At(next, below)'
BY DEF At, On, First, Call

(***************************************************************************)
(* What each action of Step has at the top of the stack.                   *)
(***************************************************************************)
LEMMA Firsts ==
  /\ GetArguments \/ ArgumentsThrow => First("GetCommandLineArguments")
  /\ Construct => First("FlutterWindow")
  /\ SetQuitOnClose => First("SetQuitOnClose")
  /\ GetWindowClass => First("GetWindowClass")
  /\ CreateWindow \/ CreateWindowFails => First("CreateWindow")
  /\ UpdateTheme => First("UpdateTheme")
  /\ OnCreate \/ OnCreateFails => First("OnCreate")
  /\ SetChildContent => First("SetChildContent")
  /\ SetNextFrameCallback => First("SetNextFrameCallback")
  /\ ForceRedraw => First("ForceRedraw")
  /\ Show => First("Show")
  /\ OnDestroy => First("OnDestroy")
  /\ DeleteController => First("DeleteController")
  /\ Deleted => First("Deleted")
  /\ DestroyWindow => First("DestroyWindow")
  /\ ForgetHandle => First("ForgetHandle")
  /\ UnregisterIfLast => First("UnregisterIfLast")
  /\ DestructFlutterWindow => First("~FlutterWindow")
  /\ DestructWin32Window => First("~Win32Window")
  /\ ReturnFromMain => First("return")
  /\ NcCreate => First("WM_NCCREATE")
  /\ NoObject => First("WM_GETMINMAXINFO")
  /\ OnWmDestroy => First("WM_DESTROY")
  /\ PostQuitMessage => First("PostQuitMessage")
  /\ OnDpiChanged => First("WM_DPICHANGED")
  /\ OnSize => First("WM_SIZE")
  /\ OnColorChanged => First("WM_DWMCOLORIZATIONCOLORCHANGED")
  /\ OnOther => \/ First("WM_ACTIVATE") \/ First("WM_FONTCHANGE")
                \/ First("WM_PARENTNOTIFY")
  /\ FlutterTakes => \/ First("WM_CLOSE") \/ First("WM_ACTIVATE")
                     \/ First("WM_PARENTNOTIFY")
  /\ OnClose => First("WM_CLOSE")
  /\ OnNcDestroy => First("WM_NCDESTROY")
  /\ GetQuit => First("GetMessage")
<1> USE DEF Handles
<1>1. /\ GetArguments \/ ArgumentsThrow => First("GetCommandLineArguments")
      /\ Construct => First("FlutterWindow")
      /\ SetQuitOnClose => First("SetQuitOnClose")
      /\ GetWindowClass => First("GetWindowClass")
      /\ CreateWindow \/ CreateWindowFails => First("CreateWindow")
      /\ UpdateTheme => First("UpdateTheme")
      /\ OnCreate \/ OnCreateFails => First("OnCreate")
      /\ SetChildContent => First("SetChildContent")
      /\ SetNextFrameCallback => First("SetNextFrameCallback")
      /\ ForceRedraw => First("ForceRedraw")
      /\ Show => First("Show")
  BY DEF GetArguments, ArgumentsThrow, Construct, SetQuitOnClose, GetWindowClass,
    CreateWindow, CreateWindowFails, UpdateTheme, OnCreate, OnCreateFails,
    SetChildContent, SetNextFrameCallback, ForceRedraw, Show
<1>2. /\ OnDestroy => First("OnDestroy")
      /\ DeleteController => First("DeleteController")
      /\ Deleted => First("Deleted")
      /\ DestroyWindow => First("DestroyWindow")
      /\ ForgetHandle => First("ForgetHandle")
      /\ UnregisterIfLast => First("UnregisterIfLast")
      /\ DestructFlutterWindow => First("~FlutterWindow")
      /\ DestructWin32Window => First("~Win32Window")
      /\ ReturnFromMain => First("return")
  BY DEF OnDestroy, DeleteController, Deleted, DestroyWindow, ForgetHandle,
    UnregisterIfLast, DestructFlutterWindow, DestructWin32Window, ReturnFromMain
<1>3. /\ NcCreate => First("WM_NCCREATE")
      /\ NoObject => First("WM_GETMINMAXINFO")
      /\ OnWmDestroy => First("WM_DESTROY")
      /\ PostQuitMessage => First("PostQuitMessage")
      /\ OnDpiChanged => First("WM_DPICHANGED")
      /\ OnSize => First("WM_SIZE")
      /\ OnColorChanged => First("WM_DWMCOLORIZATIONCOLORCHANGED")
      /\ OnClose => First("WM_CLOSE")
      /\ OnNcDestroy => First("WM_NCDESTROY")
      /\ GetQuit => First("GetMessage")
  BY DEF NcCreate, NoObject, OnWmDestroy, PostQuitMessage, OnDpiChanged, OnSize,
    OnColorChanged, OnClose, OnNcDestroy, GetQuit
<1>4. OnOther => \/ First("WM_ACTIVATE") \/ First("WM_FONTCHANGE")
                 \/ First("WM_PARENTNOTIFY")
  BY DEF OnOther
<1>5. FlutterTakes => \/ First("WM_CLOSE") \/ First("WM_ACTIVATE")
                      \/ First("WM_PARENTNOTIFY")
  BY TakesAssumption DEF FlutterTakes
<1> QED
  BY <1>1, <1>2, <1>3, <1>4, <1>5

-----------------------------------------------------------------------------
USE DEF Objects, Windows, Views, Registrars, Systems

(***************************************************************************)
(* The steps up to the loop.                                               *)
(***************************************************************************)
LEMMA StartingBegins ==
  ASSUME TypeOK, Starting, GetArguments \/ ArgumentsThrow \/ Construct
  PROVE  Starting' \/ Ended'
<1>1. CASE GetArguments
  <2>1. /\ At("GetCommandLineArguments", << >>)
        /\ Object("none", FALSE, FALSE, "null") /\ NoWindow /\ NoChild
        /\ Class(0, FALSE, FALSE)
    BY <1>1, Firsts DEF Starting, At, First
  <2>2. todo' = DoConstruct
    <3>1. DoConstruct \in Seq(Steps)
      BY StartStacks DEF On
    <3> QED
      BY <1>1, <2>1, <3>1, CallsMain, ConcatEmptySeq DEF GetArguments, Call, At
  <2>3. At("FlutterWindow", DoDestroy(DoGetClass))'
    BY <2>2, StartStacks DEF On, At, First
  <2> QED
    BY <1>1, <2>1, <2>3 DEF Starting, GetArguments, Object, NoWindow, NoChild, Class,
      TypeOK
<1>2. CASE ArgumentsThrow
  <2>1. /\ Object("none", FALSE, FALSE, "null") /\ NoWindow /\ NoChild
        /\ Class(0, FALSE, FALSE)
    BY <1>2, Firsts DEF Starting, At, First
  <2> QED
    BY <1>2, <2>1 DEF Starting, Ended, ArgumentsThrow, Object, NoWindow, NoChild, Class,
      TypeOK
<1>3. CASE Construct
  <2>1. /\ At("FlutterWindow", DoDestroy(DoGetClass)) /\ sys.com
        /\ Object("none", FALSE, FALSE, "null") /\ NoWindow /\ NoChild
        /\ Class(0, FALSE, FALSE)
    BY <1>3, Firsts DEF Starting, At, First
  <2>2. At("OnDestroy", DoDestroyWindow(DoGetClass))'
    BY <1>3, <2>1, CreateStacks, Returns DEF Construct
  <2> QED
    BY <1>3, <2>1, <2>2 DEF Starting, Construct, Object, NoWindow, NoChild, Class,
      TypeOK
<1> QED
  BY <1>1, <1>2, <1>3

LEMMA StartingRegisters ==
  ASSUME TypeOK, Starting,
         OnDestroy \/ DestroyWindow \/ UnregisterIfLast \/ GetWindowClass
  PROVE  Starting'
<1> USE DEF Object, NoWindow, NoChild, Class
<1>1. /\ sys.com
      /\ Object("FlutterWindow", FALSE, FALSE, "null") /\ NoWindow /\ NoChild
      /\ Class(1, FALSE, FALSE)
  BY Firsts DEF Starting, At, First
<1>2. CASE OnDestroy
  <2>1. At("OnDestroy", DoDestroyWindow(DoGetClass))
    BY <1>2, Firsts DEF Starting, At, First
  <2>2. Return /\ UNCHANGED <<window, hwnd, view, registrar, sys>>
    BY <1>1, <1>2 DEF OnDestroy
  <2>3. At("DestroyWindow", DoUnregister(DoGetClass))'
    BY <2>1, <2>2, CreateStacks, Returns
  <2> QED
    BY <1>1, <2>2, <2>3 DEF Starting
<1>3. CASE DestroyWindow
  <2>1. At("DestroyWindow", DoUnregister(DoGetClass))
    BY <1>3, Firsts DEF Starting, At, First
  <2>2. Return /\ UNCHANGED <<window, hwnd, view, registrar, sys>>
    BY <1>1, <1>3 DEF DestroyWindow
  <2>3. At("UnregisterIfLast", DoGetClass)'
    BY <2>1, <2>2, CreateStacks, Returns
  <2> QED
    BY <1>1, <2>2, <2>3 DEF Starting
<1>4. CASE UnregisterIfLast
  <2>1. At("UnregisterIfLast", DoGetClass)
    BY <1>4, Firsts DEF Starting, At, First
  <2>2. Return /\ UNCHANGED <<window, hwnd, view, registrar, sys>>
    BY <1>1, <1>4 DEF UnregisterIfLast
  <2>3. At("GetWindowClass", DoCreateWindow)'
    BY <2>1, <2>2, StartStacks, Returns
  <2> QED
    BY <1>1, <2>2, <2>3 DEF Starting
<1>5. CASE GetWindowClass
  <2>1. At("GetWindowClass", DoCreateWindow)
    BY <1>5, Firsts DEF Starting, At, First
  <2>2. At("CreateWindow", DoUpdateTheme)'
    BY <1>5, <2>1, StartStacks, Returns DEF GetWindowClass
  <2>3. Class(1, TRUE, TRUE)' /\ UNCHANGED <<window, hwnd, view, sys>>
    BY <1>1, <1>5 DEF GetWindowClass, TypeOK
  <2> QED
    BY <1>1, <2>2, <2>3 DEF Starting
<1> QED
  BY <1>2, <1>3, <1>4, <1>5

LEMMA StartingCreates ==
  ASSUME TypeOK, Starting, ShownInLoop,
         CreateWindow \/ CreateWindowFails \/ NoObject \/ NcCreate \/ UpdateTheme
  PROVE  Starting' \/ Leaving'
<1> USE DEF Object, NoWindow, NoChild, Class
<1>1. CASE CreateWindow
  <2>1. /\ sys.com /\ At("CreateWindow", DoUpdateTheme)
        /\ Object("FlutterWindow", FALSE, FALSE, "null") /\ NoWindow /\ NoChild
        /\ Class(1, TRUE, TRUE)
    BY <1>1, Firsts DEF Starting, At, First
  <2>2. <<"WM_GETMINMAXINFO", "WM_NCCREATE">> \o DoUpdateTheme = DoGetMinMaxInfo
    BY Rests, CallsOthers DEF DoGetMinMaxInfo, DoNcCreate
  <2>3. At("WM_GETMINMAXINFO", DoNcCreate)'
    BY <1>1, <2>1, <2>2, StartStacks, Calls DEF CreateWindow
  <2>4. (hwnd.life = "alive" /\ ~hwnd.that /\ hwnd.destroys = 0)'
    BY <1>1, <2>1 DEF CreateWindow, TypeOK
  <2> QED
    BY <1>1, <2>1, <2>3, <2>4 DEF CreateWindow, Starting
<1>2. CASE CreateWindowFails
  <2>1. /\ sys.com
        /\ Object("FlutterWindow", FALSE, FALSE, "null") /\ NoWindow /\ NoChild
        /\ Class(1, TRUE, TRUE)
    BY <1>2, Firsts DEF Starting, At, First
  <2>2. At("~FlutterWindow", DoDestructBase)'
    BY <1>2, CallsMain, EndStacks DEF CreateWindowFails, ExitFailure, On, At, First
  <2>3. sys'.exit = "failure" /\ sys'.com
    BY <1>2, <2>1 DEF CreateWindowFails, ExitFailure, TypeOK
  <2> QED
    BY <1>2, <2>1, <2>2, <2>3 DEF CreateWindowFails, Starting, Leaving
<1>3. CASE NoObject
  <2>1. /\ sys.com /\ At("WM_GETMINMAXINFO", DoNcCreate)
        /\ Object("FlutterWindow", FALSE, FALSE, "null") /\ NoChild
        /\ hwnd.life = "alive" /\ ~hwnd.that /\ hwnd.destroys = 0
        /\ Class(1, TRUE, TRUE)
    BY <1>3, Firsts DEF Starting, At, First
  <2>2. At("WM_NCCREATE", DoUpdateTheme)'
    BY <1>3, <2>1, StartStacks, Returns DEF NoObject
  <2> QED
    BY <1>3, <2>1, <2>2 DEF NoObject, Starting
<1>4. CASE NcCreate
  <2>1. /\ sys.com /\ At("WM_NCCREATE", DoUpdateTheme)
        /\ Object("FlutterWindow", FALSE, FALSE, "null") /\ NoChild
        /\ hwnd.life = "alive" /\ ~hwnd.that /\ hwnd.destroys = 0
        /\ Class(1, TRUE, TRUE)
    BY <1>4, Firsts DEF Starting, At, First
  <2>2. At("UpdateTheme", DoOnCreate)'
    BY <1>4, <2>1, StartStacks, Returns DEF NcCreate
  <2>3. Alive'
    BY <1>4, <2>1 DEF NcCreate, TypeOK, Alive
  <2>4. Object("FlutterWindow", TRUE, FALSE, "null")'
        /\ ~window'.quit_on_close_ /\ ~window'.deleting
    BY <1>4, <2>1 DEF NcCreate, TypeOK, Starting
  <2> QED
    BY <1>4, <2>1, <2>2, <2>3, <2>4 DEF NcCreate, Starting
<1>5. CASE UpdateTheme
  <2>1. /\ sys.com /\ At("UpdateTheme", DoOnCreate)
        /\ Object("FlutterWindow", TRUE, FALSE, "null") /\ Alive /\ NoChild
        /\ Class(1, TRUE, TRUE)
    BY <1>5, Firsts DEF Starting, At, First
  <2>2. At("OnCreate", DoSetQuitOnClose)'
    BY <1>5, <2>1, StartStacks, Returns DEF UpdateTheme
  <2>3. Alive'
    BY <1>5, <2>1 DEF UpdateTheme, Themed, TypeOK, Alive
  <2> QED
    BY <1>5, <2>1, <2>2, <2>3 DEF UpdateTheme, Starting
<1> QED
  BY <1>1, <1>2, <1>3, <1>4, <1>5

LEMMA StartingSetsUp ==
  ASSUME TypeOK, Starting,
         \/ OnCreate \/ OnCreateFails \/ SetChildContent \/ SetNextFrameCallback
         \/ ForceRedraw \/ SetQuitOnClose
  PROVE  Starting' \/ Failing' \/ Looping'
<1> USE DEF Object, NoChild, Child, Class
<1>1. CASE OnCreate
  <2>1. /\ sys.com /\ At("OnCreate", DoSetQuitOnClose)
        /\ Object("FlutterWindow", TRUE, FALSE, "null") /\ Alive /\ NoChild
        /\ Class(1, TRUE, TRUE)
    BY <1>1, Firsts DEF Starting, At, First
  <2>2. <<"SetChildContent", "SetNextFrameCallback", "ForceRedraw">>
          \o DoSetQuitOnClose = DoSetChild
    BY Rests, CallsOthers DEF DoSetChild, DoSetCallback, DoForceRedraw
  <2>3. At("SetChildContent", DoSetCallback)'
    BY <1>1, <2>1, <2>2, StartStacks, Calls DEF OnCreate
  <2>4. Object("FlutterWindow", TRUE, FALSE, "ok")'
        /\ ~window'.quit_on_close_ /\ ~window'.deleting
    BY <1>1, <2>1 DEF OnCreate, TypeOK, Starting
  <2>5. view'.window /\ ~view'.parent
    BY <1>1, <2>1 DEF OnCreate, TypeOK
  <2> QED
    BY <1>1, <2>1, <2>3, <2>4, <2>5 DEF OnCreate, Starting, Alive
<1>2. CASE OnCreateFails
  <2>1. /\ sys.com
        /\ Object("FlutterWindow", TRUE, FALSE, "null") /\ Alive /\ NoChild
        /\ Class(1, TRUE, TRUE)
    BY <1>2, Firsts DEF Starting, At, First
  <2>2. At("~FlutterWindow", DoDestructBase)'
    BY <1>2, CallsMain, EndStacks DEF OnCreateFails, ExitFailure, On, At, First
  <2>3. sys'.exit = "failure" /\ sys'.com
    BY <1>2, <2>1 DEF OnCreateFails, ExitFailure, TypeOK
  <2>4. Object("FlutterWindow", TRUE, FALSE, "broken")'
        /\ ~window'.quit_on_close_ /\ ~window'.deleting
    BY <1>2, <2>1 DEF OnCreateFails, TypeOK, Starting
  <2>5. ~view'.parent
    BY <1>2, <2>1 DEF OnCreateFails, TypeOK
  <2> QED
    BY <1>2, <2>1, <2>2, <2>3, <2>4, <2>5 DEF OnCreateFails, Failing, Alive
<1>3. CASE SetChildContent
  <2>1. /\ sys.com /\ At("SetChildContent", DoSetCallback)
        /\ Object("FlutterWindow", TRUE, FALSE, "ok") /\ Alive
        /\ view.window /\ ~view.parent
        /\ Class(1, TRUE, TRUE)
    BY <1>3, Firsts DEF Starting, At, First
  <2>2. At("SetNextFrameCallback", DoForceRedraw)'
    BY <1>3, <2>1, StartStacks, Returns DEF SetChildContent
  <2>3. Object("FlutterWindow", TRUE, TRUE, "ok")'
        /\ ~window'.quit_on_close_ /\ ~window'.deleting
    BY <1>3, <2>1 DEF SetChildContent, TypeOK, Starting
  <2>4. Child'
    BY <1>3, <2>1 DEF SetChildContent, Fit, TypeOK
  <2> QED
    BY <1>3, <2>1, <2>2, <2>3, <2>4 DEF SetChildContent, Starting, Alive
<1>4. ASSUME SetNextFrameCallback \/ ForceRedraw \/ SetQuitOnClose
      PROVE  /\ sys.com
             /\ Object("FlutterWindow", TRUE, TRUE, "ok") /\ Alive /\ Child
             /\ Class(1, TRUE, TRUE)
  BY <1>4, Firsts DEF Starting, At, First
<1>5. CASE SetNextFrameCallback
  <2>1. At("SetNextFrameCallback", DoForceRedraw)
    BY <1>5, Firsts DEF Starting, At, First
  <2>2. At("ForceRedraw", DoSetQuitOnClose)'
    BY <1>5, <2>1, StartStacks, Returns DEF SetNextFrameCallback
  <2>3. Child'
    BY <1>4, <1>5 DEF SetNextFrameCallback, TypeOK
  <2> QED
    BY <1>4, <1>5, <2>2, <2>3 DEF SetNextFrameCallback, Starting, Alive
<1>6. CASE ForceRedraw
  <2>1. At("ForceRedraw", DoSetQuitOnClose)
    BY <1>6, Firsts DEF Starting, At, First
  <2>2. At("SetQuitOnClose", DoLoop)'
    BY <1>6, <2>1, StartStacks, Returns DEF ForceRedraw
  <2>3. Child'
    BY <1>4, <1>6 DEF ForceRedraw, Forced, TypeOK
  <2> QED
    BY <1>4, <1>6, <2>2, <2>3 DEF ForceRedraw, Starting, Alive
<1>7. CASE SetQuitOnClose
  <2>1. At("SetQuitOnClose", DoLoop)
    BY <1>7, Firsts DEF Starting, At, First
  <2>2. At("GetMessage", << >>)'
    BY <1>7, <2>1, Bottoms, Returns DEF SetQuitOnClose
  <2>3. Object("FlutterWindow", TRUE, TRUE, "ok")'
        /\ window'.quit_on_close_ /\ ~window'.deleting
    BY <1>4, <1>7 DEF SetQuitOnClose, TypeOK, Starting
  <2> QED
    BY <1>4, <1>7, <2>2, <2>3 DEF SetQuitOnClose, Starting, Looping, Running, Alive
<1> QED
  BY <1>1, <1>2, <1>3, <1>5, <1>6, <1>7

LEMMA StepStarting ==
  ASSUME TypeOK, Starting, ShownInLoop, Step
  PROVE  Place'
<1>1. \/ GetArguments \/ ArgumentsThrow \/ Construct
      \/ OnDestroy \/ DestroyWindow \/ UnregisterIfLast \/ GetWindowClass
      \/ CreateWindow \/ CreateWindowFails \/ NoObject \/ NcCreate \/ UpdateTheme
      \/ OnCreate \/ OnCreateFails \/ SetChildContent \/ SetNextFrameCallback
      \/ ForceRedraw \/ SetQuitOnClose
  BY Firsts DEF Step, Starting, At, First
<1> QED
  BY <1>1, StartingBegins, StartingRegisters, StartingCreates, StartingSetsUp
  DEF Place

-----------------------------------------------------------------------------
(***************************************************************************)
(* The steps in the loop.                                                  *)
(***************************************************************************)
LEMMA LoopStacks ==
  /\ \A m \in LoopMessages \cup {"Show"} : On(m, Then(m, DoLoop), DoLoop)
  /\ On("WM_ACTIVATE", Then("WM_ACTIVATE", Then("WM_SIZE", DoLoop)),
        Then("WM_SIZE", DoLoop))
  /\ On("WM_ACTIVATE", Then("WM_ACTIVATE", DoWmDestroy(DoLoop)), DoWmDestroy(DoLoop))
  /\ LET destroying == DoDeleted(DoDestroyWindow(DoPostQuit(DoLoop)))
     IN  On("WM_PARENTNOTIFY", Then("WM_PARENTNOTIFY", destroying), destroying)
<1>1. LoopMessages \cup {"Show"} \subseteq Steps
  BY DEF LoopMessages, Steps, Messages, Resized, Recolored
<1>2. {"WM_ACTIVATE", "WM_PARENTNOTIFY"} \subseteq Steps
  BY DEF Steps, Messages
<1>3. \A m \in LoopMessages \cup {"Show"} : On(m, Then(m, DoLoop), DoLoop)
  BY <1>1, Rests, ThenOn
<1>4. Then("WM_SIZE", DoLoop) \in Seq(Steps)
  BY <1>3 DEF On, LoopMessages
<1>5. DoWmDestroy(DoLoop) \in Seq(Steps)
  BY Rests, MessageStacks DEF On
<1>6. DoDestroyWindow(DoPostQuit(DoLoop)) \in Seq(Steps)
  BY Rests, PostQuitStacks DEF On
<1>7. DoDeleted(DoDestroyWindow(DoPostQuit(DoLoop))) \in Seq(Steps)
  BY <1>6, DeleteStacks DEF On
<1> QED
  BY <1>2, <1>3, <1>4, <1>5, <1>7, ThenOn

LEMMA LoopDestroyStacks ==
  LET quit == DoPostQuit(DoLoop)
      rest == DoDestroyWindow(quit)
  IN  /\ On("WM_NCDESTROY", DoNcDestroy(DoLoop), DoLoop)
      /\ On("PostQuitMessage", quit, DoNcDestroy(DoLoop))
      /\ On("WM_DESTROY", DoWmDestroy(DoLoop), DoNcDestroy(DoLoop))
      /\ On("UnregisterIfLast", DoUnregister(quit), quit)
      /\ On("DestroyWindow", rest, DoUnregister(quit))
      /\ On("OnDestroy", DoDestroy(quit), rest)
      /\ On("Deleted", DoDeleted(rest), rest)
      /\ On("DeleteController", DoDeleteController(rest), DoDeleted(rest))
<1>1. DoDestroyWindow(DoPostQuit(DoLoop)) \in Seq(Steps)
  BY Rests, PostQuitStacks DEF On
<1> QED
  BY <1>1, Rests, MessageStacks, PostQuitStacks, DeleteStacks

(***************************************************************************)
(* A message that changes nothing, taken by Flutter or handled.            *)
(***************************************************************************)
LEMMA LoopReturns ==
  ASSUME TypeOK, Looping, Return, UNCHANGED <<window, hwnd, view, registrar, sys>>,
         \/ First("WM_ACTIVATE") \/ First("WM_FONTCHANGE") \/ First("WM_CLOSE")
         \/ First("WM_PARENTNOTIFY")
  PROVE  Looping'
<1> DEFINE deleted == DoDestroyWindow(DoPostQuit(DoLoop))
           last == /\ Object("FlutterWindow", FALSE, TRUE, "null") /\ Dying
                   /\ NoChild /\ window.deleting /\ ~sys.quit
<1> USE DEF Running, Object, NoChild, Child, Class, Alive, Dying
<1>1. \/ (\E m \in LoopMessages \cup {"Show"} : At(m, DoLoop)) /\ Running /\ Alive
      \/ At("WM_ACTIVATE", Then("WM_SIZE", DoLoop)) /\ Running /\ Alive
      \/ At("WM_ACTIVATE", DoWmDestroy(DoLoop)) /\ Running /\ Dying
      \/ At("WM_PARENTNOTIFY", DoDeleted(deleted)) /\ last
  BY DEF Looping, At, First
<1>2. CASE (\E m \in LoopMessages \cup {"Show"} : At(m, DoLoop)) /\ Running /\ Alive
  <2>1. At("GetMessage", << >>)'
    BY <1>2, Bottoms, Returns
  <2> QED
    BY <1>2, <2>1 DEF Looping
<1>3. CASE At("WM_ACTIVATE", Then("WM_SIZE", DoLoop)) /\ Running /\ Alive
  <2>1. At("WM_SIZE", DoLoop)'
    BY <1>3, LoopStacks, Returns DEF LoopMessages
  <2> QED
    BY <1>3, <2>1 DEF Looping, LoopMessages
<1>4. CASE At("WM_ACTIVATE", DoWmDestroy(DoLoop)) /\ Running /\ Dying
  <2>1. At("WM_DESTROY", DoNcDestroy(DoLoop))'
    BY <1>4, LoopDestroyStacks, Returns
  <2> QED
    BY <1>4, <2>1 DEF Looping
<1>5. CASE At("WM_PARENTNOTIFY", DoDeleted(deleted)) /\ last
  <2>1. At("Deleted", deleted)'
    BY <1>5, LoopDestroyStacks, Returns
  <2> QED
    BY <1>5, <2>1 DEF Looping
<1> QED
  BY <1>1, <1>2, <1>3, <1>4, <1>5

LEMMA LoopMessage ==
  ASSUME TypeOK, Looping,
         Show \/ OnDpiChanged \/ OnSize \/ OnColorChanged \/ OnClose
  PROVE  Looping'
<1> USE DEF Running, Object, Child, Class, Alive
<1>1. \A m \in LoopMessages \cup {"Show"} :
        First(m) /\ m # "WM_ACTIVATE" => At(m, DoLoop) /\ Running /\ Alive
  BY DEF Looping, At, First, LoopMessages
<1>2. CASE Show
  <2>1. At("Show", DoLoop) /\ Running /\ Alive
    BY <1>1, <1>2, Firsts
  <2>2. <<"WM_ACTIVATE", "WM_SIZE">> \o DoLoop
          = Then("WM_ACTIVATE", Then("WM_SIZE", DoLoop))
    BY Rests, CallsOthers
  <2>3. At("WM_ACTIVATE", Then("WM_SIZE", DoLoop))'
    BY <1>2, <2>1, <2>2, LoopStacks, Calls DEF Show
  <2>4. Alive'
    BY <1>2, <2>1 DEF Show, TypeOK
  <2> QED
    BY <1>2, <2>1, <2>3, <2>4 DEF Show, Looping
<1>3. CASE OnDpiChanged
  <2>1. At("WM_DPICHANGED", DoLoop) /\ Running /\ Alive
    BY <1>1, <1>3, Firsts DEF LoopMessages
  <2>2. On("WM_SIZE", <<"WM_SIZE">> \o DoLoop, DoLoop)
    BY LoopStacks DEF Then, LoopMessages
  <2>3. At("WM_SIZE", DoLoop)'
    BY <1>3, <2>1, <2>2, Calls DEF OnDpiChanged
  <2>4. Alive'
    BY <1>3, <2>1 DEF OnDpiChanged, TypeOK
  <2> QED
    BY <1>3, <2>1, <2>3, <2>4 DEF OnDpiChanged, Looping, LoopMessages
<1>4. CASE OnSize
  <2>1. At("WM_SIZE", DoLoop) /\ Running /\ Alive
    BY <1>1, <1>4, Firsts DEF LoopMessages
  <2>2. At("GetMessage", << >>)'
    BY <1>4, <2>1, Bottoms, Returns DEF OnSize
  <2>3. Child'
    BY <1>4, <2>1 DEF OnSize, FitChild, Fit, TypeOK
  <2> QED
    BY <1>4, <2>1, <2>2, <2>3 DEF OnSize, Looping
<1>5. CASE OnColorChanged
  <2>1. At("WM_DWMCOLORIZATIONCOLORCHANGED", DoLoop) /\ Running /\ Alive
    BY <1>1, <1>5, Firsts DEF LoopMessages
  <2>2. At("GetMessage", << >>)'
    BY <1>5, <2>1, Bottoms, Returns DEF OnColorChanged
  <2>3. Alive'
    BY <1>5, <2>1 DEF OnColorChanged, Themed, TypeOK
  <2> QED
    BY <1>5, <2>1, <2>2, <2>3 DEF OnColorChanged, Looping
<1>6. CASE OnClose
  <2>1. At("WM_CLOSE", DoLoop) /\ Running /\ Alive
    BY <1>1, <1>6, Firsts DEF LoopMessages
  <2>2. DestroyHwnd /\ Call(DestroyMessages)
    BY <1>6, <2>1 DEF OnClose
  <2>3. Dying'
    BY <2>1, <2>2 DEF DestroyHwnd, Dying, TypeOK
  <2>4. \/ At("WM_ACTIVATE", DoWmDestroy(DoLoop))'
        \/ At("WM_DESTROY", DoNcDestroy(DoLoop))'
    BY <2>1, <2>2, Rests, CallsDestroyWindow, LoopStacks, LoopDestroyStacks, Calls
  <2> QED
    BY <1>6, <2>1, <2>3, <2>4 DEF OnClose, Looping
<1> QED
  BY <1>2, <1>3, <1>4, <1>5, <1>6

(***************************************************************************)
(* WM_DESTROY in the loop: the controller is deleted before the window's   *)
(* class could be unregistered or the program told to end.                 *)
(***************************************************************************)
LEMMA LoopDeletes ==
  ASSUME TypeOK, Looping, OnWmDestroy \/ OnDestroy \/ DeleteController \/ Deleted
  PROVE  Looping'
<1> DEFINE quit == DoPostQuit(DoLoop)
<1> USE DEF Running, Object, NoChild, Child, Class, Dying
<1>1. CASE OnWmDestroy
  <2>1. At("WM_DESTROY", DoNcDestroy(DoLoop)) /\ Running /\ Dying
    BY <1>1, Firsts DEF Looping, At, First, LoopMessages
  <2>2. WhenClosed \o DoNcDestroy(DoLoop) = DoDestroy(quit)
    BY Rests, MessageStacks, CallsDestroy DEF On, DoPostQuit
  <2>3. At("OnDestroy", DoDestroyWindow(quit))'
    BY <1>1, <2>1, <2>2, LoopDestroyStacks, Calls DEF OnWmDestroy
  <2>4. Object("FlutterWindow", FALSE, TRUE, "ok")' /\ ~window'.deleting
        /\ window'.quit_on_close_
    BY <1>1, <2>1 DEF OnWmDestroy, WithoutHandle, TypeOK, Looping
  <2> QED
    BY <1>1, <2>1, <2>3, <2>4 DEF OnWmDestroy, Looping
<1>2. CASE OnDestroy
  <2>1. /\ At("OnDestroy", DoDestroyWindow(quit))
        /\ Object("FlutterWindow", FALSE, TRUE, "ok") /\ Dying /\ Child
        /\ ~window.deleting /\ ~sys.quit
    BY <1>2, Firsts DEF Looping, At, First, LoopMessages
  <2>2. window' = Forgotten(window) /\ Call(<<"DeleteController", "Deleted">>)
    BY <1>2, <2>1 DEF OnDestroy
  <2>3. DoDestroyWindow(quit) \in Seq(Steps)
    BY LoopDestroyStacks DEF On
  <2>4. At("DeleteController", DoDeleted(DoDestroyWindow(quit)))'
    BY <2>1, <2>2, <2>3, CallsOthers, LoopDestroyStacks, Calls
  <2>5. Object("FlutterWindow", FALSE, TRUE, "null")' /\ window'.deleting
        /\ window'.quit_on_close_
    BY <2>1, <2>2 DEF Forgotten, TypeOK, Looping
  <2> QED
    BY <1>2, <2>1, <2>4, <2>5 DEF OnDestroy, Looping
<1>3. CASE DeleteController
  <2>1. /\ At("DeleteController", DoDeleted(DoDestroyWindow(quit)))
        /\ Object("FlutterWindow", FALSE, TRUE, "null") /\ Dying /\ Child
        /\ window.deleting /\ ~sys.quit
    BY <1>3, Firsts DEF Looping, At, First, LoopMessages
  <2>2. Call(<<"WM_PARENTNOTIFY">>)
    BY <1>3, <2>1 DEF DeleteController
  <2>3. LET below == DoDeleted(DoDestroyWindow(quit))
        IN  On("WM_PARENTNOTIFY", <<"WM_PARENTNOTIFY">> \o below, below)
    BY LoopStacks DEF Then
  <2>4. At("WM_PARENTNOTIFY", DoDeleted(DoDestroyWindow(quit)))'
    BY <2>1, <2>2, <2>3, Calls
  <2>5. NoChild'
    BY <1>3 DEF DeleteController, TypeOK
  <2> QED
    BY <1>3, <2>1, <2>4, <2>5 DEF DeleteController, Looping
<1>4. CASE Deleted
  <2>1. /\ At("Deleted", DoDestroyWindow(quit))
        /\ Object("FlutterWindow", FALSE, TRUE, "null") /\ Dying /\ NoChild
        /\ ~sys.quit
    BY <1>4, Firsts DEF Looping, At, First, LoopMessages
  <2>2. At("DestroyWindow", DoUnregister(quit))'
    BY <1>4, <2>1, LoopDestroyStacks, Returns DEF Deleted
  <2>3. Object("FlutterWindow", FALSE, TRUE, "null")' /\ ~window'.deleting
        /\ window'.quit_on_close_
    BY <1>4, <2>1 DEF Deleted, TypeOK, Looping
  <2> QED
    BY <1>4, <2>1, <2>2, <2>3 DEF Deleted, Looping
<1> QED
  BY <1>1, <1>2, <1>3, <1>4

LEMMA LoopDestroys ==
  ASSUME TypeOK, Looping,
         \/ DestroyWindow \/ UnregisterIfLast \/ PostQuitMessage \/ OnNcDestroy
         \/ GetQuit
  PROVE  Looping' \/ Leaving'
<1> DEFINE quit == DoPostQuit(DoLoop)
<1> USE DEF Object, NoChild, Class
<1>1. CASE DestroyWindow
  <2>1. /\ At("DestroyWindow", DoUnregister(quit))
        /\ Object("FlutterWindow", FALSE, TRUE, "null") /\ Dying /\ NoChild
        /\ ~window.deleting /\ ~sys.quit
    BY <1>1, Firsts DEF Looping, At, First, LoopMessages
  <2>2. Return /\ UNCHANGED hwnd
    BY <1>1, <2>1 DEF DestroyWindow
  <2>3. At("UnregisterIfLast", quit)'
    BY <2>1, <2>2, LoopDestroyStacks, Returns
  <2> QED
    BY <1>1, <2>1, <2>2, <2>3 DEF DestroyWindow, Looping, Dying
<1>2. CASE UnregisterIfLast
  <2>1. /\ At("UnregisterIfLast", quit)
        /\ Object("FlutterWindow", FALSE, TRUE, "null") /\ Dying /\ NoChild
        /\ ~window.deleting /\ ~sys.quit
    BY <1>2, Firsts DEF Looping, At, First, LoopMessages
  <2>2. Return /\ UNCHANGED registrar
    BY <1>2 DEF UnregisterIfLast, Looping
  <2>3. At("PostQuitMessage", DoNcDestroy(DoLoop))'
    BY <2>1, <2>2, LoopDestroyStacks, Returns
  <2> QED
    BY <1>2, <2>1, <2>2, <2>3 DEF UnregisterIfLast, Looping, Dying
<1>3. CASE PostQuitMessage
  <2>1. /\ At("PostQuitMessage", DoNcDestroy(DoLoop))
        /\ Object("FlutterWindow", FALSE, TRUE, "null") /\ Dying /\ NoChild
        /\ ~window.deleting
    BY <1>3, Firsts DEF Looping, At, First, LoopMessages
  <2>2. At("WM_NCDESTROY", DoLoop)'
    BY <1>3, <2>1, LoopDestroyStacks, Returns DEF PostQuitMessage
  <2>3. sys'.quit /\ sys'.exit = "running" /\ sys'.com
    BY <1>3 DEF PostQuitMessage, PostsQuit, Looping, TypeOK
  <2> QED
    BY <1>3, <2>1, <2>2, <2>3 DEF PostQuitMessage, Looping, Dying
<1>4. CASE OnNcDestroy
  <2>1. /\ At("WM_NCDESTROY", DoLoop) /\ sys.quit
        /\ Object("FlutterWindow", FALSE, TRUE, "null") /\ Dying /\ NoChild
        /\ ~window.deleting
    BY <1>4, Firsts DEF Looping, At, First, LoopMessages
  <2>2. At("GetMessage", << >>)'
    BY <1>4, <2>1, Bottoms, Returns DEF OnNcDestroy
  <2>3. sys'.quit /\ sys'.exit = "running" /\ sys'.com
    BY <1>4, <2>1 DEF OnNcDestroy, Looping, TypeOK
  <2>4. WindowGone' /\ NoChild'
    BY <1>4, <2>1 DEF OnNcDestroy, WindowGone, Dying, TypeOK
  <2> QED
    BY <1>4, <2>1, <2>2, <2>3, <2>4 DEF OnNcDestroy, Looping
<1>5. CASE GetQuit
  <2>1. /\ Object("FlutterWindow", FALSE, TRUE, "null") /\ WindowGone /\ NoChild
        /\ ~window.deleting
    BY <1>5, Firsts DEF Looping, Running, At, First, LoopMessages, GetQuit
  <2>2. At("~FlutterWindow", DoDestructBase)'
    BY <1>5, CallsMain, EndStacks DEF GetQuit, On, At, First
  <2>3. ~sys'.com /\ sys'.exit = "running"
    BY <1>5 DEF GetQuit, Looping, TypeOK
  <2> QED
    BY <1>5, <2>1, <2>2, <2>3 DEF GetQuit, Looping, Leaving, WindowGone
<1> QED
  BY <1>1, <1>2, <1>3, <1>4, <1>5

(***************************************************************************)
(* A message, or the frame's task, that the loop gets.                     *)
(***************************************************************************)
LEMMA Gets ==
  ASSUME NEW m \in LoopMessages \cup {"Show"}, At("GetMessage", << >>),
         todo \in Seq(Steps), Push(m)
  PROVE  At(m, DoLoop)'
<1>1. todo = DoLoop
  <2>1. todo = <<Head(todo)>> \o Tail(todo)
    BY HeadTailProperties DEF At, First
  <2>2. <<"GetMessage">> \in Seq(Steps)
    BY Bottoms DEF On, DoLoop
  <2> QED
    BY <2>1, <2>2, ConcatEmptySeq DEF At, First, DoLoop
<1> QED
  BY <1>1, LoopStacks DEF Push, Then, On, At, First

LEMMA LoopGets ==
  ASSUME TypeOK, Looping, TaskHasView, Loop \/ GetFrameTask
  PROVE  Looping'
<1> USE DEF Running, Object, NoChild, Child, Class, Alive
<1>1. CASE Loop
  <2>1. PICK m \in LoopMessages : GetMessage(m)
    BY <1>1 DEF Loop, LoopMessages, Recolored
  <2>2. At("GetMessage", << >>) /\ Running /\ Alive
    BY <2>1 DEF GetMessage, Looping, At, First, LoopMessages, WindowGone
  <2>3. At(m, DoLoop)'
    BY <2>1, <2>2, Gets DEF GetMessage, TypeOK
  <2>4. /\ UNCHANGED view
        /\ \/ UNCHANGED hwnd
           \/ \E size \in Sizes : hwnd' = [hwnd EXCEPT !.size = size]
        /\ \/ UNCHANGED sys
           \/ sys' = [sys EXCEPT !.notice = FALSE]
    BY <2>1 DEF GetMessage, Recolored
  <2>5. Alive'
    BY <2>2, <2>4 DEF TypeOK
  <2>6. ~sys'.quit /\ sys'.exit = "running" /\ sys'.com
    <3>1. ~sys.quit /\ sys.exit = "running" /\ sys.com
      BY <2>2 DEF Looping
    <3>2. sys \in Systems
      BY DEF TypeOK
    <3> QED
      BY <2>4, <3>1, <3>2
  <2> QED
    BY <2>1, <2>2, <2>3, <2>4, <2>5, <2>6 DEF GetMessage, Looping
<1>2. CASE GetFrameTask
  <2>1. At("GetMessage", << >>) /\ Running /\ Alive
    BY <1>2 DEF GetFrameTask, TaskHasView, Looping, At, First, LoopMessages
  <2>2. At("Show", DoLoop)'
    BY <1>2, <2>1, Gets DEF GetFrameTask, TypeOK
  <2>3. Child'
    BY <1>2, <2>1 DEF GetFrameTask, TypeOK
  <2> QED
    BY <1>2, <2>1, <2>2, <2>3 DEF GetFrameTask, Looping
<1> QED
  BY <1>1, <1>2

LEMMA StepLooping ==
  ASSUME TypeOK, Looping, TaskHasView, Step
  PROVE  Place'
<1>1. \/ Show \/ OnDpiChanged \/ OnSize \/ OnColorChanged \/ OnClose
      \/ OnOther \/ FlutterTakes
      \/ OnWmDestroy \/ OnDestroy \/ DeleteController \/ Deleted
      \/ DestroyWindow \/ UnregisterIfLast \/ PostQuitMessage \/ OnNcDestroy
      \/ GetQuit
  BY Firsts DEF Step, Looping, At, First, LoopMessages
<1>2. ASSUME OnOther \/ FlutterTakes PROVE Looping'
  <2>1. Return /\ UNCHANGED <<window, hwnd, view, registrar, sys>>
    BY <1>2 DEF OnOther, FlutterTakes
  <2> QED
    BY <1>2, <2>1, Firsts, LoopReturns
<1> QED
  BY <1>1, <1>2, LoopMessage, LoopDeletes, LoopDestroys DEF Place

-----------------------------------------------------------------------------
(***************************************************************************)
(* The destructors of an object without a window.                          *)
(***************************************************************************)
LEMMA StepLeaving ==
  ASSUME TypeOK, Leaving, Step
  PROVE  Place'
<1> USE DEF Object, NoChild, Class
<1>1. \/ DestructFlutterWindow \/ DestructWin32Window \/ OnDestroy \/ DestroyWindow
      \/ UnregisterIfLast \/ ReturnFromMain
  BY Firsts DEF Step, Leaving, At, First
<1>2. CASE DestructFlutterWindow
  <2>1. At("~FlutterWindow", DoDestructBase) /\ Class(1, TRUE, TRUE)
        /\ Object("FlutterWindow", FALSE, window.quit_on_close_, "null")
    BY <1>2, Firsts DEF Leaving, At, First
  <2>2. Return /\ UNCHANGED window
    BY <1>2, <2>1 DEF DestructFlutterWindow
  <2>3. At("~Win32Window", DoReturn)'
    BY <2>1, <2>2, EndStacks, Returns
  <2> QED
    BY <1>2, <2>1, <2>2, <2>3 DEF DestructFlutterWindow, Leaving, Place, NoWindow,
      WindowGone
<1>3. CASE DestructWin32Window
  <2>1. At("~Win32Window", DoReturn) /\ Class(1, TRUE, TRUE)
        /\ Object("FlutterWindow", FALSE, window.quit_on_close_, "null")
    BY <1>3, Firsts DEF Leaving, At, First
  <2>2. At("OnDestroy", DoDestroyWindow(DoReturn))'
    BY <1>3, <2>1, Rests, CallsDestroy, ReturnStacks, Calls DEF DestructWin32Window
  <2>3. /\ window'.is = "Win32Window"
        /\ window'.window_handle_ = window.window_handle_
        /\ window'.child_content_ = window.child_content_
        /\ window'.quit_on_close_ = window.quit_on_close_
        /\ window'.deleting = window.deleting
        /\ window'.flutter_controller_ = window.flutter_controller_
    BY <1>3 DEF DestructWin32Window, TypeOK
  <2>4. Class(0, TRUE, TRUE)'
    BY <1>3, <2>1 DEF DestructWin32Window, CountedDown, TypeOK
  <2> QED
    BY <1>3, <2>1, <2>2, <2>3, <2>4 DEF DestructWin32Window, Leaving, Place, NoWindow,
      WindowGone
<1>4. ASSUME OnDestroy \/ DestroyWindow \/ UnregisterIfLast
      PROVE  /\ Object("Win32Window", FALSE, window.quit_on_close_, "null")
             /\ Class(0, TRUE, TRUE)
  BY <1>4, Firsts DEF Leaving, At, First
<1>5. CASE OnDestroy
  <2>1. At("OnDestroy", DoDestroyWindow(DoReturn))
    BY <1>5, Firsts DEF Leaving, At, First
  <2>2. Return /\ UNCHANGED window
    BY <1>4, <1>5 DEF OnDestroy
  <2>3. At("DestroyWindow", DoUnregister(DoReturn))'
    BY <2>1, <2>2, ReturnStacks, Returns
  <2> QED
    BY <1>4, <1>5, <2>2, <2>3 DEF OnDestroy, Leaving, Place, NoWindow, WindowGone
<1>6. CASE DestroyWindow
  <2>1. At("DestroyWindow", DoUnregister(DoReturn))
    BY <1>6, Firsts DEF Leaving, At, First
  <2>2. Return /\ UNCHANGED hwnd
    BY <1>4, <1>6 DEF DestroyWindow
  <2>3. At("UnregisterIfLast", DoReturn)'
    BY <2>1, <2>2, ReturnStacks, Returns
  <2> QED
    BY <1>4, <1>6, <2>2, <2>3 DEF DestroyWindow, Leaving, Place, NoWindow, WindowGone
<1>7. CASE UnregisterIfLast
  <2>1. At("UnregisterIfLast", DoReturn)
    BY <1>7, Firsts DEF Leaving, At, First
  <2>2. At("return", << >>)'
    BY <1>7, <2>1, Bottoms, Returns DEF UnregisterIfLast
  <2>3. Class(0, FALSE, FALSE)'
    BY <1>4, <1>7 DEF UnregisterIfLast, Leaving, NoWindow, WindowGone, TypeOK
  <2> QED
    BY <1>4, <1>7, <2>2, <2>3 DEF UnregisterIfLast, Leaving, Place, NoWindow, WindowGone
<1>8. CASE ReturnFromMain
  <2>1. Object("Win32Window", FALSE, window.quit_on_close_, "null")
        /\ Class(0, FALSE, FALSE)
    BY <1>8, Firsts DEF Leaving, At, First
  <2>2. window'.is = "none" /\ window'.flutter_controller_ = "null"
        /\ ~window'.deleting
    BY <1>8, <2>1 DEF ReturnFromMain, TypeOK, Leaving
  <2>3. sys'.exit # "running"
    BY <1>8 DEF ReturnFromMain, TypeOK
  <2> QED
    BY <1>8, <2>1, <2>2, <2>3 DEF ReturnFromMain, Leaving, Ended, Place, NoWindow,
      WindowGone
<1> QED
  BY <1>1, <1>2, <1>3, <1>5, <1>6, <1>7, <1>8

(***************************************************************************)
(* The destructors of an object whose window is still there: first the     *)
(* controller without engine or view, then the window, and in its          *)
(* WM_DESTROY Destroy once more.                                           *)
(***************************************************************************)
LEMMA FailStacks ==
  LET quit == DoPostQuit(DoForget)
  IN  /\ On("WM_NCDESTROY", DoNcDestroy(DoForget), DoForget)
      /\ On("PostQuitMessage", quit, DoNcDestroy(DoForget))
      /\ On("WM_DESTROY", DoWmDestroy(DoForget), DoNcDestroy(DoForget))
      /\ On("UnregisterIfLast", DoUnregister(quit), quit)
      /\ On("DestroyWindow", DoDestroyWindow(quit), DoUnregister(quit))
      /\ On("OnDestroy", DoDestroy(quit), DoDestroyWindow(quit))
      /\ On("Deleted", DoDeleted(DoDestructBase), DoDestructBase)
      /\ On("DeleteController", DoDeleteController(DoDestructBase),
            DoDeleted(DoDestructBase))
BY Rests, MessageStacks, PostQuitStacks, DeleteStacks

LEMMA CallsForget ==
  ASSUME ~hwnd.shown
  PROVE  (DestroyMessages \o <<"ForgetHandle">>) \o DoUnregister(DoReturn)
           = DoWmDestroy(DoForget)
<1>1. {"WM_DESTROY", "WM_NCDESTROY", "ForgetHandle"} \subseteq Steps
  BY DEF Steps, Messages
<1>2. DoUnregister(DoReturn) \in Seq(Steps) /\ <<"ForgetHandle">> \in Seq(Steps)
  BY <1>1, ReturnStacks DEF On
<1>3. DestroyMessages \in Seq(Steps)
  <2>1. << >> \in Seq(Steps) /\ <<"WM_DESTROY", "WM_NCDESTROY">> \in Seq(Steps)
    BY <1>1
  <2> QED
    BY <2>1, ConcatProperties DEF DestroyMessages
<1>4. (DestroyMessages \o <<"ForgetHandle">>) \o DoUnregister(DoReturn)
        = DestroyMessages \o DoForget
  BY <1>2, <1>3, ConcatAssociative DEF DoForget, Then
<1> QED
  BY <1>4, Rests, CallsDestroyWindow

LEMMA FailingDeletes ==
  ASSUME TypeOK, Failing,
         DestructFlutterWindow \/ DeleteController \/ Deleted \/ DestructWin32Window
  PROVE  Failing'
<1> USE DEF Object, NoChild, Class, Alive
<1>1. CASE DestructFlutterWindow
  <2>1. /\ At("~FlutterWindow", DoDestructBase)
        /\ Object("FlutterWindow", TRUE, FALSE, "broken") /\ Alive
        /\ ~window.deleting /\ Class(1, TRUE, TRUE)
    BY <1>1, Firsts DEF Failing, At, First
  <2>2. /\ window' = [window EXCEPT !.deleting = TRUE]
        /\ Call(<<"DeleteController", "Deleted">>)
    BY <1>1, <2>1 DEF DestructFlutterWindow
  <2>3. At("DeleteController", DoDeleted(DoDestructBase))'
    BY <2>1, <2>2, Rests, CallsOthers, FailStacks, Calls
  <2>4. Object("FlutterWindow", TRUE, FALSE, "broken")' /\ window'.deleting
        /\ ~window'.quit_on_close_
    BY <2>1, <2>2 DEF TypeOK, Failing
  <2> QED
    BY <1>1, <2>1, <2>3, <2>4 DEF DestructFlutterWindow, Failing
<1>2. CASE DeleteController
  <2>1. /\ At("DeleteController", DoDeleted(DoDestructBase))
        /\ Object("FlutterWindow", TRUE, FALSE, "broken") /\ Alive
        /\ window.deleting /\ Class(1, TRUE, TRUE)
    BY <1>2, Firsts DEF Failing, At, First
  <2>2. Return
    BY <1>2 DEF DeleteController, Failing
  <2>3. At("Deleted", DoDestructBase)'
    BY <2>1, <2>2, FailStacks, Returns
  <2>4. NoChild'
    BY <1>2 DEF DeleteController, TypeOK
  <2> QED
    BY <1>2, <2>1, <2>3, <2>4 DEF DeleteController, Failing
<1>3. CASE Deleted
  <2>1. /\ At("Deleted", DoDestructBase) /\ NoChild
        /\ Object("FlutterWindow", TRUE, FALSE, "broken") /\ Alive
        /\ Class(1, TRUE, TRUE)
    BY <1>3, Firsts DEF Failing, At, First
  <2>2. At("~Win32Window", DoReturn)'
    BY <1>3, <2>1, EndStacks, Returns DEF Deleted
  <2>3. Object("FlutterWindow", TRUE, FALSE, "null")' /\ ~window'.deleting
        /\ ~window'.quit_on_close_
    BY <1>3, <2>1 DEF Deleted, TypeOK, Failing
  <2> QED
    BY <1>3, <2>1, <2>2, <2>3 DEF Deleted, Failing
<1>4. CASE DestructWin32Window
  <2>1. /\ At("~Win32Window", DoReturn) /\ NoChild /\ ~window.deleting
        /\ Object("FlutterWindow", TRUE, FALSE, "null") /\ Alive
        /\ Class(1, TRUE, TRUE)
    BY <1>4, Firsts DEF Failing, At, First
  <2>2. At("OnDestroy", DoDestroyWindow(DoReturn))'
    BY <1>4, <2>1, Rests, CallsDestroy, ReturnStacks, Calls DEF DestructWin32Window
  <2>3. Object("Win32Window", TRUE, FALSE, "null")' /\ ~window'.deleting
        /\ ~window'.quit_on_close_
    BY <1>4, <2>1 DEF DestructWin32Window, TypeOK, Failing
  <2>4. Class(0, TRUE, TRUE)'
    BY <1>4, <2>1 DEF DestructWin32Window, CountedDown, TypeOK
  <2> QED
    BY <1>4, <2>1, <2>2, <2>3, <2>4 DEF DestructWin32Window, Failing
<1> QED
  BY <1>1, <1>2, <1>3, <1>4

LEMMA FailingDestroys ==
  ASSUME TypeOK, Failing, ShownInLoop,
         \/ OnDestroy \/ DestroyWindow \/ OnWmDestroy \/ UnregisterIfLast
         \/ PostQuitMessage
  PROVE  Failing'
<1> DEFINE quit == DoPostQuit(DoForget)
           there == /\ Object("Win32Window", TRUE, FALSE, "null") /\ NoChild
                    /\ ~window.deleting /\ Class(0, TRUE, TRUE)
           again == /\ Object("Win32Window", FALSE, FALSE, "null") /\ NoChild
                    /\ Dying /\ ~window.deleting
<1> USE DEF Object, NoChild, Class, Alive, Dying
<1>1. CASE OnDestroy
  <2>1. \/ At("OnDestroy", DoDestroyWindow(DoReturn)) /\ there /\ Alive
        \/ At("OnDestroy", DoDestroyWindow(quit)) /\ again /\ Class(0, TRUE, TRUE)
    BY <1>1, Firsts DEF Failing, At, First
  <2>2. Return /\ UNCHANGED <<window, hwnd, view, registrar, sys>>
    BY <1>1, <2>1 DEF OnDestroy
  <2>3. CASE At("OnDestroy", DoDestroyWindow(DoReturn)) /\ there /\ Alive
    <3>1. At("DestroyWindow", DoUnregister(DoReturn))'
      BY <2>2, <2>3, ReturnStacks, Returns
    <3> QED
      BY <2>2, <2>3, <3>1 DEF Failing
  <2>4. CASE At("OnDestroy", DoDestroyWindow(quit)) /\ again /\ Class(0, TRUE, TRUE)
    <3>1. At("DestroyWindow", DoUnregister(quit))'
      BY <2>2, <2>4, FailStacks, Returns
    <3> QED
      BY <2>2, <2>4, <3>1 DEF Failing
  <2> QED
    BY <2>1, <2>3, <2>4
<1>2. CASE DestroyWindow
  <2>1. \/ At("DestroyWindow", DoUnregister(DoReturn)) /\ there /\ Alive
        \/ At("DestroyWindow", DoUnregister(quit)) /\ again /\ Class(0, TRUE, TRUE)
    BY <1>2, Firsts DEF Failing, At, First
  <2>2. CASE At("DestroyWindow", DoUnregister(DoReturn)) /\ there /\ Alive
    <3>1. DestroyHwnd /\ Call(DestroyMessages \o <<"ForgetHandle">>)
      BY <1>2, <2>2 DEF DestroyWindow
    <3>2. Dying'
      BY <2>2, <3>1 DEF DestroyHwnd, TypeOK
    <3>3. At("WM_DESTROY", DoNcDestroy(DoForget))'
      BY <2>2, <3>1, CallsForget, FailStacks, Calls DEF ShownInLoop, Failing
    <3> QED
      BY <1>2, <2>2, <3>2, <3>3 DEF DestroyWindow, Failing
  <2>3. CASE At("DestroyWindow", DoUnregister(quit)) /\ again /\ Class(0, TRUE, TRUE)
    <3>1. Return /\ UNCHANGED <<window, hwnd, view, registrar, sys>>
      BY <1>2, <2>3 DEF DestroyWindow
    <3>2. At("UnregisterIfLast", quit)'
      BY <2>3, <3>1, FailStacks, Returns
    <3> QED
      BY <2>3, <3>1, <3>2 DEF Failing
  <2> QED
    BY <2>1, <2>2, <2>3
<1>3. CASE OnWmDestroy
  <2>1. At("WM_DESTROY", DoNcDestroy(DoForget)) /\ there /\ Dying
    BY <1>3, Firsts DEF Failing, At, First
  <2>2. WhenClosed \o DoNcDestroy(DoForget) = DoDestroy(quit)
    BY Rests, MessageStacks, CallsDestroy DEF On, DoPostQuit
  <2>3. At("OnDestroy", DoDestroyWindow(quit))'
    BY <1>3, <2>1, <2>2, FailStacks, Calls DEF OnWmDestroy
  <2>4. Object("Win32Window", FALSE, FALSE, "null")' /\ ~window'.deleting
        /\ ~window'.quit_on_close_
    BY <1>3, <2>1 DEF OnWmDestroy, WithoutHandle, TypeOK, Failing
  <2> QED
    BY <1>3, <2>1, <2>3, <2>4 DEF OnWmDestroy, Failing
<1>4. CASE UnregisterIfLast
  <2>1. \/ /\ At("UnregisterIfLast", quit) /\ again /\ Class(0, TRUE, TRUE)
        \/ /\ At("UnregisterIfLast", DoReturn) /\ NoChild /\ ~window.deleting
           /\ Object("Win32Window", FALSE, FALSE, "null") /\ WindowGone
           /\ Class(0, FALSE, TRUE)
    BY <1>4, Firsts DEF Failing, At, First
  <2>2. CASE At("UnregisterIfLast", quit) /\ again /\ Class(0, TRUE, TRUE)
    <3>1. At("PostQuitMessage", DoNcDestroy(DoForget))'
      BY <1>4, <2>2, FailStacks, Returns DEF UnregisterIfLast
    <3>2. Class(0, FALSE, TRUE)'
      BY <1>4, <2>2 DEF UnregisterIfLast, TypeOK
    <3> QED
      BY <1>4, <2>2, <3>1, <3>2 DEF UnregisterIfLast, Failing
  <2>3. CASE /\ At("UnregisterIfLast", DoReturn) /\ NoChild /\ ~window.deleting
             /\ Object("Win32Window", FALSE, FALSE, "null") /\ WindowGone
             /\ Class(0, FALSE, TRUE)
    <3>1. At("return", << >>)'
      BY <1>4, <2>3, Bottoms, Returns DEF UnregisterIfLast
    <3>2. Class(0, FALSE, FALSE)'
      BY <1>4, <2>3 DEF UnregisterIfLast, WindowGone, TypeOK
    <3> QED
      BY <1>4, <2>3, <3>1, <3>2 DEF UnregisterIfLast, Failing, WindowGone
  <2> QED
    BY <2>1, <2>2, <2>3
<1>5. CASE PostQuitMessage
  <2>1. At("PostQuitMessage", DoNcDestroy(DoForget)) /\ again /\ Class(0, FALSE, TRUE)
    BY <1>5, Firsts DEF Failing, At, First
  <2>2. At("WM_NCDESTROY", DoForget)'
    BY <1>5, <2>1, FailStacks, Returns DEF PostQuitMessage
  <2>3. sys'.exit = "failure" /\ sys'.com
    BY <1>5 DEF PostQuitMessage, Failing, TypeOK
  <2> QED
    BY <1>5, <2>1, <2>2, <2>3 DEF PostQuitMessage, Failing
<1> QED
  BY <1>1, <1>2, <1>3, <1>4, <1>5

LEMMA FailingReturns ==
  ASSUME TypeOK, Failing, OnNcDestroy \/ ForgetHandle \/ ReturnFromMain
  PROVE  Failing' \/ Ended'
<1> USE DEF Object, NoChild, Class, WindowGone
<1>1. CASE OnNcDestroy
  <2>1. /\ At("WM_NCDESTROY", DoForget) /\ NoChild /\ ~window.deleting
        /\ Object("Win32Window", FALSE, FALSE, "null") /\ Dying
        /\ Class(0, FALSE, TRUE)
    BY <1>1, Firsts DEF Failing, At, First
  <2>2. At("ForgetHandle", DoUnregister(DoReturn))'
    BY <1>1, <2>1, EndStacks, Returns DEF OnNcDestroy
  <2>3. sys'.exit = "failure" /\ sys'.com
    BY <1>1 DEF OnNcDestroy, Failing, TypeOK
  <2>4. WindowGone' /\ NoChild'
    BY <1>1, <2>1 DEF OnNcDestroy, Dying, TypeOK
  <2> QED
    BY <1>1, <2>1, <2>2, <2>3, <2>4 DEF OnNcDestroy, Failing
<1>2. CASE ForgetHandle
  <2>1. /\ At("ForgetHandle", DoUnregister(DoReturn)) /\ NoChild /\ ~window.deleting
        /\ Object("Win32Window", FALSE, FALSE, "null") /\ WindowGone
        /\ Class(0, FALSE, TRUE)
    BY <1>2, Firsts DEF Failing, At, First
  <2>2. At("UnregisterIfLast", DoReturn)'
    BY <1>2, <2>1, ReturnStacks, Returns DEF ForgetHandle
  <2>3. Object("Win32Window", FALSE, FALSE, "null")' /\ ~window'.deleting
        /\ ~window'.quit_on_close_
    BY <1>2, <2>1 DEF ForgetHandle, WithoutHandle, TypeOK, Failing
  <2> QED
    BY <1>2, <2>1, <2>2, <2>3 DEF ForgetHandle, Failing
<1>3. CASE ReturnFromMain
  <2>1. /\ Object("Win32Window", FALSE, FALSE, "null") /\ WindowGone
        /\ Class(0, FALSE, FALSE) /\ NoChild /\ ~window.deleting
    BY <1>3, Firsts DEF Failing, At, First
  <2>2. window'.is = "none" /\ window'.flutter_controller_ = "null"
        /\ ~window'.deleting
    BY <1>3, <2>1 DEF ReturnFromMain, TypeOK
  <2>3. sys'.exit # "running"
    BY <1>3 DEF ReturnFromMain, Failing, TypeOK
  <2> QED
    BY <1>3, <2>1, <2>2, <2>3 DEF ReturnFromMain, Ended
<1> QED
  BY <1>1, <1>2, <1>3

LEMMA StepFailing ==
  ASSUME TypeOK, Failing, ShownInLoop, Step
  PROVE  Place'
<1>1. \/ DestructFlutterWindow \/ DeleteController \/ Deleted \/ DestructWin32Window
      \/ OnDestroy \/ DestroyWindow \/ OnWmDestroy \/ UnregisterIfLast
      \/ PostQuitMessage \/ OnNcDestroy \/ ForgetHandle \/ ReturnFromMain
  BY Firsts DEF Step, Failing, At, First
<1> QED
  BY <1>1, FailingDeletes, FailingDestroys, FailingReturns DEF Place

-----------------------------------------------------------------------------
(***************************************************************************)
(* Every step of the program keeps the thread in its place.                *)
(***************************************************************************)
LEMMA PlaceStays ==
  ASSUME Place, UNCHANGED <<todo, window, hwnd, registrar>>,
         view'.window = view.window, view'.parent = view.parent,
         sys'.exit = sys.exit, sys'.quit = sys.quit, sys'.com = sys.com
  PROVE  Place'
<1>1. \A step, rest : At(step, rest) => At(step, rest)'
  BY DEF At, First
<1>2. \A is, handle, child, controller :
        Object(is, handle, child, controller) => Object(is, handle, child, controller)'
  BY DEF Object
<1>3. \A count, registered, known :
        Class(count, registered, known) => Class(count, registered, known)'
  BY DEF Class
<1>4. /\ NoWindow => NoWindow'
      /\ Alive => Alive'
      /\ Dying => Dying'
      /\ WindowGone => WindowGone'
      /\ NoChild => NoChild'
      /\ Child => Child'
  BY DEF NoWindow, Alive, Dying, WindowGone, NoChild, Child
<1>5. Running => Running'
  BY <1>2, <1>4 DEF Running
<1>6. CASE Starting
  <2>1. Starting'
    BY <1>6 DEF Starting, At, First, Object, Class, NoWindow, Alive, NoChild, Child
  <2> QED
    BY <2>1 DEF Place
<1>7. CASE Looping
  BY <1>1, <1>2, <1>3, <1>4, <1>5, <1>7 DEF Place, Looping
<1>8. CASE Leaving
  BY <1>1, <1>3, <1>4, <1>8 DEF Place, Leaving, Object
<1>9. CASE Failing
  BY <1>1, <1>2, <1>3, <1>4, <1>9 DEF Place, Failing
<1>10. CASE Ended
  BY <1>3, <1>4, <1>10 DEF Place, Ended
<1> QED
  BY <1>6, <1>7, <1>8, <1>9, <1>10 DEF Place

LEMMA StepPlace ==
  ASSUME TypeOK, Place, TaskHasView, ShownInLoop, [Next]_vars
  PROVE  Place'
<1>1. CASE UNCHANGED vars
  BY <1>1, PlaceStays DEF vars
<1>2. CASE Step
  <2>1. CASE Ended
    BY <1>2, <2>1, Firsts DEF Step, Ended, First
  <2> QED
    BY <1>2, <2>1, StepStarting, StepLooping, StepLeaving, StepFailing DEF Place
<1>3. CASE Loop \/ GetFrameTask
  <2>1. First("GetMessage")
    BY <1>3 DEF Loop, GetMessage, GetFrameTask
  <2>2. Looping
    BY <2>1 DEF Place, Starting, Leaving, Failing, Ended, At, First
  <2> QED
    BY <1>3, <2>2, LoopGets DEF Place
<1>4. CASE ChangeTheme
  <2>1. UNCHANGED <<todo, window, hwnd, view, registrar>>
    BY <1>4 DEF ChangeTheme
  <2>2. sys'.exit = sys.exit /\ sys'.quit = sys.quit /\ sys'.com = sys.com
    BY <1>4 DEF ChangeTheme, TypeOK
  <2> QED
    BY <2>1, <2>2, PlaceStays
<1>5. CASE DrawFrame
  <2>1. UNCHANGED <<todo, window, hwnd, registrar, sys>>
    BY <1>5 DEF DrawFrame
  <2>2. view'.window = view.window /\ view'.parent = view.parent
    BY <1>5 DEF DrawFrame, TypeOK
  <2> QED
    BY <2>1, <2>2, PlaceStays
<1> QED
  BY <1>1, <1>2, <1>3, <1>4, <1>5 DEF Next

-----------------------------------------------------------------------------
(***************************************************************************)
(* The other parts of the invariant, each with the actions that touch it.  *)
(***************************************************************************)
LEMMA StepShown ==
  ASSUME TypeOK, Place, ShownInLoop, [Next]_vars
  PROVE  ShownInLoop'
<1> USE DEF ShownInLoop
<1>0. hwnd \in Windows
  BY DEF TypeOK
<1>1. CASE Show
  <2>1. window.quit_on_close_
    BY <1>1, Firsts DEF Place, Starting, Looping, Leaving, Failing, Ended, At, First
  <2> QED
    BY <1>1, <2>1 DEF Show
<1>2. CASE OnNcDestroy
  BY <1>2 DEF OnNcDestroy, TypeOK
<1>3. CASE SetQuitOnClose
  BY <1>3 DEF SetQuitOnClose, TypeOK
<1>4. CASE \/ CreateWindow \/ UpdateTheme \/ OnColorChanged \/ OnDpiChanged \/ OnClose
           \/ DestroyWindow
  <2>1. UNCHANGED window
    BY <1>4 DEF CreateWindow, UpdateTheme, OnColorChanged, OnDpiChanged, OnClose,
      DestroyWindow
  <2>2. hwnd'.shown = hwnd.shown
    <3>1. CASE CreateWindow \/ OnDpiChanged
      <4>1. PICK size : \/ hwnd' = [hwnd EXCEPT !.size = size]
                       \/ hwnd' = [hwnd EXCEPT !.life = "alive", !.size = size]
        BY <3>1 DEF CreateWindow, OnDpiChanged
      <4> QED
        BY <1>0, <4>1
    <3>2. CASE UpdateTheme \/ OnColorChanged
      BY <1>0, <3>2 DEF UpdateTheme, OnColorChanged, Themed
    <3>3. CASE OnClose \/ DestroyWindow
      BY <1>0, <3>3 DEF OnClose, DestroyWindow, DestroyHwnd
    <3> QED
      BY <1>4, <3>1, <3>2, <3>3
  <2> QED
    BY <2>1, <2>2
<1>5. CASE Loop
  <2>1. PICK m : GetMessage(m)
    BY <1>5 DEF Loop
  <2>2. \/ UNCHANGED hwnd
        \/ \E size : hwnd' = [hwnd EXCEPT !.size = size]
    BY <2>1 DEF GetMessage
  <2>3. hwnd'.shown = hwnd.shown
    BY <1>0, <2>2
  <2> QED
    BY <2>1, <2>3 DEF GetMessage
<1>6. ASSUME UNCHANGED hwnd, window'.quit_on_close_ = window.quit_on_close_
      PROVE  ShownInLoop'
  BY <1>6
<1>7. CASE \/ GetArguments \/ ArgumentsThrow \/ GetWindowClass \/ CreateWindowFails
           \/ SetNextFrameCallback \/ ForceRedraw \/ DeleteController
           \/ UnregisterIfLast \/ NoObject \/ FlutterTakes \/ PostQuitMessage
           \/ OnSize \/ OnOther \/ GetQuit \/ GetFrameTask \/ ChangeTheme \/ DrawFrame
  BY <1>6, <1>7 DEF GetArguments, ArgumentsThrow, GetWindowClass, CreateWindowFails,
    SetNextFrameCallback, ForceRedraw, DeleteController, UnregisterIfLast, NoObject,
    FlutterTakes, PostQuitMessage, OnSize, OnOther, GetQuit, GetFrameTask, ChangeTheme,
    DrawFrame
<1>8. CASE \/ Construct \/ OnCreate \/ OnCreateFails \/ SetChildContent \/ OnDestroy
           \/ Deleted \/ ForgetHandle \/ DestructFlutterWindow \/ DestructWin32Window
           \/ ReturnFromMain \/ NcCreate \/ OnWmDestroy
  <2>1. window'.quit_on_close_ = window.quit_on_close_
    BY <1>8 DEF Construct, OnCreate, OnCreateFails, SetChildContent, OnDestroy,
      Forgotten, Deleted, ForgetHandle, WithoutHandle, DestructFlutterWindow,
      DestructWin32Window, ReturnFromMain, NcCreate, OnWmDestroy, TypeOK
  <2>2. hwnd'.shown = hwnd.shown
    BY <1>8 DEF Construct, OnCreate, OnCreateFails, SetChildContent, OnDestroy,
      Deleted, ForgetHandle, DestructFlutterWindow,
      DestructWin32Window, ReturnFromMain, NcCreate, OnWmDestroy, TypeOK
  <2> QED
    BY <2>1, <2>2
<1>9. CASE UNCHANGED vars
  BY <1>9 DEF vars
<1> QED
  BY <1>1, <1>2, <1>3, <1>4, <1>5, <1>7, <1>8, <1>9 DEF Next, Step

(***************************************************************************)
(* What the place says at some steps.                                      *)
(***************************************************************************)
LEMMA AtStep ==
  ASSUME Place
  PROVE  /\ First("WM_GETMINMAXINFO") => At("WM_GETMINMAXINFO", DoNcCreate)
         /\ First("WM_NCCREATE") => At("WM_NCCREATE", DoUpdateTheme)
         /\ \/ First("CreateWindow") \/ First("OnCreate") \/ First("WM_NCDESTROY")
            => NoChild
         /\ First("WM_SIZE") => At("WM_SIZE", DoLoop) /\ Running
         /\ First("WM_DPICHANGED") => At("WM_DPICHANGED", DoLoop)
         /\ First("GetMessage") => At("GetMessage", << >>)
         /\ (window.flutter_controller_ = "ok" /\ ~window.deleting) => view.window
<1>1. CASE Starting
  BY <1>1 DEF Starting, At, First, Object, NoChild, Child
<1>2. CASE Looping
  BY <1>2 DEF Looping, Running, At, First, Object, NoChild, Child, LoopMessages
<1>3. CASE Leaving
  BY <1>3 DEF Leaving, At, First, Object
<1>4. CASE Failing
  BY <1>4 DEF Failing, At, First, Object
<1>5. CASE Ended
  BY <1>5 DEF Ended, First
<1> QED
  BY <1>1, <1>2, <1>3, <1>4, <1>5 DEF Place

LEMMA StepTask ==
  ASSUME TypeOK, Place, TaskHasView, [Next]_vars
  PROVE  TaskHasView'
<1> USE DEF TaskHasView
<1>0. view \in Views
  BY DEF TypeOK
<1>1. CASE DeleteController \/ GetFrameTask
  <2>1. CASE DeleteController
    BY <1>0, <2>1 DEF DeleteController
  <2>2. CASE GetFrameTask
    BY <1>0, <2>2 DEF GetFrameTask
  <2> QED
    BY <1>1, <2>1, <2>2
<1>2. CASE OnCreate \/ OnCreateFails \/ OnNcDestroy
  <2>1. ~view.task
    BY <1>2, Firsts, AtStep DEF NoChild
  <2>2. view'.task = view.task
    <3>1. CASE OnCreate \/ OnCreateFails
      BY <1>0, <3>1 DEF OnCreate, OnCreateFails
    <3>2. CASE OnNcDestroy
      BY <1>0, <3>2 DEF OnNcDestroy
    <3> QED
      BY <1>2, <3>1, <3>2
  <2> QED
    BY <2>1, <2>2
<1>3. CASE SetChildContent \/ SetNextFrameCallback \/ ForceRedraw \/ OnSize
  <2>1. view'.task = view.task /\ view'.window = view.window
    <3>1. CASE SetChildContent \/ OnSize
      BY <1>0, <3>1 DEF SetChildContent, OnSize, FitChild, Fit
    <3>2. CASE SetNextFrameCallback \/ ForceRedraw
      BY <1>0, <3>2 DEF SetNextFrameCallback, ForceRedraw, Forced
    <3> QED
      BY <1>3, <3>1, <3>2
  <2> QED
    BY <2>1
<1>4. CASE DrawFrame
  <2>1. view.window /\ view'.window = view.window
    BY <1>0, <1>4, AtStep DEF DrawFrame
  <2> QED
    BY <2>1
<1>5. CASE \/ GetArguments \/ ArgumentsThrow \/ Construct \/ SetQuitOnClose
           \/ GetWindowClass \/ CreateWindow \/ CreateWindowFails \/ UpdateTheme
           \/ Show \/ OnDestroy \/ Deleted \/ DestroyWindow \/ ForgetHandle
           \/ UnregisterIfLast \/ DestructFlutterWindow \/ DestructWin32Window
  BY <1>5 DEF GetArguments, ArgumentsThrow, Construct, SetQuitOnClose,
    GetWindowClass, CreateWindow, CreateWindowFails, UpdateTheme, Show, OnDestroy,
    Deleted, DestroyWindow, ForgetHandle, UnregisterIfLast, DestructFlutterWindow,
    DestructWin32Window
<1>6. CASE \/ ReturnFromMain \/ NcCreate \/ NoObject \/ FlutterTakes \/ OnWmDestroy
           \/ PostQuitMessage \/ OnDpiChanged \/ OnColorChanged \/ OnOther \/ OnClose
           \/ GetQuit \/ ChangeTheme \/ UNCHANGED vars
  BY <1>6 DEF ReturnFromMain, NcCreate, NoObject, FlutterTakes, OnWmDestroy,
    PostQuitMessage, OnDpiChanged, OnColorChanged, OnOther, OnClose, GetQuit,
    ChangeTheme, vars
<1>7. CASE Loop
  BY <1>7 DEF Loop, GetMessage, Recolored
<1> QED
  BY <1>1, <1>2, <1>3, <1>4, <1>5, <1>6, <1>7 DEF Next, Step

LEMMA StepNotice ==
  ASSUME TypeOK, Place, NoticeToAlive, [Next]_vars
  PROVE  NoticeToAlive'
<1> USE DEF NoticeToAlive
<1>1. CASE OnNcDestroy
  BY <1>1 DEF OnNcDestroy, TypeOK
<1>2. CASE CreateWindow
  BY <1>2 DEF CreateWindow, TypeOK
<1>3. CASE OnClose \/ DestroyWindow
  <2>1. UNCHANGED hwnd \/ hwnd'.life = "destroying"
    <3>1. UNCHANGED hwnd \/ DestroyHwnd
      BY <1>3 DEF OnClose, DestroyWindow
    <3>2. hwnd \in Windows
      BY DEF TypeOK
    <3> QED
      BY <3>1, <3>2 DEF DestroyHwnd
  <2>2. UNCHANGED sys
    BY <1>3 DEF OnClose, DestroyWindow
  <2> QED
    BY <2>1, <2>2
<1>4. CASE UpdateTheme \/ OnColorChanged \/ Show \/ NcCreate \/ OnDpiChanged
  <2>1. hwnd \in Windows
    BY DEF TypeOK
  <2>2. \/ \E dark : hwnd' = [hwnd EXCEPT !.dark = dark]
        \/ \E yes : hwnd' = [hwnd EXCEPT !.shown = yes]
        \/ \E that : hwnd' = [hwnd EXCEPT !.that = that]
        \/ \E size : hwnd' = [hwnd EXCEPT !.size = size]
        \/ UNCHANGED hwnd
    BY <1>4 DEF UpdateTheme, OnColorChanged, Show, NcCreate, OnDpiChanged, Themed
  <2>3. hwnd'.life = hwnd.life
    BY <2>1, <2>2
  <2>4. UNCHANGED sys
    BY <1>4 DEF UpdateTheme, OnColorChanged, Show, NcCreate, OnDpiChanged
  <2> QED
    BY <2>3, <2>4
<1>5. CASE \/ GetArguments \/ ArgumentsThrow \/ CreateWindowFails \/ OnCreateFails
           \/ PostQuitMessage \/ ReturnFromMain \/ GetQuit
  <2>1. sys \in Systems
    BY DEF TypeOK
  <2>2. \/ \E com, exit : sys' = [sys EXCEPT !.com = com, !.exit = exit]
        \/ \E exit : sys' = [sys EXCEPT !.exit = exit]
        \/ \E com : sys' = [sys EXCEPT !.com = com]
        \/ \E quit : sys' = [sys EXCEPT !.quit = quit]
    BY <1>5 DEF GetArguments, ArgumentsThrow, CreateWindowFails, OnCreateFails,
      PostQuitMessage, ReturnFromMain, GetQuit, ExitFailure
  <2>3. sys'.notice = sys.notice
    BY <2>1, <2>2
  <2>4. UNCHANGED hwnd
    BY <1>5 DEF GetArguments, ArgumentsThrow, CreateWindowFails, OnCreateFails,
      PostQuitMessage, ReturnFromMain, GetQuit
  <2> QED
    BY <2>3, <2>4
<1>6. CASE ChangeTheme
  BY <1>6 DEF ChangeTheme, TypeOK
<1>7. CASE Loop
  <2>1. PICK m \in LoopMessages : GetMessage(m)
    BY <1>7 DEF Loop, LoopMessages, Recolored
  <2>2. hwnd'.life = "alive"
    BY <2>1 DEF GetMessage, TypeOK
  <2> QED
    BY <2>2
<1>8. ASSUME UNCHANGED <<hwnd, sys>> PROVE NoticeToAlive'
  BY <1>8
<1>9. CASE \/ Construct \/ SetQuitOnClose \/ GetWindowClass \/ OnCreate
           \/ SetChildContent \/ SetNextFrameCallback \/ ForceRedraw \/ OnDestroy
           \/ DeleteController \/ Deleted \/ ForgetHandle \/ UnregisterIfLast
           \/ DestructFlutterWindow \/ DestructWin32Window
  BY <1>8, <1>9 DEF Construct, SetQuitOnClose, GetWindowClass, OnCreate,
    SetChildContent, SetNextFrameCallback, ForceRedraw, OnDestroy, DeleteController,
    Deleted, ForgetHandle, UnregisterIfLast, DestructFlutterWindow,
    DestructWin32Window
<1>10. CASE \/ NoObject \/ FlutterTakes \/ OnWmDestroy \/ OnSize \/ OnOther
            \/ GetFrameTask \/ DrawFrame \/ UNCHANGED vars
  BY <1>8, <1>10 DEF NoObject, FlutterTakes, OnWmDestroy, OnSize, OnOther,
    GetFrameTask, DrawFrame, vars
<1> QED
  BY <1>1, <1>2, <1>3, <1>4, <1>5, <1>6, <1>7, <1>9, <1>10 DEF Next, Step

(***************************************************************************)
(* The sizes differ only while a WM_SIZE is the next step.                 *)
(***************************************************************************)
LEMMA StepFits ==
  ASSUME TypeOK, Place, Fits, [Next]_vars
  PROVE  Fits'
<1>1. CASE DeleteController \/ OnNcDestroy \/ OnCreateFails \/ OnCreate \/ CreateWindow
  <2>1. ~view'.parent
    <3>1. view \in Views
      BY DEF TypeOK
    <3>2. CASE DeleteController
      BY <3>1, <3>2 DEF DeleteController
    <3>3. CASE OnNcDestroy
      BY <3>1, <3>3 DEF OnNcDestroy
    <3>4. CASE OnCreateFails \/ OnCreate \/ CreateWindow
      <4>1. ~view.parent
        BY <3>4, Firsts, AtStep DEF NoChild
      <4> QED
        BY <3>1, <3>4, <4>1 DEF OnCreateFails, OnCreate, CreateWindow
    <3> QED
      BY <1>1, <3>2, <3>3, <3>4
  <2> QED
    BY <2>1 DEF Fits
<1>2. CASE SetChildContent
  <2>1. view'.size = hwnd'.size
    BY <1>2 DEF SetChildContent, Fit, TypeOK
  <2> QED
    BY <2>1 DEF Fits
<1>3. CASE OnSize
  <2>1. window.child_content_
    BY <1>3, Firsts, AtStep DEF Running, Object
  <2>2. view'.size = hwnd'.size
    BY <1>3, <2>1 DEF OnSize, FitChild, Fit, TypeOK
  <2> QED
    BY <2>2 DEF Fits
<1>4. CASE OnDpiChanged
  <2>1. At("WM_DPICHANGED", DoLoop)
    BY <1>4, Firsts, AtStep
  <2>2. On("WM_SIZE", <<"WM_SIZE">> \o DoLoop, DoLoop)
    BY LoopStacks DEF Then, LoopMessages
  <2>3. At("WM_SIZE", DoLoop)'
    BY <1>4, <2>1, <2>2, Calls DEF OnDpiChanged
  <2> QED
    BY <2>3 DEF Fits
<1>5. CASE Loop
  <2>1. PICK m \in LoopMessages : GetMessage(m)
    BY <1>5 DEF Loop, LoopMessages, Recolored
  <2>2. First("GetMessage")
    BY <2>1 DEF GetMessage
  <2>3. CASE m = "WM_SIZE"
    <3>1. At("WM_SIZE", DoLoop)'
      BY <2>1, <2>2, <2>3, AtStep, Gets DEF GetMessage, TypeOK
    <3> QED
      BY <3>1 DEF Fits
  <2>4. CASE m # "WM_SIZE"
    <3>1. UNCHANGED <<hwnd, view>>
      BY <2>1, <2>4 DEF GetMessage, Recolored
    <3>2. ~At("WM_SIZE", DoLoop)
      BY <2>2 DEF At, First
    <3> QED
      BY <3>1, <3>2 DEF Fits
  <2> QED
    BY <2>3, <2>4
<1>6. ASSUME UNCHANGED todo, hwnd'.size = hwnd.size, view'.size = view.size,
             view'.parent = view.parent
      PROVE  Fits'
  BY <1>6 DEF Fits, At, First
<1>7. CASE ChangeTheme \/ DrawFrame \/ UNCHANGED vars
  <2>1. view'.size = view.size /\ view'.parent = view.parent
    <3>1. view \in Views
      BY DEF TypeOK
    <3> QED
      BY <1>7, <3>1 DEF ChangeTheme, DrawFrame, vars
  <2>2. UNCHANGED <<todo, hwnd>>
    BY <1>7 DEF ChangeTheme, DrawFrame, vars
  <2> QED
    BY <1>6, <2>1, <2>2
<1>8. ASSUME ~First("WM_SIZE"), hwnd'.size = hwnd.size, view'.size = view.size,
             view'.parent = view.parent
      PROVE  Fits'
  BY <1>8 DEF Fits, At
<1>9. CASE \/ SetNextFrameCallback \/ ForceRedraw \/ GetFrameTask
           \/ UpdateTheme \/ Show \/ DestroyWindow \/ NcCreate \/ OnColorChanged
           \/ OnClose
  <2>1. hwnd'.size = hwnd.size
    <3>1. hwnd \in Windows
      BY DEF TypeOK
    <3>2. CASE SetNextFrameCallback \/ ForceRedraw \/ GetFrameTask
      BY <3>2 DEF SetNextFrameCallback, ForceRedraw, GetFrameTask
    <3>3. CASE UpdateTheme \/ OnColorChanged
      BY <3>1, <3>3 DEF UpdateTheme, OnColorChanged, Themed
    <3>4. CASE Show \/ NcCreate
      BY <3>1, <3>4 DEF Show, NcCreate
    <3>5. CASE DestroyWindow \/ OnClose
      BY <3>1, <3>5 DEF DestroyWindow, OnClose, DestroyHwnd
    <3> QED
      BY <1>9, <3>2, <3>3, <3>4, <3>5
  <2>2. view'.size = view.size /\ view'.parent = view.parent
    <3>1. view \in Views
      BY DEF TypeOK
    <3>2. CASE SetNextFrameCallback \/ ForceRedraw \/ GetFrameTask
      BY <3>1, <3>2 DEF SetNextFrameCallback, ForceRedraw, Forced, GetFrameTask
    <3>3. UNCHANGED view \/ SetNextFrameCallback \/ ForceRedraw \/ GetFrameTask
      BY <1>9 DEF UpdateTheme, Show, DestroyWindow, NcCreate, OnColorChanged, OnClose
    <3> QED
      BY <3>2, <3>3
  <2>3. ~First("WM_SIZE")
    BY <1>9, Firsts DEF First, GetFrameTask
  <2> QED
    BY <1>8, <2>1, <2>2, <2>3
<1>10. CASE \/ GetArguments \/ ArgumentsThrow \/ Construct \/ SetQuitOnClose
            \/ GetWindowClass \/ CreateWindowFails \/ OnDestroy \/ Deleted
            \/ ForgetHandle \/ UnregisterIfLast \/ DestructFlutterWindow
            \/ DestructWin32Window
  <2>1. ~First("WM_SIZE")
    BY <1>10, Firsts DEF First
  <2>2. UNCHANGED <<hwnd, view>>
    BY <1>10 DEF GetArguments, ArgumentsThrow, Construct, SetQuitOnClose,
      GetWindowClass, CreateWindowFails, OnDestroy, Deleted, ForgetHandle,
      UnregisterIfLast, DestructFlutterWindow, DestructWin32Window
  <2> QED
    BY <1>8, <2>1, <2>2
<1>11. CASE \/ ReturnFromMain \/ NoObject \/ FlutterTakes \/ OnWmDestroy
            \/ PostQuitMessage \/ OnOther \/ GetQuit
  <2>1. ~First("WM_SIZE")
    BY <1>11, Firsts DEF First
  <2>2. UNCHANGED <<hwnd, view>>
    BY <1>11 DEF ReturnFromMain, NoObject, FlutterTakes, OnWmDestroy,
      PostQuitMessage, OnOther, GetQuit
  <2> QED
    BY <1>8, <2>1, <2>2
<1> QED
  BY <1>1, <1>2, <1>3, <1>4, <1>5, <1>7, <1>9, <1>10, <1>11 DEF Next, Step

(***************************************************************************)
(* The frame differs from the registry only from CreateWindow to           *)
(* UpdateTheme, and while the notice of a change is pending or handled.    *)
(***************************************************************************)
LEMMA StepThemes ==
  ASSUME TypeOK, Place, Themes, [Next]_vars
  PROVE  Themes'
<1> DEFINE recolor == "WM_DWMCOLORIZATIONCOLORCHANGED"
           late == \/ First("WM_GETMINMAXINFO") \/ First("WM_NCCREATE")
                   \/ First("UpdateTheme") \/ First(recolor)
<1>1. CASE CreateWindow
  <2>1. At("WM_GETMINMAXINFO", DoNcCreate)'
    <3>1. At("CreateWindow", DoUpdateTheme)
      BY <1>1, Firsts DEF Place, Starting, Looping, Leaving, Failing, Ended, At, First,
        LoopMessages
    <3>2. <<"WM_GETMINMAXINFO", "WM_NCCREATE">> \o DoUpdateTheme = DoGetMinMaxInfo
      BY Rests, CallsOthers DEF DoGetMinMaxInfo, DoNcCreate
    <3> QED
      BY <1>1, <3>1, <3>2, StartStacks, Calls DEF CreateWindow
  <2> QED
    BY <2>1 DEF Themes
<1>2. CASE NoObject
  <2>1. At("WM_NCCREATE", DoUpdateTheme)'
    BY <1>2, Firsts, AtStep, StartStacks, Returns DEF NoObject
  <2> QED
    BY <2>1 DEF Themes
<1>3. CASE NcCreate
  <2>1. At("UpdateTheme", DoOnCreate)'
    BY <1>3, Firsts, AtStep, StartStacks, Returns DEF NcCreate
  <2> QED
    BY <2>1 DEF Themes
<1>4. CASE UpdateTheme \/ OnColorChanged
  <2>1. hwnd' = Themed(hwnd) /\ UNCHANGED sys
    BY <1>4 DEF UpdateTheme, OnColorChanged
  <2>2. sys.brightness # "missing" => (hwnd'.dark <=> sys.brightness = "dark")
    BY <2>1 DEF Themed, TypeOK
  <2> QED
    BY <2>1, <2>2 DEF Themes
<1>5. CASE ChangeTheme
  <2>1. hwnd'.life = "alive" => sys'.notice
    BY <1>5 DEF ChangeTheme, TypeOK
  <2> QED
    BY <2>1 DEF Themes
<1>6. CASE OnNcDestroy
  <2>1. hwnd'.life = "gone"
    BY <1>6 DEF OnNcDestroy, TypeOK
  <2> QED
    BY <2>1 DEF Themes
<1>7. ASSUME ~late \/ UNCHANGED todo,
             hwnd'.life # "alive" \/ hwnd'.life = hwnd.life,
             hwnd'.dark = hwnd.dark, sys'.notice = sys.notice,
             sys'.brightness = sys.brightness
      PROVE  Themes'
  BY <1>7 DEF Themes, At, First
<1>8. CASE Loop
  <2>1. PICK m \in LoopMessages : GetMessage(m)
    BY <1>8 DEF Loop, LoopMessages, Recolored
  <2>2. First("GetMessage")
    BY <2>1 DEF GetMessage
  <2>3. CASE m = recolor
    <3>1. At(recolor, DoLoop)'
      BY <2>1, <2>2, <2>3, AtStep, Gets DEF GetMessage, TypeOK
    <3> QED
      BY <3>1 DEF Themes
  <2>4. CASE m # recolor
    <3>1. UNCHANGED sys /\ hwnd'.life = hwnd.life /\ hwnd'.dark = hwnd.dark
      BY <2>1, <2>4 DEF GetMessage, Recolored, TypeOK
    <3>2. ~late
      BY <2>2 DEF First
    <3> QED
      BY <1>7, <3>1, <3>2
  <2> QED
    BY <2>3, <2>4
<1>9. CASE \/ Show \/ OnDpiChanged \/ DestroyWindow \/ OnClose
  <2>1. ~late
    BY <1>9, Firsts DEF First
  <2>2. /\ UNCHANGED sys
        /\ \/ UNCHANGED hwnd
           \/ \E yes : hwnd' = [hwnd EXCEPT !.shown = yes]
           \/ \E size : hwnd' = [hwnd EXCEPT !.size = size]
           \/ DestroyHwnd
    BY <1>9 DEF Show, OnDpiChanged, DestroyWindow, OnClose
  <2>3. hwnd \in Windows
    BY DEF TypeOK
  <2>4. hwnd'.dark = hwnd.dark /\ (hwnd'.life # "alive" \/ hwnd'.life = hwnd.life)
    BY <2>2, <2>3 DEF DestroyHwnd
  <2> QED
    BY <1>7, <2>1, <2>2, <2>4
<1>10. CASE \/ GetArguments \/ ArgumentsThrow \/ CreateWindowFails \/ OnCreateFails
            \/ PostQuitMessage \/ ReturnFromMain \/ GetQuit
  <2>1. ~late
    BY <1>10, Firsts DEF First
  <2>2. UNCHANGED hwnd
    BY <1>10 DEF GetArguments, ArgumentsThrow, CreateWindowFails, OnCreateFails,
      PostQuitMessage, ReturnFromMain, GetQuit
  <2>3. sys'.notice = sys.notice /\ sys'.brightness = sys.brightness
    <3>1. sys \in Systems
      BY DEF TypeOK
    <3>2. \/ \E com, exit : sys' = [sys EXCEPT !.com = com, !.exit = exit]
          \/ \E exit : sys' = [sys EXCEPT !.exit = exit]
          \/ \E com : sys' = [sys EXCEPT !.com = com]
          \/ \E quit : sys' = [sys EXCEPT !.quit = quit]
      BY <1>10 DEF GetArguments, ArgumentsThrow, CreateWindowFails, OnCreateFails,
        ExitFailure, PostQuitMessage, ReturnFromMain, GetQuit
    <3> QED
      BY <3>1, <3>2
  <2> QED
    BY <1>7, <2>1, <2>2, <2>3
<1>11. CASE \/ Construct \/ SetQuitOnClose \/ GetWindowClass \/ OnCreate
            \/ SetChildContent \/ SetNextFrameCallback \/ ForceRedraw \/ OnDestroy
            \/ DeleteController \/ Deleted \/ ForgetHandle \/ UnregisterIfLast
            \/ DestructFlutterWindow \/ DestructWin32Window
  <2>1. ~late
    BY <1>11, Firsts DEF First
  <2>2. UNCHANGED <<hwnd, sys>>
    BY <1>11 DEF Construct, SetQuitOnClose, GetWindowClass, OnCreate,
      SetChildContent, SetNextFrameCallback, ForceRedraw, OnDestroy, DeleteController,
      Deleted, ForgetHandle, UnregisterIfLast, DestructFlutterWindow,
      DestructWin32Window
  <2> QED
    BY <1>7, <2>1, <2>2
<1>12. CASE \/ FlutterTakes \/ OnWmDestroy \/ OnSize \/ OnOther \/ GetFrameTask
  <2>1. ~late
    BY <1>12, Firsts DEF First, GetFrameTask
  <2>2. UNCHANGED <<hwnd, sys>>
    BY <1>12 DEF FlutterTakes, OnWmDestroy, OnSize, OnOther, GetFrameTask
  <2> QED
    BY <1>7, <2>1, <2>2
<1>13. CASE DrawFrame \/ UNCHANGED vars
  <2>1. UNCHANGED <<todo, hwnd, sys>>
    BY <1>13 DEF DrawFrame, vars
  <2> QED
    BY <1>7, <2>1
<1> QED
  BY <1>1, <1>2, <1>3, <1>4, <1>5, <1>6, <1>8, <1>9, <1>10, <1>11, <1>12, <1>13
  DEF Next, Step

-----------------------------------------------------------------------------
(***************************************************************************)
(* The arguments: what the conversion computes is a string of bytes, and   *)
(* the encoding of what is UTF-16.                                         *)
(***************************************************************************)
LEMMA LeastExists ==
  ASSUME NEW I, I \subseteq Nat, I # {}
  PROVE  \E i \in I : \A j \in I : i <= j
<1>1. PICK x \in I : \A y \in I : ~(<<y, x>> \in OpToRel(<, Nat))
  BY NatLessThanWellFounded, WFMin
<1>2. ASSUME NEW y \in I
      PROVE  x <= y
  <2> SUFFICES ASSUME y < x PROVE FALSE
    OBVIOUS
  <2>1. <<y, x>> \in Nat \X Nat /\ <<y, x>>[1] < <<y, x>>[2]
    OBVIOUS
  <2>2. <<y, x>> \in OpToRel(<, Nat)
    BY <2>1, Zenon DEF OpToRel
  <2> QED
    BY <1>1, <2>2
<1> QED
  BY <1>2

(***************************************************************************)
(* f holds, at each place, all of the sequences up to that place in a row. *)
(***************************************************************************)
Rows(f, seqs, m) ==
  f = [i \in 1 .. m |-> IF i = 1 THEN seqs[i] ELSE f[i - 1] \o seqs[i]]

LEMMA RowsExist ==
  ASSUME NEW seqs, NEW m \in Nat
  PROVE  \E f : Rows(f, seqs, m)
<1> DEFINE Missing == {n \in Nat : ~\E f : Rows(f, seqs, n)}
<1> SUFFICES ASSUME Missing # {} PROVE FALSE
  OBVIOUS
<1>1. PICK n \in Missing : \A k \in Missing : n <= k
  BY LeastExists
<1>2. n \in Nat /\ \A k \in Nat : k < n => k \notin Missing
  BY <1>1
<1>3. CASE n = 0
  <2> DEFINE f == [i \in 1 .. 0 |-> {}]
  <2>1. f = [i \in 1 .. 0 |-> IF i = 1 THEN seqs[i] ELSE f[i - 1] \o seqs[i]]
    OBVIOUS
  <2>2. Rows(f, seqs, 0)
    BY <2>1 DEF Rows
  <2> QED
    BY <1>1, <1>3, <2>2
<1>4. CASE n # 0
  <2>1. n - 1 \in Nat /\ n - 1 \notin Missing
    BY <1>2, <1>4
  <2>2. PICK f : Rows(f, seqs, n - 1)
    BY <2>1
  <2> DEFINE Row(g, i) == IF i = 1 THEN seqs[i] ELSE g[i - 1] \o seqs[i]
             g == [i \in 1 .. n |-> Row(f, i)]
  <2>3. \A i \in 1 .. n - 1 : f[i] = Row(f, i)
    BY <2>2 DEF Rows
  <2>4. \A i \in 1 .. n : Row(g, i) = Row(f, i)
    <3>1. \A i \in 1 .. n : i # 1 => i - 1 \in 1 .. n - 1 /\ i - 1 \in 1 .. n
      BY <1>2
    <3>2. \A i \in 1 .. n : i # 1 => g[i - 1] = f[i - 1]
      BY <2>3, <3>1
    <3> HIDE DEF g
    <3> QED
      BY <3>2
  <2>5. g = [i \in 1 .. n |-> Row(g, i)]
    BY <2>4
  <2>6. Rows(g, seqs, n)
    BY <2>5 DEF Rows
  <2> QED
    BY <1>1, <2>6
<1> QED
  BY <1>3, <1>4

LEMMA FunctionIsSequence ==
  ASSUME NEW S, NEW n \in Nat, NEW f \in [1 .. n -> S]
  PROVE  f \in Seq(S)
BY SeqDef

LEMMA JoinIsSequence ==
  ASSUME NEW S, NEW s \in Seq(S), NEW t \in Seq(S)
  PROVE  s \o t \in Seq(S) /\ Len(s \o t) = Len(s) + Len(t)
BY ConcatProperties

LEMMA FlattenIsSequence ==
  ASSUME NEW S, NEW seqs \in Seq(Seq(S))
  PROVE  FlattenSeq(seqs) \in Seq(S)
<1>1. CASE Len(seqs) = 0
  <2>1. seqs = << >>
    BY <1>1, EmptySeq
  <2> QED
    BY <1>1, <2>1 DEF FlattenSeq
<1>2. CASE Len(seqs) # 0
  <2> DEFINE flatten[i \in 1 .. Len(seqs)] ==
               IF i = 1 THEN seqs[i] ELSE flatten[i - 1] \o seqs[i]
  <2>1. FlattenSeq(seqs) = flatten[Len(seqs)]
    BY <1>2 DEF FlattenSeq
  <2>2. Len(seqs) \in Nat \ {0} /\ \A i \in 1 .. Len(seqs) : seqs[i] \in Seq(S)
    BY <1>2
  <2>3. \E f : f = [i \in 1 .. Len(seqs) |->
                      IF i = 1 THEN seqs[i] ELSE f[i - 1] \o seqs[i]]
    BY <2>2, RowsExist DEF Rows
  <2>4. flatten = [i \in 1 .. Len(seqs) |->
                     IF i = 1 THEN seqs[i] ELSE flatten[i - 1] \o seqs[i]]
    BY <2>3
  <2> HIDE DEF flatten
  <2> DEFINE Wrong == {i \in 1 .. Len(seqs) : flatten[i] \notin Seq(S)}
  <2>5. Wrong = {}
    <3> SUFFICES ASSUME Wrong # {} PROVE FALSE
      OBVIOUS
    <3>1. Wrong \subseteq Nat
      BY <2>2
    <3>2. PICK n \in Wrong : \A k \in Wrong : n <= k
      BY <3>1, LeastExists
    <3>3. n # 1
      BY <2>2, <2>4, <3>2
    <3>4. n - 1 \in 1 .. Len(seqs) /\ n - 1 \notin Wrong
      BY <2>2, <3>2, <3>3
    <3>5. flatten[n] = flatten[n - 1] \o seqs[n]
      BY <2>4, <3>2, <3>3
    <3>6. flatten[n - 1] \in Seq(S) /\ seqs[n] \in Seq(S)
      BY <2>2, <3>2, <3>4
    <3>7. flatten[n - 1] \o seqs[n] \in Seq(S)
      BY <3>6, JoinIsSequence
    <3> QED
      BY <3>2, <3>5, <3>7
  <2>6. Len(seqs) \in 1 .. Len(seqs)
    BY <2>2
  <2>7. flatten[Len(seqs)] \in Seq(S)
    BY <2>5, <2>6
  <2> QED
    BY <2>1, <2>7
<1> QED
  BY <1>1, <1>2

(***************************************************************************)
(* The UTF-8 of a string that is UTF-16, and nothing for another one.      *)
(***************************************************************************)
LEMMA EncodingIsBytes ==
  ASSUME NEW s \in Seq(Units)
  PROVE  Encoding(s) \in Seq(Bytes)
<1>1. \A unit \in Units : BytesOf(unit) \in Seq(Bytes)
  <2>1. <<"1/1">> \in Seq(Bytes)
    BY DEF Bytes
  <2>2. <<"1/2", "2/2">> \in Seq(Bytes)
    BY DEF Bytes
  <2>3. <<"1/4", "2/4", "3/4">> \in Seq(Bytes)
    BY DEF Bytes
  <2>4. <<"4/4">> \in Seq(Bytes)
    BY DEF Bytes
  <2> QED
    BY <2>1, <2>2, <2>3, <2>4 DEF Units, BytesOf
<1> DEFINE parts == [i \in DOMAIN s |-> BytesOf(s[i])]
<1>2. parts \in Seq(Seq(Bytes))
  <2>1. DOMAIN s = 1 .. Len(s) /\ Len(s) \in Nat /\ \A i \in 1 .. Len(s) : s[i] \in Units
    OBVIOUS
  <2>2. \A i \in 1 .. Len(s) : BytesOf(s[i]) \in Seq(Bytes)
    BY <1>1, <2>1
  <2>3. parts = [i \in 1 .. Len(s) |-> BytesOf(s[i])]
    BY <2>1
  <2>4. parts \in [1 .. Len(s) -> Seq(Bytes)]
    BY <2>2, <2>3
  <2> QED
    BY <2>1, <2>4, FunctionIsSequence
<1> HIDE DEF parts
<1>3. FlattenSeq(parts) \in Seq(Bytes)
  BY <1>2, FlattenIsSequence
<1> QED
  BY <1>3 DEF Encoding, parts

Converted(s) == IF WellFormed(s) THEN Encoding(s) ELSE << >>

LEMMA ConversionOf ==
  ASSUME NEW s \in Seq(Units), WellFormed(s) => Len(Encoding(s)) <= Plenty
  PROVE  /\ Utf8FromUtf16(s) = Converted(s) /\ Converted(s) \in Seq(Bytes)
         /\ MayThrow(s) => ~WellFormed(s)
<1>1. Encoding(s) \in Seq(Bytes)
  BY EncodingIsBytes
<1>2. CASE WellFormed(s)
  <2> DEFINE e == Encoding(s)
  <2> HIDE DEF e
  <2>1. e \in Seq(Bytes) /\ Len(e) \in Nat /\ Len(e) <= Plenty
    BY <1>1, <1>2 DEF e
  <2>2. WideCharToMultiByte(s, FALSE) = e
    BY <1>2, <2>1, ConcatEmptySeq DEF WideCharToMultiByte, e
  <2>3. Len(WideCharToMultiByte(s, TRUE)) = Len(e) + 1
    <3> DEFINE nul == <<"NUL">>
    <3>1. nul \in Seq(Bytes) /\ Len(nul) = 1
      BY DEF Bytes
    <3>2. WideCharToMultiByte(s, TRUE) = e \o nul
      BY <1>2 DEF WideCharToMultiByte, e
    <3> HIDE DEF nul
    <3> QED
      BY <2>1, <3>1, <3>2, JoinIsSequence
  <2>4. TargetLength(s) = Len(e)
    <3>1. Len(e) < UIntRange /\ UIntRange \in Nat \ {0}
      BY <2>1, UIntAssumption
    <3>2. Len(e) % UIntRange = Len(e)
      BY <2>1, <3>1
    <3>3. Len(WideCharToMultiByte(s, TRUE)) - 1 = Len(e)
      <4>1. \A k \in Nat : (k + 1) - 1 = k
        OBVIOUS
      <4> QED
        BY <2>1, <2>3, <4>1
    <3> QED
      BY <3>2, <3>3 DEF TargetLength
  <2>5. ~MayThrow(s)
    BY <2>1, <2>4, UIntAssumption DEF MayThrow
  <2>6. CASE e = << >>
    BY <1>2, <2>1, <2>2, <2>5, <2>6 DEF Utf8FromUtf16, Converted, e
  <2>7. CASE e # << >>
    <3>1. Len(e) # 0 /\ Len(e) <= MaxSize
      BY <2>1, <2>7, EmptySeq, UIntAssumption
    <3>2. Utf8FromUtf16(s) =
            [i \in 1 .. Len(e) |-> IF i <= Len(e) THEN e[i] ELSE "NUL"]
      <4>1. ~Refuses(Len(e))
        BY <2>1, <3>1, UIntAssumption DEF Refuses
      <4> QED
        BY <2>2, <2>4, <2>7, <4>1 DEF Utf8FromUtf16
    <3>3. e = [i \in 1 .. Len(e) |-> e[i]]
      BY <2>1
    <3>4. Utf8FromUtf16(s) = e
      BY <2>1, <3>2, <3>3
    <3> QED
      BY <1>2, <2>1, <2>5, <3>4 DEF Converted, e
  <2> QED
    BY <2>6, <2>7
<1>3. CASE ~WellFormed(s)
  <2>1. WideCharToMultiByte(s, FALSE) = << >>
    BY <1>3 DEF WideCharToMultiByte
  <2>2. << >> \in Seq(Bytes)
    OBVIOUS
  <2> QED
    BY <1>3, <2>1, <2>2 DEF Utf8FromUtf16, Converted
<1> QED
  BY <1>2, <1>3

LEMMA ArgumentsOf ==
  ASSUME NEW line \in CommandLines \cup {<< >>}
  PROVE  /\ GetCommandLineArguments(line) \in Seq(Seq(Bytes))
         /\ line # << >> =>
              GetCommandLineArguments(line)
                = [i \in 1 .. Len(line) - 1 |-> Converted(line[i + 1])]
         /\ \A i \in 2 .. Len(line) : MayThrow(line[i]) => ~WellFormed(line[i])
<1>1. CASE line = << >>
  BY <1>1 DEF GetCommandLineArguments
<1>2. CASE line # << >>
  <2>1. /\ line \in Seq(Seq(Units)) /\ Len(line) \in Nat \ {0}
        /\ \A i \in 1 .. Len(line) :
             /\ line[i] \in Seq(Units)
             /\ WellFormed(line[i]) => Len(Encoding(line[i])) <= Plenty
    BY <1>2, LinesAssumption, EmptySeq
  <2>2. \A i \in 1 .. Len(line) :
          /\ Utf8FromUtf16(line[i]) = Converted(line[i])
          /\ Converted(line[i]) \in Seq(Bytes)
          /\ MayThrow(line[i]) => ~WellFormed(line[i])
    BY <2>1, ConversionOf
  <2>3. \A i \in 1 .. Len(line) - 1 : i + 1 \in 1 .. Len(line)
    BY <2>1
  <2>4. GetCommandLineArguments(line)
          = [i \in 1 .. Len(line) - 1 |-> Converted(line[i + 1])]
    BY <1>2, <2>2, <2>3 DEF GetCommandLineArguments
  <2>5. [i \in 1 .. Len(line) - 1 |-> Converted(line[i + 1])]
          \in [1 .. Len(line) - 1 -> Seq(Bytes)]
    BY <2>2, <2>3
  <2>6. GetCommandLineArguments(line) \in Seq(Seq(Bytes))
    <3>1. Len(line) - 1 \in Nat
      BY <2>1
    <3> QED
      BY <2>4, <2>5, <3>1, FunctionIsSequence
  <2>7. \A i \in 2 .. Len(line) : MayThrow(line[i]) => ~WellFormed(line[i])
    BY <2>1, <2>2
  <2> QED
    BY <2>4, <2>6, <2>7
<1> QED
  BY <1>1, <1>2

(***************************************************************************)
(* From the start of the window on, Dart has the arguments; the program is *)
(* ended there only by a string that is not UTF-16.                        *)
(***************************************************************************)
DartHasThem ==
  \/ First("GetCommandLineArguments") \/ sys.exit = "terminated"
  \/ dartArguments = GetCommandLineArguments(argv)
EndedByOne == sys.exit = "terminated" => \E i \in DOMAIN argv : ~WellFormed(argv[i])

LEMMA StepLine ==
  ASSUME TypeOK, Next, ~GetArguments
  PROVE  UNCHANGED lineVars
<1>1. CASE \/ Construct \/ SetQuitOnClose
           \/ GetWindowClass \/ CreateWindow \/ CreateWindowFails \/ UpdateTheme
           \/ OnCreate \/ OnCreateFails
  BY <1>1 DEF Construct, SetQuitOnClose, GetWindowClass, CreateWindow,
    CreateWindowFails, UpdateTheme, OnCreate, OnCreateFails
<1>2. CASE \/ SetChildContent \/ SetNextFrameCallback \/ ForceRedraw \/ Show
           \/ OnDestroy \/ DeleteController \/ Deleted \/ DestroyWindow \/ ForgetHandle
           \/ UnregisterIfLast
           \/ DestructFlutterWindow \/ DestructWin32Window \/ ReturnFromMain
  BY <1>2 DEF SetChildContent, SetNextFrameCallback, ForceRedraw, Show, OnDestroy,
    DeleteController, Deleted, DestroyWindow, ForgetHandle, UnregisterIfLast,
    DestructFlutterWindow, DestructWin32Window, ReturnFromMain
<1>3. CASE \/ NcCreate \/ NoObject \/ FlutterTakes
           \/ OnWmDestroy \/ PostQuitMessage \/ OnDpiChanged \/ OnSize \/ OnColorChanged
           \/ OnOther \/ OnClose \/ OnNcDestroy
           \/ GetQuit
  BY <1>3 DEF NcCreate, NoObject, FlutterTakes, OnWmDestroy, PostQuitMessage,
    OnDpiChanged, OnSize, OnColorChanged, OnOther, OnClose, OnNcDestroy, GetQuit
<1>4. CASE ArgumentsThrow \/ GetFrameTask \/ ChangeTheme \/ DrawFrame
  BY <1>4 DEF ArgumentsThrow, GetFrameTask, ChangeTheme, DrawFrame
<1>5. CASE Loop
  BY <1>5 DEF Loop, GetMessage
<1> QED
  BY <1>1, <1>2, <1>3, <1>4, <1>5 DEF Next, Step

LEMMA StepDart ==
  ASSUME TypeOK, Place, DartHasThem, EndedByOne, [Next]_vars
  PROVE  DartHasThem' /\ EndedByOne'
<1>1. CASE GetArguments
  <2>1. sys'.exit # "terminated"
    BY <1>1, Firsts DEF GetArguments, Place, Starting, Looping, Leaving, Failing, Ended,
      At, First, TypeOK, LoopMessages
  <2> QED
    BY <1>1, <2>1 DEF GetArguments, DartHasThem, EndedByOne
<1>2. CASE ArgumentsThrow
  <2>1. PICK i \in 2 .. Len(argv) : MayThrow(argv[i])
    BY <1>2 DEF ArgumentsThrow
  <2>2. ~WellFormed(argv[i])
    BY <2>1, ArgumentsOf DEF TypeOK
  <2>3. i \in DOMAIN argv
    <3>1. argv \in Seq(Seq(Units))
      BY LinesAssumption DEF TypeOK
    <3> QED
      BY <2>1, <3>1
  <2>4. sys'.exit = "terminated" /\ argv' = argv
    BY <1>2 DEF ArgumentsThrow, lineVars, TypeOK
  <2> QED
    BY <2>2, <2>3, <2>4 DEF DartHasThem, EndedByOne
<1>3. ASSUME UNCHANGED lineVars, sys'.exit = sys.exit,
             ~First("GetCommandLineArguments") \/ UNCHANGED todo
      PROVE  DartHasThem' /\ EndedByOne'
  BY <1>3 DEF DartHasThem, EndedByOne, lineVars, First
<1>4. CASE CreateWindowFails \/ OnCreateFails \/ ReturnFromMain
  <2>1. sys.exit # "terminated"
    BY <1>4, Firsts DEF Place, Starting, Looping, Leaving, Failing, Ended, First
  <2>2. sys'.exit # "terminated"
    BY <1>4, <2>1 DEF CreateWindowFails, OnCreateFails, ReturnFromMain, ExitFailure,
      TypeOK
  <2>3. ~First("GetCommandLineArguments")
    BY <1>4, Firsts DEF First
  <2>4. UNCHANGED lineVars
    BY <1>4 DEF CreateWindowFails, OnCreateFails, ReturnFromMain
  <2> QED
    BY <2>1, <2>2, <2>3, <2>4 DEF DartHasThem, EndedByOne, lineVars
<1>5. CASE \/ Construct \/ SetQuitOnClose
           \/ GetWindowClass \/ CreateWindow \/ UpdateTheme \/ OnCreate
           \/ SetChildContent \/ SetNextFrameCallback \/ ForceRedraw \/ Show
           \/ OnDestroy \/ DeleteController \/ Deleted \/ DestroyWindow \/ ForgetHandle
           \/ UnregisterIfLast \/ DestructFlutterWindow \/ DestructWin32Window
  <2>1. UNCHANGED sys
    BY <1>5 DEF Construct, SetQuitOnClose, GetWindowClass, CreateWindow, UpdateTheme,
      OnCreate, SetChildContent, SetNextFrameCallback, ForceRedraw, Show, OnDestroy,
      DeleteController, Deleted, DestroyWindow, ForgetHandle, UnregisterIfLast,
      DestructFlutterWindow, DestructWin32Window
  <2>2. ~First("GetCommandLineArguments")
    BY <1>5, Firsts DEF First
  <2>3. UNCHANGED lineVars
    BY <1>5, <2>2, StepLine, Firsts DEF Next, Step
  <2> QED
    BY <1>3, <2>1, <2>2, <2>3
<1>6. CASE \/ NcCreate \/ NoObject \/ FlutterTakes
           \/ OnWmDestroy \/ PostQuitMessage \/ OnDpiChanged \/ OnSize \/ OnColorChanged
           \/ OnOther \/ OnClose \/ OnNcDestroy
           \/ GetQuit
  <2>1. sys'.exit = sys.exit
    BY <1>6 DEF NcCreate, NoObject, FlutterTakes, OnWmDestroy, PostQuitMessage,
      OnDpiChanged, OnSize, OnColorChanged, OnOther, OnClose, OnNcDestroy, GetQuit,
      TypeOK
  <2>2. ~First("GetCommandLineArguments")
    BY <1>6, Firsts DEF First
  <2>3. UNCHANGED lineVars
    BY <1>6, <2>2, StepLine, Firsts DEF Next, Step
  <2> QED
    BY <1>3, <2>1, <2>2, <2>3
<1>7. CASE Loop \/ GetFrameTask
  <2>1. First("GetMessage")
    BY <1>7 DEF Loop, GetMessage, GetFrameTask
  <2>2. sys'.exit = sys.exit /\ UNCHANGED lineVars
    BY <1>7 DEF Loop, GetMessage, GetFrameTask, TypeOK
  <2> QED
    BY <1>3, <2>1, <2>2 DEF First
<1>8. CASE ChangeTheme \/ DrawFrame \/ UNCHANGED vars
  <2>1. sys'.exit = sys.exit /\ UNCHANGED <<todo, lineVars>>
    BY <1>8 DEF ChangeTheme, DrawFrame, vars, lineVars, TypeOK
  <2> QED
    BY <1>3, <2>1
<1> QED
  BY <1>1, <1>2, <1>4, <1>5, <1>6, <1>7, <1>8 DEF Next, Step

-----------------------------------------------------------------------------
(***************************************************************************)
(* Every step keeps the types.  The stack: a step takes its first, and     *)
(* puts steps there.                                                       *)
(***************************************************************************)
LEMMA StackType ==
  ASSUME todo \in Seq(Steps), todo # << >>
  PROVE  /\ Return => todo' \in Seq(Steps)
         /\ \A steps \in Seq(Steps) : Call(steps) => todo' \in Seq(Steps)
         /\ \A m \in Steps : Push(m) => todo' \in Seq(Steps)
<1>1. Tail(todo) \in Seq(Steps)
  BY HeadTailProperties
<1>2. ASSUME NEW steps \in Seq(Steps), Call(steps)
      PROVE  todo' \in Seq(Steps)
  BY <1>1, <1>2, JoinIsSequence DEF Call
<1>3. ASSUME NEW m \in Steps, Push(m)
      PROVE  todo' \in Seq(Steps)
  <2> DEFINE one == <<m>>
  <2>1. one \in Seq(Steps) /\ todo' = one \o todo
    BY <1>3 DEF Push
  <2> HIDE DEF one
  <2> QED
    BY <2>1, JoinIsSequence
<1> QED
  BY <1>1, <1>2, <1>3 DEF Return

LEMMA CalledSteps ==
  /\ <<"WM_GETMINMAXINFO", "WM_NCCREATE">> \in Seq(Steps)
  /\ <<"SetChildContent", "SetNextFrameCallback", "ForceRedraw">> \in Seq(Steps)
  /\ <<"WM_ACTIVATE", "WM_SIZE">> \in Seq(Steps)
  /\ <<"DeleteController", "Deleted">> \in Seq(Steps)
  /\ <<"WM_PARENTNOTIFY">> \in Seq(Steps) /\ <<"WM_SIZE">> \in Seq(Steps)
  /\ <<"ForgetHandle">> \in Seq(Steps)
  /\ Destructors \in Seq(Steps) /\ Destroy \in Seq(Steps)
  /\ WhenClosed \in Seq(Steps) /\ DestroyMessages \in Seq(Steps)
  /\ DestroyMessages \o <<"ForgetHandle">> \in Seq(Steps)
<1>1. {"DeleteController", "Deleted", "SetChildContent", "SetNextFrameCallback",
       "ForceRedraw", "ForgetHandle", "PostQuitMessage"} \subseteq Steps
  BY DEF Steps
<1>2. {"WM_GETMINMAXINFO", "WM_NCCREATE", "WM_ACTIVATE", "WM_SIZE", "WM_PARENTNOTIFY",
       "WM_DESTROY", "WM_NCDESTROY"} \subseteq Steps
  BY DEF Steps, Messages, Resized
<1>3. {"OnDestroy", "DestroyWindow", "UnregisterIfLast", "~FlutterWindow",
       "~Win32Window", "return"} \subseteq Steps
  BY DEF Steps
<1>4. /\ <<"WM_GETMINMAXINFO", "WM_NCCREATE">> \in Seq(Steps)
      /\ <<"WM_ACTIVATE", "WM_SIZE">> \in Seq(Steps)
      /\ <<"WM_PARENTNOTIFY">> \in Seq(Steps) /\ <<"WM_SIZE">> \in Seq(Steps)
  BY <1>2
<1>5. /\ <<"SetChildContent", "SetNextFrameCallback", "ForceRedraw">> \in Seq(Steps)
      /\ <<"DeleteController", "Deleted">> \in Seq(Steps)
  BY <1>1
<1>6. Destructors \in Seq(Steps)
  BY <1>3 DEF Destructors
<1>7. Destroy \in Seq(Steps)
  BY <1>3 DEF Destroy
<1>8. WhenClosed \in Seq(Steps)
  <2> DEFINE quit == <<"PostQuitMessage">>
  <2>1. quit \in Seq(Steps) /\ WhenClosed = Destroy \o quit
    BY <1>1 DEF WhenClosed
  <2> HIDE DEF quit
  <2> QED
    BY <1>7, <2>1, JoinIsSequence
<1> DEFINE first == IF hwnd.shown THEN <<"WM_ACTIVATE">> ELSE << >>
           then == <<"WM_DESTROY", "WM_NCDESTROY">>
           forget == <<"ForgetHandle">>
<1>9. /\ first \in Seq(Steps) /\ then \in Seq(Steps) /\ forget \in Seq(Steps)
      /\ DestroyMessages = first \o then
  <2>1. first \in Seq(Steps) /\ forget \in Seq(Steps)
    BY <1>1, <1>2
  <2>2. then \in Seq(Steps)
    BY <1>2
  <2> QED
    BY <2>1, <2>2 DEF DestroyMessages
<1>10. /\ forget \in Seq(Steps) /\ DestroyMessages \in Seq(Steps)
       /\ DestroyMessages \o forget \in Seq(Steps)
  <2> HIDE DEF first, then, forget
  <2>1. DestroyMessages \in Seq(Steps)
    BY <1>9, JoinIsSequence
  <2> QED
    BY <1>9, <2>1, JoinIsSequence
<1> QED
  BY <1>4, <1>5, <1>6, <1>7, <1>8, <1>10

LEMMA TodoType ==
  ASSUME TypeOK, [Next]_vars
  PROVE  todo' \in Seq(Steps)
<1>1. todo \in Seq(Steps)
  BY DEF TypeOK
<1>2. ASSUME todo # << >>, Return PROVE todo' \in Seq(Steps)
  BY <1>1, <1>2, StackType
<1>3. ASSUME todo # << >>, NEW steps \in Seq(Steps), Call(steps)
      PROVE  todo' \in Seq(Steps)
  BY <1>1, <1>3, StackType
<1>4. \A step : First(step) => todo # << >>
  BY DEF First
<1>5. CASE GetArguments
  <2>1. Call(<<"FlutterWindow">> \o Destroy \o
             <<"GetWindowClass", "CreateWindow", "UpdateTheme", "OnCreate",
               "SetQuitOnClose", "GetMessage">>)
    BY <1>5 DEF GetArguments
  <2>2. Call(DoConstruct)
    BY <2>1, CallsMain
  <2>3. DoConstruct \in Seq(Steps)
    BY StartStacks DEF On
  <2> QED
    BY <1>3, <1>4, <1>5, <2>2, <2>3, Firsts
<1>6. CASE ArgumentsThrow \/ ReturnFromMain
  <2>1. todo' = << >>
    BY <1>6 DEF ArgumentsThrow, ReturnFromMain
  <2> QED
    BY <2>1, EmptySeq
<1>7. CASE CreateWindowFails \/ OnCreateFails \/ GetQuit
  BY <1>7, CalledSteps DEF CreateWindowFails, OnCreateFails, GetQuit, ExitFailure
<1>8. CASE \/ Construct \/ SetQuitOnClose \/ GetWindowClass \/ UpdateTheme
           \/ SetChildContent \/ SetNextFrameCallback \/ ForceRedraw
           \/ Deleted \/ ForgetHandle \/ UnregisterIfLast
  <2>1. Return
    BY <1>8 DEF Construct, SetQuitOnClose, GetWindowClass, UpdateTheme,
      SetChildContent, SetNextFrameCallback, ForceRedraw, Deleted, ForgetHandle,
      UnregisterIfLast
  <2> QED
    BY <1>2, <1>4, <1>8, <2>1, Firsts
<1>9. CASE \/ NcCreate \/ NoObject \/ FlutterTakes \/ PostQuitMessage \/ OnSize
           \/ OnColorChanged \/ OnOther \/ OnNcDestroy
  <2>1. Return
    BY <1>9 DEF NcCreate, NoObject, FlutterTakes, PostQuitMessage, OnSize,
      OnColorChanged, OnOther, OnNcDestroy
  <2> QED
    BY <1>2, <1>4, <1>9, <2>1, Firsts
<1>10. CASE \/ CreateWindow \/ OnCreate \/ Show \/ OnDestroy \/ DeleteController
  <2>1. \/ Return \/ Call(<<"WM_GETMINMAXINFO", "WM_NCCREATE">>)
        \/ Call(<<"SetChildContent", "SetNextFrameCallback", "ForceRedraw">>)
        \/ Call(<<"WM_ACTIVATE", "WM_SIZE">>)
        \/ Call(<<"DeleteController", "Deleted">>) \/ Call(<<"WM_PARENTNOTIFY">>)
    BY <1>10 DEF CreateWindow, OnCreate, Show, OnDestroy, DeleteController
  <2> QED
    BY <1>2, <1>3, <1>4, <1>10, <2>1, CalledSteps, Firsts
<1>11. CASE \/ DestroyWindow \/ DestructFlutterWindow \/ DestructWin32Window
            \/ OnWmDestroy \/ OnDpiChanged \/ OnClose
  <2>1. \/ Return \/ Call(DestroyMessages \o <<"ForgetHandle">>)
        \/ Call(<<"DeleteController", "Deleted">>) \/ Call(Destroy)
        \/ Call(WhenClosed) \/ Call(<<"WM_SIZE">>) \/ Call(DestroyMessages)
    BY <1>11 DEF DestroyWindow, DestructFlutterWindow, DestructWin32Window,
      OnWmDestroy, OnDpiChanged, OnClose
  <2> QED
    BY <1>2, <1>3, <1>4, <1>11, <2>1, CalledSteps, Firsts
<1>12. CASE Loop
  <2>1. PICK m \in LoopMessages : GetMessage(m)
    BY <1>12 DEF Loop, LoopMessages, Recolored
  <2>2. m \in Steps
    BY DEF LoopMessages, Steps, Messages, Resized, Recolored
  <2> QED
    BY <1>1, <1>4, <2>1, <2>2, StackType DEF GetMessage
<1>13. CASE GetFrameTask
  <2>1. "Show" \in Steps
    BY DEF Steps
  <2> QED
    BY <1>1, <1>4, <1>13, <2>1, StackType DEF GetFrameTask
<1>14. CASE ChangeTheme \/ DrawFrame \/ UNCHANGED vars
  BY <1>1, <1>14 DEF ChangeTheme, DrawFrame, vars
<1> QED
  BY <1>5, <1>6, <1>7, <1>8, <1>9, <1>10, <1>11, <1>12, <1>13, <1>14 DEF Next, Step

(***************************************************************************)
(* The records.                                                            *)
(***************************************************************************)
LEMMA WindowType ==
  ASSUME TypeOK, [Next]_vars
  PROVE  window' \in Objects
<1>1. window \in Objects
  BY DEF TypeOK
<1>2. CASE \/ Construct \/ SetQuitOnClose \/ OnCreate \/ OnCreateFails
           \/ SetChildContent \/ OnDestroy \/ Deleted \/ ForgetHandle
  <2>1. CASE Construct \/ SetQuitOnClose
    BY <1>1, <2>1 DEF Construct, SetQuitOnClose
  <2>2. CASE OnCreate \/ OnCreateFails
    BY <1>1, <2>2 DEF OnCreate, OnCreateFails
  <2>3. CASE SetChildContent \/ ForgetHandle
    BY <1>1, <2>3 DEF SetChildContent, ForgetHandle, WithoutHandle
  <2>4. CASE OnDestroy \/ Deleted
    BY <1>1, <2>4 DEF OnDestroy, Forgotten, Deleted
  <2> QED
    BY <1>2, <2>1, <2>2, <2>3, <2>4
<1>3. CASE \/ DestructFlutterWindow \/ DestructWin32Window \/ ReturnFromMain
           \/ NcCreate \/ OnWmDestroy
  <2>1. CASE DestructFlutterWindow \/ DestructWin32Window
    BY <1>1, <2>1 DEF DestructFlutterWindow, DestructWin32Window
  <2>2. CASE ReturnFromMain \/ NcCreate
    BY <1>1, <2>2 DEF ReturnFromMain, NcCreate
  <2>3. CASE OnWmDestroy
    BY <1>1, <2>3 DEF OnWmDestroy, WithoutHandle
  <2> QED
    BY <1>3, <2>1, <2>2, <2>3
<1>4. ASSUME UNCHANGED window PROVE window' \in Objects
  BY <1>1, <1>4
<1>5. CASE \/ GetArguments \/ ArgumentsThrow \/ GetWindowClass \/ CreateWindow
           \/ CreateWindowFails \/ UpdateTheme \/ SetNextFrameCallback \/ ForceRedraw
           \/ Show \/ DeleteController \/ DestroyWindow \/ UnregisterIfLast
  BY <1>4, <1>5 DEF GetArguments, ArgumentsThrow, GetWindowClass, CreateWindow,
    CreateWindowFails, UpdateTheme, SetNextFrameCallback, ForceRedraw, Show,
    DeleteController, DestroyWindow, UnregisterIfLast
<1>6. CASE \/ NoObject \/ FlutterTakes \/ PostQuitMessage \/ OnDpiChanged \/ OnSize
           \/ OnColorChanged \/ OnOther \/ OnClose \/ OnNcDestroy \/ GetQuit
           \/ GetFrameTask \/ ChangeTheme \/ DrawFrame \/ UNCHANGED vars
  BY <1>4, <1>6 DEF NoObject, FlutterTakes, PostQuitMessage, OnDpiChanged, OnSize,
    OnColorChanged, OnOther, OnClose, OnNcDestroy, GetQuit, GetFrameTask, ChangeTheme,
    DrawFrame, vars
<1>7. CASE Loop
  BY <1>4, <1>7 DEF Loop, GetMessage
<1> QED
  BY <1>2, <1>3, <1>5, <1>6, <1>7 DEF Next, Step

LEMMA HwndType ==
  ASSUME TypeOK, [Next]_vars
  PROVE  hwnd' \in Windows
<1>1. hwnd \in Windows
  BY DEF TypeOK
<1>2. DestroyHwnd => hwnd' \in Windows
  <2> DEFINE n == hwnd.destroys + 1
  <2>1. n \in Nat /\ (DestroyHwnd =>
                       hwnd' = [hwnd EXCEPT !.life = "destroying", !.destroys = n])
    BY <1>1 DEF DestroyHwnd
  <2> HIDE DEF n
  <2> QED
    BY <1>1, <2>1
<1>3. CASE \/ CreateWindow \/ UpdateTheme \/ Show \/ DestroyWindow
  <2>1. CASE CreateWindow
    BY <1>1, <2>1 DEF CreateWindow
  <2>2. CASE UpdateTheme
    BY <1>1, <2>2 DEF UpdateTheme, Themed
  <2>3. CASE Show
    BY <1>1, <2>3 DEF Show, TypeOK
  <2>4. CASE DestroyWindow
    BY <1>1, <1>2, <2>4 DEF DestroyWindow
  <2> QED
    BY <1>3, <2>1, <2>2, <2>3, <2>4
<1>4. CASE \/ NcCreate \/ OnDpiChanged \/ OnColorChanged \/ OnClose \/ OnNcDestroy
  <2>1. CASE NcCreate \/ OnNcDestroy
    BY <1>1, <2>1 DEF NcCreate, OnNcDestroy
  <2>2. CASE OnDpiChanged
    BY <1>1, <2>2 DEF OnDpiChanged
  <2>3. CASE OnColorChanged
    BY <1>1, <2>3 DEF OnColorChanged, Themed
  <2>4. CASE OnClose
    BY <1>1, <1>2, <2>4 DEF OnClose
  <2> QED
    BY <1>4, <2>1, <2>2, <2>3, <2>4
<1>5. ASSUME UNCHANGED hwnd PROVE hwnd' \in Windows
  BY <1>1, <1>5
<1>6. CASE \/ GetArguments \/ ArgumentsThrow \/ Construct \/ SetQuitOnClose
           \/ GetWindowClass \/ CreateWindowFails \/ OnCreate \/ OnCreateFails
           \/ SetChildContent \/ SetNextFrameCallback \/ ForceRedraw \/ OnDestroy
           \/ DeleteController \/ Deleted
  BY <1>5, <1>6 DEF GetArguments, ArgumentsThrow, Construct, SetQuitOnClose,
    GetWindowClass, CreateWindowFails, OnCreate, OnCreateFails, SetChildContent,
    SetNextFrameCallback, ForceRedraw, OnDestroy, DeleteController, Deleted
<1>7. CASE \/ ForgetHandle \/ UnregisterIfLast \/ DestructFlutterWindow
           \/ DestructWin32Window \/ ReturnFromMain \/ NoObject \/ FlutterTakes
           \/ OnWmDestroy \/ PostQuitMessage \/ OnSize \/ OnOther \/ GetQuit
           \/ GetFrameTask \/ ChangeTheme \/ DrawFrame \/ UNCHANGED vars
  BY <1>5, <1>7 DEF ForgetHandle, UnregisterIfLast, DestructFlutterWindow,
    DestructWin32Window, ReturnFromMain, NoObject, FlutterTakes, OnWmDestroy,
    PostQuitMessage, OnSize, OnOther, GetQuit, GetFrameTask, ChangeTheme, DrawFrame,
    vars
<1>8. CASE Loop
  <2>1. PICK m \in LoopMessages : GetMessage(m)
    BY <1>8 DEF Loop, LoopMessages, Recolored
  <2>2. \/ UNCHANGED hwnd
        \/ \E size \in Sizes : hwnd' = [hwnd EXCEPT !.size = size]
    BY <2>1 DEF GetMessage, Recolored
  <2> QED
    BY <1>1, <2>2
<1> QED
  BY <1>3, <1>4, <1>6, <1>7, <1>8 DEF Next, Step

LEMMA ViewType ==
  ASSUME TypeOK, [Next]_vars
  PROVE  view' \in Views
<1>1. view \in Views /\ hwnd.size \in Sizes
  BY DEF TypeOK
<1>2. CASE \/ OnCreate \/ OnCreateFails \/ SetChildContent \/ SetNextFrameCallback
           \/ ForceRedraw
  <2>1. CASE OnCreate \/ OnCreateFails
    BY <1>1, <2>1 DEF OnCreate, OnCreateFails
  <2>2. CASE SetChildContent
    BY <1>1, <2>2 DEF SetChildContent, Fit
  <2>3. CASE SetNextFrameCallback \/ ForceRedraw
    BY <1>1, <2>3 DEF SetNextFrameCallback, ForceRedraw, Forced
  <2> QED
    BY <1>2, <2>1, <2>2, <2>3
<1>3. CASE DeleteController \/ OnSize \/ OnNcDestroy \/ GetFrameTask \/ DrawFrame
  <2>1. CASE DeleteController \/ GetFrameTask
    BY <1>1, <2>1 DEF DeleteController, GetFrameTask
  <2>2. CASE OnSize
    BY <1>1, <2>2 DEF OnSize, FitChild, Fit
  <2>3. CASE OnNcDestroy
    BY <1>1, <2>3 DEF OnNcDestroy
  <2>4. CASE DrawFrame
    BY <1>1, <2>4 DEF DrawFrame
  <2> QED
    BY <1>3, <2>1, <2>2, <2>3, <2>4
<1>4. ASSUME UNCHANGED view PROVE view' \in Views
  BY <1>1, <1>4
<1>5. CASE \/ GetArguments \/ ArgumentsThrow \/ Construct \/ SetQuitOnClose
           \/ GetWindowClass \/ CreateWindow \/ CreateWindowFails \/ UpdateTheme
           \/ Show \/ OnDestroy \/ Deleted \/ DestroyWindow \/ ForgetHandle
           \/ UnregisterIfLast
  BY <1>4, <1>5 DEF GetArguments, ArgumentsThrow, Construct, SetQuitOnClose,
    GetWindowClass, CreateWindow, CreateWindowFails, UpdateTheme, Show, OnDestroy,
    Deleted, DestroyWindow, ForgetHandle, UnregisterIfLast
<1>6. CASE \/ DestructFlutterWindow \/ DestructWin32Window \/ ReturnFromMain
           \/ NcCreate \/ NoObject \/ FlutterTakes \/ OnWmDestroy \/ PostQuitMessage
           \/ OnDpiChanged \/ OnColorChanged \/ OnOther \/ OnClose \/ GetQuit
           \/ ChangeTheme \/ UNCHANGED vars
  BY <1>4, <1>6 DEF DestructFlutterWindow, DestructWin32Window, ReturnFromMain,
    NcCreate, NoObject, FlutterTakes, OnWmDestroy, PostQuitMessage, OnDpiChanged,
    OnColorChanged, OnOther, OnClose, GetQuit, ChangeTheme, vars
<1>7. CASE Loop
  BY <1>4, <1>7 DEF Loop, GetMessage, Recolored
<1> QED
  BY <1>2, <1>3, <1>5, <1>6, <1>7 DEF Next, Step

(***************************************************************************)
(* g_active_window_count: it is one when ~Win32Window counts down.         *)
(***************************************************************************)
LEMMA RegistrarType ==
  ASSUME TypeOK, Place, [Next]_vars
  PROVE  registrar' \in Registrars
<1>1. registrar \in Registrars
  BY DEF TypeOK
<1>2. CASE Construct \/ GetWindowClass \/ UnregisterIfLast
  <2>1. CASE Construct
    BY <1>1, <2>1 DEF Construct
  <2>2. CASE GetWindowClass
    BY <1>1, <2>2 DEF GetWindowClass
  <2>3. CASE UnregisterIfLast
    BY <1>1, <2>3 DEF UnregisterIfLast
  <2> QED
    BY <1>2, <2>1, <2>2, <2>3
<1>3. CASE DestructWin32Window
  <2>1. registrar.count = 1
    BY <1>3, Firsts DEF Place, Starting, Looping, Leaving, Failing, Ended, At, First,
      Class, LoopMessages
  <2> QED
    BY <1>1, <1>3, <2>1 DEF DestructWin32Window, CountedDown
<1>4. ASSUME UNCHANGED registrar PROVE registrar' \in Registrars
  BY <1>1, <1>4
<1>5. CASE \/ GetArguments \/ ArgumentsThrow \/ SetQuitOnClose \/ CreateWindow
           \/ CreateWindowFails \/ UpdateTheme \/ OnCreate \/ OnCreateFails
           \/ SetChildContent \/ SetNextFrameCallback \/ ForceRedraw \/ Show
           \/ OnDestroy \/ DeleteController \/ Deleted
  BY <1>4, <1>5 DEF GetArguments, ArgumentsThrow, SetQuitOnClose, CreateWindow,
    CreateWindowFails, UpdateTheme, OnCreate, OnCreateFails, SetChildContent,
    SetNextFrameCallback, ForceRedraw, Show, OnDestroy, DeleteController, Deleted
<1>6. CASE \/ DestroyWindow \/ ForgetHandle \/ DestructFlutterWindow \/ ReturnFromMain
           \/ NcCreate \/ NoObject \/ FlutterTakes \/ OnWmDestroy \/ PostQuitMessage
           \/ OnDpiChanged \/ OnSize \/ OnColorChanged \/ OnOther \/ OnClose
           \/ OnNcDestroy \/ GetQuit
  BY <1>4, <1>6 DEF DestroyWindow, ForgetHandle, DestructFlutterWindow,
    ReturnFromMain, NcCreate, NoObject, FlutterTakes, OnWmDestroy, PostQuitMessage,
    OnDpiChanged, OnSize, OnColorChanged, OnOther, OnClose, OnNcDestroy, GetQuit
<1>7. CASE Loop \/ GetFrameTask \/ ChangeTheme \/ DrawFrame \/ UNCHANGED vars
  BY <1>4, <1>7 DEF Loop, GetMessage, GetFrameTask, ChangeTheme, DrawFrame, vars
<1> QED
  BY <1>2, <1>3, <1>5, <1>6, <1>7 DEF Next, Step

LEMMA SysType ==
  ASSUME TypeOK, [Next]_vars
  PROVE  sys' \in Systems
<1>1. sys \in Systems /\ window.quit_on_close_ \in BOOLEAN
  BY DEF TypeOK
<1>2. CASE \/ GetArguments \/ ArgumentsThrow \/ CreateWindowFails \/ OnCreateFails
           \/ ReturnFromMain
  <2>1. CASE GetArguments \/ ArgumentsThrow
    BY <1>1, <2>1 DEF GetArguments, ArgumentsThrow
  <2>2. CASE CreateWindowFails \/ OnCreateFails
    BY <1>1, <2>2 DEF CreateWindowFails, OnCreateFails, ExitFailure
  <2>3. CASE ReturnFromMain
    BY <1>1, <2>3 DEF ReturnFromMain
  <2> QED
    BY <1>2, <2>1, <2>2, <2>3
<1>3. CASE PostQuitMessage \/ OnNcDestroy \/ GetQuit \/ ChangeTheme
  <2>1. CASE PostQuitMessage
    BY <1>1, <2>1 DEF PostQuitMessage, PostsQuit
  <2>2. CASE OnNcDestroy \/ GetQuit
    BY <1>1, <2>2 DEF OnNcDestroy, GetQuit
  <2>3. CASE ChangeTheme
    BY <1>1, <2>3 DEF ChangeTheme, Brightness
  <2> QED
    BY <1>3, <2>1, <2>2, <2>3
<1>4. ASSUME UNCHANGED sys PROVE sys' \in Systems
  BY <1>1, <1>4
<1>5. CASE \/ Construct \/ SetQuitOnClose \/ GetWindowClass \/ CreateWindow
           \/ UpdateTheme \/ OnCreate \/ SetChildContent \/ SetNextFrameCallback
           \/ ForceRedraw \/ Show \/ OnDestroy \/ DeleteController \/ Deleted
           \/ DestroyWindow \/ ForgetHandle
  BY <1>4, <1>5 DEF Construct, SetQuitOnClose, GetWindowClass, CreateWindow,
    UpdateTheme, OnCreate, SetChildContent, SetNextFrameCallback, ForceRedraw, Show,
    OnDestroy, DeleteController, Deleted, DestroyWindow, ForgetHandle
<1>6. CASE \/ UnregisterIfLast \/ DestructFlutterWindow \/ DestructWin32Window
           \/ NcCreate \/ NoObject \/ FlutterTakes \/ OnWmDestroy \/ OnDpiChanged
           \/ OnSize \/ OnColorChanged \/ OnOther \/ OnClose
           \/ GetFrameTask \/ DrawFrame \/ UNCHANGED vars
  BY <1>4, <1>6 DEF UnregisterIfLast, DestructFlutterWindow, DestructWin32Window,
    NcCreate, NoObject, FlutterTakes, OnWmDestroy, OnDpiChanged, OnSize,
    OnColorChanged, OnOther, OnClose, GetFrameTask, DrawFrame, vars
<1>7. CASE Loop
  <2>1. PICK m \in LoopMessages : GetMessage(m)
    BY <1>7 DEF Loop, LoopMessages, Recolored
  <2>2. UNCHANGED sys \/ sys' = [sys EXCEPT !.notice = FALSE]
    BY <2>1 DEF GetMessage, Recolored
  <2> QED
    BY <1>1, <2>2
<1> QED
  BY <1>2, <1>3, <1>5, <1>6, <1>7 DEF Next, Step

LEMMA StepType ==
  ASSUME TypeOK, Place, [Next]_vars
  PROVE  TypeOK'
<1>1. /\ todo' \in Seq(Steps) /\ window' \in Objects /\ hwnd' \in Windows
      /\ view' \in Views /\ registrar' \in Registrars /\ sys' \in Systems
  BY TodoType, WindowType, HwndType, ViewType, RegistrarType, SysType
<1>2. (argv \in CommandLines \cup {<< >>} /\ dartArguments \in Seq(Seq(Bytes)))'
  <2>1. CASE GetArguments
    BY <2>1, ArgumentsOf DEF GetArguments, TypeOK
  <2>2. CASE UNCHANGED lineVars \/ UNCHANGED vars
    BY <2>2 DEF TypeOK, lineVars, vars
  <2> QED
    BY <2>1, <2>2, StepLine
<1> HIDE DEF Objects, Windows, Views, Registrars, Systems
<1> QED
  BY <1>1, <1>2 DEF TypeOK

-----------------------------------------------------------------------------
(***************************************************************************)
(* The invariant of the Windows runner: where the thread is, with what is  *)
(* there at that place; and what other threads change.                     *)
(***************************************************************************)
Inv ==
  /\ TypeOK /\ Place /\ TaskHasView /\ ShownInLoop /\ NoticeToAlive
  /\ Fits /\ Themes /\ DartHasThem /\ EndedByOne

LEMMA InitInv == Init => Inv
<1> SUFFICES ASSUME Init PROVE Inv
  OBVIOUS
<1>1. todo \in Seq(Steps) /\ At("GetCommandLineArguments", << >>)
  BY Bottoms DEF Init, On, At, First
<1>2. NoView.size \in Sizes
  BY TakesAssumption DEF NoView
<1>3. window \in Objects /\ hwnd \in Windows /\ view \in Views
  BY <1>2 DEF Init, NoView
<1>4. registrar \in Registrars /\ sys \in Systems
  BY DEF Init, Brightness
<1>5. TypeOK
  BY <1>1, <1>3, <1>4 DEF Init, TypeOK
<1>6. Starting
  BY <1>1 DEF Init, Starting, Object, NoWindow, NoChild, NoView, Class
<1>7. TaskHasView /\ ShownInLoop /\ NoticeToAlive /\ Fits /\ Themes
  BY DEF Init, NoView, TaskHasView, ShownInLoop, NoticeToAlive, Fits, Themes
<1>8. DartHasThem /\ EndedByOne
  BY <1>1 DEF Init, DartHasThem, EndedByOne, At
<1> QED
  BY <1>5, <1>6, <1>7, <1>8 DEF Inv, Place

LEMMA StepInv == Inv /\ [Next]_vars => Inv'
BY StepType, StepPlace, StepTask, StepShown, StepNotice, StepFits, StepThemes, StepDart
DEF Inv

LEMMA WindowsInvariant == Init /\ [][Next]_vars => []Inv
BY InitInv, StepInv, PTL

(***************************************************************************)
(* The types of the Windows runner, for every command line.                *)
(***************************************************************************)
THEOREM WindowsTypes == Spec => []TypeOK
<1>1. Inv => TypeOK
  BY DEF Inv
<1> QED
  BY <1>1, WindowsInvariant, PTL DEF Spec

(***************************************************************************)
(* WndProc and MessageHandler: no message reaches the controller while it  *)
(* is deleted or the object after it, WM_FONTCHANGE finds the engine, and  *)
(* WM_SIZE and WM_ACTIVATE find the child.                                 *)
(***************************************************************************)
LEMMA HandlersByPlace == Place => HandlersTouchTheLiving
<1> USE DEF HandlersTouchTheLiving, NotToTheDying, FontsHaveEngine, ChildIsThere,
          Receiving, AsksFlutter, At, First, Object
<1>1. \A m \in Messages :
        m \notin {"GetCommandLineArguments", "FlutterWindow", "GetWindowClass",
                  "CreateWindow", "UpdateTheme", "OnCreate", "SetChildContent",
                  "SetNextFrameCallback", "ForceRedraw", "SetQuitOnClose",
                  "GetMessage", "Show", "PostQuitMessage", "OnDestroy",
                  "DeleteController", "Deleted", "DestroyWindow", "ForgetHandle",
                  "UnregisterIfLast", "~FlutterWindow", "~Win32Window", "return"}
  BY DEF Messages, Resized, Recolored
<1>2. CASE Starting
  BY <1>1, <1>2 DEF Starting, NoWindow
<1>3. CASE Looping
  BY <1>1, <1>3 DEF Looping, Running, Child, LoopMessages
<1>4. CASE Leaving
  BY <1>1, <1>4 DEF Leaving
<1>5. CASE Failing
  BY <1>1, <1>5 DEF Failing
<1>6. CASE Ended
  BY <1>6 DEF Ended
<1> QED
  BY <1>2, <1>3, <1>4, <1>5, <1>6 DEF Place

(***************************************************************************)
(* Whatever arrives while FlutterWindow is made, shown or destroyed: no    *)
(* handler touches an object, a controller, an engine or a child window    *)
(* that is gone or being deleted (flutter_window.cpp, MessageHandler and   *)
(* OnDestroy).                                                             *)
(***************************************************************************)
THEOREM WindowsHandlers == Spec => []HandlersTouchTheLiving
<1>1. Inv => HandlersTouchTheLiving
  BY HandlersByPlace DEF Inv
<1> QED
  BY <1>1, WindowsInvariant, PTL DEF Spec

(***************************************************************************)
(* Destroy, called by the destructor and by the handler of the WM_DESTROY  *)
(* it sends: the window is destroyed once, and when the program has ended  *)
(* neither it nor its class is left.                                       *)
(***************************************************************************)
THEOREM WindowsDestroysOnce == Spec => []DestroyedOnce
<1>1. Place => hwnd.destroys <= 1
  <2>1. NoWindow \/ Alive \/ Dying \/ WindowGone => hwnd.destroys \in {0, 1}
    BY DEF NoWindow, Alive, Dying, WindowGone
  <2>2. Starting => NoWindow \/ Alive \/ hwnd.destroys = 0
    BY DEF Starting
  <2>3. Looping \/ Leaving \/ Failing \/ Ended
          => NoWindow \/ Alive \/ Dying \/ WindowGone
    BY DEF Looping, Leaving, Failing, Ended
  <2> QED
    BY <2>1, <2>2, <2>3 DEF Place
<1>2. Place /\ todo = << >> => hwnd.life \in {"none", "gone"} /\ ~registrar.known
  BY DEF Place, Starting, Looping, Leaving, Failing, Ended, NoWindow, WindowGone, Class,
    At, First
<1>3. Inv => DestroyedOnce
  BY <1>1, <1>2 DEF Inv, DestroyedOnce
<1> QED
  BY <1>3, WindowsInvariant, PTL DEF Spec

(***************************************************************************)
(* wWinMain's CoInitializeEx and CoUninitialize enclose the controller's   *)
(* life, on every path but the one that never uninitialises.               *)
(***************************************************************************)
THEOREM WindowsCom == Spec => []ComForFlutter
<1>1. Place => ComForFlutter
  BY DEF ComForFlutter, Place, Starting, Looping, Leaving, Failing, Ended, Running, Object
<1>2. Inv => ComForFlutter
  BY <1>1 DEF Inv
<1> QED
  BY <1>2, WindowsInvariant, PTL DEF Spec

(***************************************************************************)
(* WM_SIZE: whenever the thread waits, the child has the window's size.    *)
(***************************************************************************)
THEOREM WindowsChildFits == Spec => []ChildFits
<1>1. Inv => ChildFits
  BY DEF Inv, Fits, ChildFits, Idle, At, First
<1> QED
  BY <1>1, WindowsInvariant, PTL DEF Spec

(***************************************************************************)
(* UpdateTheme: whenever the thread waits and no notice is pending, the    *)
(* frame has the registry's theme.                                         *)
(***************************************************************************)
THEOREM WindowsThemeFollows == Spec => []ThemeFollows
<1>1. Inv => ThemeFollows
  BY DEF Inv, Themes, ThemeFollows, Idle, At, First
<1> QED
  BY <1>1, WindowsInvariant, PTL DEF Spec

(***************************************************************************)
(* GetCommandLineArguments and Utf8FromUtf16: the entry point gets the     *)
(* UTF-8 of every argument, whatever the command line.                     *)
(***************************************************************************)
THEOREM WindowsArgumentsArrive == Spec => []DartGetsArguments
<1>1. Place /\ window.is # "none" =>
        ~First("GetCommandLineArguments") /\ sys.exit # "terminated"
  BY DEF Place, Starting, Looping, Leaving, Failing, Ended, Running, Object, At, First,
    LoopMessages
<1>2. TypeOK /\ argv # << >> =>
        GetCommandLineArguments(argv)
          = [i \in 1 .. Len(argv) - 1 |-> Converted(argv[i + 1])]
  BY ArgumentsOf DEF TypeOK
<1>3. Inv => DartGetsArguments
  BY <1>1, <1>2 DEF Inv, DartHasThem, EndedByOne, DartGetsArguments, Converted
<1> QED
  BY <1>3, WindowsInvariant, PTL DEF Spec

-----------------------------------------------------------------------------
(***************************************************************************)
(* The three programs together.  One that does not run stands still.       *)
(***************************************************************************)
LEMMA WindowsRuns == MCSpec => []Inv
<1>1. MCInit => Init
  BY DEF MCInit
<1>2. [MCNext]_allVars => [Next]_vars
  BY DEF MCNext, allVars
<1> QED
  BY <1>1, <1>2, WindowsInvariant, PTL DEF MCSpec

(***************************************************************************)
(* main of the Linux runner: g_application_run gets the arguments, and     *)
(* they are freed once, as often as the application is disposed of.        *)
(***************************************************************************)
LP == INSTANCE LinuxRunnerProofs WITH
        pc <- l_pc, argv <- l_argv, CommandLines <- LinuxLines, Disposals <- 2

LEMMA LinuxRuns == MCSpec => [](L!TypeOK /\ L!ViewGetsArguments /\ L!FreedOnce)
<1>1. L!Init => LP!Init
  BY DEF L!Init, LP!Init, L!Null, LP!Null, L!Hidden, LP!Hidden
<1>2. L!Next => LP!Next
  BY DEF L!Next, LP!Next, L!LocalCommandLine, LP!LocalCommandLine, L!RegisterFails,
    LP!RegisterFails, L!Register, LP!Register, L!Activate, LP!Activate, L!CloseWindow,
    LP!CloseWindow, L!Shutdown, LP!Shutdown, L!Dispose, LP!Dispose, L!Exit, LP!Exit,
    L!Null, LP!Null, L!Hidden, LP!Hidden, L!WithoutProgram, LP!WithoutProgram,
    L!UseHeaderBar, LP!UseHeaderBar, L!Cleared, LP!Cleared
<1>3. LP!ViewGetsArguments /\ LP!FreedOnce => L!ViewGetsArguments /\ L!FreedOnce
  BY DEF L!FreedOnce, LP!FreedOnce, L!ViewGetsArguments, LP!ViewGetsArguments,
    L!WithoutProgram, LP!WithoutProgram, L!Null, LP!Null
<1>4. LP!TypeOK => L!TypeOK
  BY DEF L!TypeOK, LP!TypeOK
<1>5. LP!Init /\ [][LP!Next]_LP!vars => []LP!TypeOK
  <2>1. LP!LinuxAssumption
    BY StartupAssumption DEF L!LinuxAssumption, LP!LinuxAssumption
  <2> QED
    BY <2>1, LP!LinuxRunnerTypes DEF LP!Spec
<1>6. MCInit => LP!Init
  BY <1>1 DEF MCInit
<1>7. [MCNext]_allVars => [LP!Next]_LP!vars
  BY <1>2 DEF MCNext, allVars, linuxVars, LP!vars
<1>8. LP!Init /\ [][LP!Next]_LP!vars => [](LP!ViewGetsArguments /\ LP!FreedOnce)
  BY LP!LinuxRunnerPassesAndFrees DEF LP!Spec
<1> QED
  BY <1>3, <1>4, <1>5, <1>6, <1>7, <1>8, PTL DEF MCSpec

(***************************************************************************)
(* my_application_activate gives the view every argument but the program,  *)
(* from a vector not yet freed.                                            *)
(***************************************************************************)
THEOREM LinuxArgumentsArrive == MCSpec => []LinuxArguments
BY LinuxRuns, PTL DEF LinuxArguments

(***************************************************************************)
(* my_application_dispose frees the arguments once, though it may run      *)
(* twice and also when the registration failed.                            *)
(***************************************************************************)
THEOREM LinuxFreesOnce == MCSpec => []LinuxFreedOnce
BY LinuxRuns, PTL DEF LinuxFreedOnce

(***************************************************************************)
(* check_args and main of the C server: if there are any arguments, the    *)
(* address is set before it goes on, and a valid command line is refused   *)
(* for want of a socket only.                                              *)
(***************************************************************************)
CP == INSTANCE CServerProofs WITH
        pc <- c_pc, argv <- c_argv, CommandLines <- CLines,
        Digits <- {"1"}, Others <- {"r", "u", "n"},
        MaxLength <- CMaxLength, MaxFd <- 2

LEMMA CRuns == MCSpec => [](C!TypeOK /\ C!AddressIsSet /\ C!ValidIsAccepted)
<1> USE DEF C!Chars, CP!Chars, C!Strings, CP!Strings, C!Run, CP!Run
<1>1. CP!CAssumption
  BY StartupAssumption DEF C!CAssumption, CP!CAssumption
<1>2. C!Init => CP!Init
  BY DEF C!Init, CP!Init, C!Garbage, CP!Garbage
<1>3. \A ip : C!verify_ip_form(ip) <=> CP!verify_ip_form(ip)
  <2>1. \A ip : C!Dots(ip) = CP!Dots(ip)
    BY DEF C!Dots, CP!Dots
  <2>2. \A dots : C!Cardinality(dots) = CP!Cardinality(dots)
    BY DEF C!Cardinality, CP!Cardinality
  <2> QED
    BY <2>1, <2>2 DEF C!verify_ip_form, CP!verify_ip_form, C!check_digit,
      CP!check_digit
<1>4. \A message : C!Fail(message) <=> CP!Fail(message)
  BY DEF C!Fail, CP!Fail
<1>5. \A ip, port : C!Start(ip, port) <=> CP!Start(ip, port)
  BY DEF C!Start, CP!Start
<1>6. (C!Checking <=> CP!Checking) /\ C!argc = CP!argc
  BY DEF C!Checking, CP!Checking, C!NoneTooLong, CP!NoneTooLong, C!argc, CP!argc
<1>7. C!Next => CP!Next
  BY <1>3, <1>4, <1>5, <1>6 DEF C!Next, CP!Next, C!CommandTooLong, CP!CommandTooLong,
    C!NoneTooLong, CP!NoneTooLong, C!TooManyArguments, CP!TooManyArguments,
    C!NoCommand, CP!NoCommand, C!InvalidCommand, CP!InvalidCommand,
    C!InvalidIp, CP!InvalidIp, C!RunDefault, CP!RunDefault, C!RunOnIp, CP!RunOnIp,
    C!RunOnIpAndPort, CP!RunOnIpAndPort, C!NoArguments, CP!NoArguments,
    C!MakeSocket, CP!MakeSocket,
    C!DefaultIp, CP!DefaultIp, C!DefaultPort, CP!DefaultPort
<1>8. CP!TypeOK => C!TypeOK
  BY DEF C!TypeOK, CP!TypeOK
<1>9. CP!AddressIsSet => C!AddressIsSet
  BY <1>6 DEF C!AddressIsSet, CP!AddressIsSet, C!Garbage, CP!Garbage
<1>10. CP!ValidIsAccepted => C!ValidIsAccepted
  BY DEF C!ValidIsAccepted, CP!ValidIsAccepted, C!ValidCommand, CP!ValidCommand,
    C!DottedQuad, CP!DottedQuad
<1>11. MCInit => CP!Init
  BY <1>2 DEF MCInit
<1>12. [MCNext]_allVars => [CP!Next]_CP!vars
  BY <1>7 DEF MCNext, allVars, cVars, CP!vars
<1>13. CP!Init /\ [][CP!Next]_CP!vars
         => [](CP!TypeOK /\ CP!AddressIsSet /\ CP!ValidIsAccepted)
  BY <1>1, CP!CServerAcceptsTheValid DEF CP!Spec
<1> QED
  BY <1>8, <1>9, <1>10, <1>11, <1>12, <1>13, PTL DEF MCSpec

(***************************************************************************)
(* check_args returns with address and port set in the memory that malloc  *)
(* left as it was, but for an empty argument vector, with which it returns *)
(* with neither set.                                                       *)
(***************************************************************************)
THEOREM CAddressArrives == MCSpec => []CAddressIsSet
BY CRuns, PTL DEF CAddressIsSet

(***************************************************************************)
(* main ends on a valid command line only if socket fails: check_args      *)
(* refuses none.                                                           *)
(***************************************************************************)
THEOREM CAcceptsTheValid == MCSpec => []CValidIsAccepted
BY CRuns, PTL DEF CValidIsAccepted

(***************************************************************************)
(* The types of the three programs.                                        *)
(***************************************************************************)
THEOREM StartupTypes == MCSpec => []AllTypeOK
<1>1. Inv => TypeOK
  BY DEF Inv
<1> QED
  BY <1>1, WindowsRuns, LinuxRuns, CRuns, PTL DEF AllTypeOK
=============================================================================
