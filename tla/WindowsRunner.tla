---------------------------- MODULE WindowsRunner ----------------------------
(***************************************************************************)
(* The Windows program around the Flutter client (client_flutter/windows/  *)
(* runner): wWinMain, its FlutterWindow and the Win32Window under it.      *)
(*                                                                         *)
(* All of it runs on one thread, but in calls inside calls: CreateWindow,  *)
(* DestroyWindow, SetWindowPos and ShowWindow send messages to the window  *)
(* before they return, and a message handler calls Destroy, whose          *)
(* DestroyWindow sends messages.  todo is the thread's stack: the steps    *)
(* still to do, the innermost call's first.  Every action takes the first  *)
(* step and puts the steps it calls in its place.                          *)
(*                                                                         *)
(* Windows and Flutter are modelled by how this code uses them: what a     *)
(* call sends or destroys, which messages the loop may get, when Flutter   *)
(* draws a frame.                                                          *)
(***************************************************************************)
EXTENDS WindowsArguments

CONSTANTS
  CommandLines,   \* command lines, split: sequences of UTF-16 strings
  Sizes,          \* bound: sizes of a client area
  Takes           \* messages Flutter may keep from the window

Resized == {"WM_SIZE", "WM_DPICHANGED"}
Recolored == {"WM_DWMCOLORIZATIONCOLORCHANGED"}
Messages == Resized \cup Recolored \cup
  {"WM_GETMINMAXINFO", "WM_NCCREATE", "WM_ACTIVATE", "WM_FONTCHANGE",
   "WM_PARENTNOTIFY", "WM_CLOSE", "WM_DESTROY", "WM_NCDESTROY"}

(***************************************************************************)
(* A command line has at most 32767 units: there is memory for the bytes   *)
(* of all that is UTF-16.                                                  *)
(***************************************************************************)
ASSUME LinesAssumption ==
  \A line \in CommandLines :
    /\ line \in Seq(Seq(Units)) /\ line # << >>
    /\ \A i \in DOMAIN line :
         WellFormed(line[i]) => Len(Encoding(line[i])) <= Plenty

ASSUME TakesAssumption ==
  /\ Sizes # {}
  /\ Takes \subseteq {"WM_CLOSE", "WM_ACTIVATE", "WM_PARENTNOTIFY"}

VARIABLES
  todo,        \* the thread's stack
  window,      \* the C++ object: its class as virtual calls see it, its members
  hwnd,        \* the window as Windows knows it
  view,        \* Flutter's engine and its child window
  registrar,   \* WindowClassRegistrar, g_active_window_count, Windows' class
  sys,         \* the user's registry value, WM_QUIT, COM and the exit code
  argv,        \* the command line, << >> when it could not be split
  dartArguments

vars == <<todo, window, hwnd, view, registrar, sys, argv, dartArguments>>
lineVars == <<argv, dartArguments>>

Brightness == {"dark", "light", "missing"}

NoView == [window |-> FALSE, parent |-> FALSE, size |-> CHOOSE s \in Sizes : TRUE,
           drawn |-> FALSE, redraw |-> FALSE, callback |-> FALSE, task |-> FALSE]

Init ==
  /\ todo = <<"GetCommandLineArguments">>
  /\ window = [is |-> "none", window_handle_ |-> FALSE, child_content_ |-> FALSE,
               quit_on_close_ |-> FALSE, flutter_controller_ |-> "null",
               deleting |-> FALSE]
  /\ hwnd = [life |-> "none", that |-> FALSE, size |-> NoView.size,
             dark |-> FALSE, shown |-> FALSE, destroys |-> 0]
  /\ view = NoView
  /\ registrar = [count |-> 0, class_registered_ |-> FALSE, known |-> FALSE]
  /\ sys \in [brightness: Brightness, notice: {FALSE}, quit: {FALSE},
              com: {FALSE}, exit: {"running"}]
  /\ argv \in CommandLines \cup {<< >>}
  /\ dartArguments = << >>

-----------------------------------------------------------------------------
(***************************************************************************)
(* The stack.                                                              *)
(***************************************************************************)
First(step)   == todo # << >> /\ Head(todo) = step
Return        == todo' = Tail(todo)
Call(steps)   == todo' = steps \o Tail(todo)
Push(message) == todo' = <<message>> \o todo

Destructors == <<"~FlutterWindow", "~Win32Window", "return">>
Destroy     == <<"OnDestroy", "DestroyWindow", "UnregisterIfLast">>

(***************************************************************************)
(* What Windows sends while it destroys a window: it is deactivated first. *)
(***************************************************************************)
DestroyMessages ==
  (IF hwnd.shown THEN <<"WM_ACTIVATE">> ELSE << >>)
    \o <<"WM_DESTROY", "WM_NCDESTROY">>

DestroyHwnd ==
  hwnd' = [hwnd EXCEPT !.life = "destroying", !.destroys = @ + 1]

-----------------------------------------------------------------------------
(***************************************************************************)
(* wWinMain: the arguments, the window object, Create, and only then       *)
(* SetQuitOnClose(true).  Where Create returns false, the window's         *)
(* destructors run and the program ends, without CoUninitialize.           *)
(***************************************************************************)
GetArguments ==
  /\ First("GetCommandLineArguments")
  /\ sys' = [sys EXCEPT !.com = TRUE]
  /\ dartArguments' = GetCommandLineArguments(argv)
  /\ Call(<<"FlutterWindow">> \o Destroy \o
          <<"GetWindowClass", "CreateWindow", "UpdateTheme", "OnCreate",
            "SetQuitOnClose", "GetMessage">>)
  /\ UNCHANGED <<window, hwnd, view, registrar, argv>>

ArgumentsThrow ==
  /\ First("GetCommandLineArguments")
  /\ \E i \in 2 .. Len(argv) : MayThrow(argv[i])
  /\ sys' = [sys EXCEPT !.com = TRUE, !.exit = "terminated"]
  /\ todo' = << >>
  /\ UNCHANGED <<window, hwnd, view, registrar, lineVars>>

Construct ==
  /\ First("FlutterWindow")
  /\ window' = [window EXCEPT !.is = "FlutterWindow"]
  /\ registrar' = [registrar EXCEPT !.count = @ + 1]
  /\ Return
  /\ UNCHANGED <<hwnd, view, sys, lineVars>>

ExitFailure ==
  /\ todo' = Destructors
  /\ sys' = [sys EXCEPT !.exit = "failure"]

SetQuitOnClose ==
  /\ First("SetQuitOnClose")
  /\ window' = [window EXCEPT !.quit_on_close_ = TRUE]
  /\ Return
  /\ UNCHANGED <<hwnd, view, registrar, sys, lineVars>>

-----------------------------------------------------------------------------
(***************************************************************************)
(* Create: it has called Destroy; the class is registered if it is not yet,*)
(* and Windows makes the window or does not.                               *)
(***************************************************************************)
GetWindowClass ==
  /\ First("GetWindowClass")
  /\ registrar' = [registrar EXCEPT !.class_registered_ = TRUE,
                                    !.known = @ \/ ~registrar.class_registered_]
  /\ Return
  /\ UNCHANGED <<window, hwnd, view, sys, lineVars>>

CreateWindow ==
  /\ First("CreateWindow") /\ registrar.known
  /\ \E size \in Sizes : hwnd' = [hwnd EXCEPT !.life = "alive", !.size = size]
  /\ Call(<<"WM_GETMINMAXINFO", "WM_NCCREATE">>)
  /\ UNCHANGED <<window, view, registrar, sys, lineVars>>

CreateWindowFails ==
  /\ First("CreateWindow")
  /\ ExitFailure
  /\ UNCHANGED <<window, hwnd, view, registrar, lineVars>>

(***************************************************************************)
(* A registry value that cannot be read leaves the frame as it is.         *)
(***************************************************************************)
ThemedDark(w) ==                            \* a slip: never back to light
  IF sys.brightness = "dark" THEN [w EXCEPT !.dark = TRUE] ELSE w
Themed(w) == IF sys.brightness = "missing" THEN w
             ELSE [w EXCEPT !.dark = (sys.brightness = "dark")]

UpdateTheme ==
  /\ First("UpdateTheme")
  /\ hwnd' = Themed(hwnd)
  /\ Return
  /\ UNCHANGED <<window, view, registrar, sys, lineVars>>

(***************************************************************************)
(* FlutterWindow::OnCreate.  The controller makes its engine and its view  *)
(* of the window's size; without one of the two the creation has failed.   *)
(***************************************************************************)
OnCreateFails ==
  /\ First("OnCreate")
  /\ window' = [window EXCEPT !.flutter_controller_ = "broken"]
  /\ \E made \in BOOLEAN : view' = [view EXCEPT !.window = made]
  /\ ExitFailure
  /\ UNCHANGED <<hwnd, registrar, lineVars>>

OnCreate ==
  /\ First("OnCreate")
  /\ window' = [window EXCEPT !.flutter_controller_ = "ok"]
  /\ view' = [view EXCEPT !.window = TRUE, !.size = hwnd.size]
  /\ Call(<<"SetChildContent", "SetNextFrameCallback", "ForceRedraw">>)
  /\ UNCHANGED <<hwnd, registrar, sys, lineVars>>

Fit(v) == [v EXCEPT !.size = hwnd.size]     \* MoveWindow to GetClientArea()

SetChildContent ==
  /\ First("SetChildContent")
  /\ window' = [window EXCEPT !.child_content_ = TRUE]
  /\ view' = [Fit(view) EXCEPT !.parent = TRUE]
  /\ Return
  /\ UNCHANGED <<hwnd, registrar, sys, lineVars>>

SetNextFrameCallback ==
  /\ First("SetNextFrameCallback")
  /\ view' = [view EXCEPT !.callback = TRUE]
  /\ Return
  /\ UNCHANGED <<window, hwnd, registrar, sys, lineVars>>

ForceNothing(v) == v                            \* a slip: no ForceRedraw
Forced(v) == [v EXCEPT !.redraw = v.drawn]      \* no frame yet: a no-op

ForceRedraw ==
  /\ First("ForceRedraw")
  /\ view' = Forced(view)
  /\ Return
  /\ UNCHANGED <<window, hwnd, registrar, sys, lineVars>>

(***************************************************************************)
(* The callback's Show; Windows sends what comes with a window's showing.  *)
(***************************************************************************)
Show ==
  /\ First("Show")
  /\ hwnd' = [hwnd EXCEPT !.shown = @ \/ window.window_handle_]
  /\ IF window.window_handle_ THEN Call(<<"WM_ACTIVATE", "WM_SIZE">>) ELSE Return
  /\ UNCHANGED <<window, view, registrar, sys, lineVars>>

-----------------------------------------------------------------------------
(***************************************************************************)
(* Win32Window::Destroy, a virtual OnDestroy first.  The pointer to the    *)
(* controller is null before the deletion begins.                          *)
(***************************************************************************)
ForgottenLate(w) == [w EXCEPT !.deleting = TRUE]   \* a slip: null afterwards
Forgotten(w) == [w EXCEPT !.flutter_controller_ = "null", !.deleting = TRUE]

OnDestroy ==
  /\ First("OnDestroy")
  /\ IF window.is = "FlutterWindow" /\ window.flutter_controller_ # "null"
     THEN window' = Forgotten(window) /\ Call(<<"DeleteController", "Deleted">>)
     ELSE UNCHANGED window /\ Return
  /\ UNCHANGED <<hwnd, view, registrar, sys, lineVars>>

(***************************************************************************)
(* Flutter stops and destroys its child window, which tells its parent.    *)
(***************************************************************************)
DeleteController ==
  /\ First("DeleteController")
  /\ view' = [view EXCEPT !.window = FALSE, !.parent = FALSE, !.redraw = FALSE,
                          !.callback = FALSE, !.task = FALSE]
  /\ IF view.window /\ view.parent THEN Call(<<"WM_PARENTNOTIFY">>) ELSE Return
  /\ UNCHANGED <<window, hwnd, registrar, sys, lineVars>>

Deleted ==
  /\ First("Deleted")
  /\ window' = [window EXCEPT !.flutter_controller_ = "null", !.deleting = FALSE]
  /\ Return
  /\ UNCHANGED <<hwnd, view, registrar, sys, lineVars>>

DestroyWindow ==
  /\ First("DestroyWindow")
  /\ IF window.window_handle_
     THEN DestroyHwnd /\ Call(DestroyMessages \o <<"ForgetHandle">>)
     ELSE UNCHANGED hwnd /\ Return
  /\ UNCHANGED <<window, view, registrar, sys, lineVars>>

WithHandle(w)    == w                            \* a slip: not set to null
WithoutHandle(w) == [w EXCEPT !.window_handle_ = FALSE]

ForgetHandle ==
  /\ First("ForgetHandle")
  /\ window' = WithoutHandle(window)
  /\ Return
  /\ UNCHANGED <<hwnd, view, registrar, sys, lineVars>>

(***************************************************************************)
(* UnregisterWindowClass fails, unnoticed, while a window of the class     *)
(* exists: in the Destroy inside the WM_DESTROY a destructor's Destroy     *)
(* sends.                                                                  *)
(***************************************************************************)
UnregisterIfLast ==
  /\ First("UnregisterIfLast")
  /\ registrar' =
       IF registrar.count # 0 THEN registrar
       ELSE [registrar EXCEPT
               !.class_registered_ = FALSE,
               !.known = @ /\ hwnd.life \in {"alive", "destroying"}]
  /\ Return
  /\ UNCHANGED <<window, hwnd, view, sys, lineVars>>

(***************************************************************************)
(* The destructors: the controller is a member of FlutterWindow, and in    *)
(* ~Win32Window virtual calls are Win32Window's own.                       *)
(***************************************************************************)
DestructFlutterWindow ==
  /\ First("~FlutterWindow")
  /\ IF window.flutter_controller_ # "null"
     THEN /\ window' = [window EXCEPT !.deleting = TRUE]
          /\ Call(<<"DeleteController", "Deleted">>)
     ELSE UNCHANGED window /\ Return
  /\ UNCHANGED <<hwnd, view, registrar, sys, lineVars>>

CountedDownTwice(n) == n - 2             \* a slip: in both destructors
CountedDown(n) == n - 1

DestructWin32Window ==
  /\ First("~Win32Window")
  /\ window' = [window EXCEPT !.is = "Win32Window"]
  /\ registrar' = [registrar EXCEPT !.count = CountedDown(@)]
  /\ Call(Destroy)
  /\ UNCHANGED <<hwnd, view, sys, lineVars>>

ReturnFromMain ==
  /\ First("return")
  /\ window' = [window EXCEPT !.is = "none"]
  /\ sys' = [sys EXCEPT !.exit = IF @ = "running" THEN "success" ELSE @]
  /\ todo' = << >>
  /\ UNCHANGED <<hwnd, view, registrar, lineVars>>
-----------------------------------------------------------------------------
(***************************************************************************)
(* WndProc.  Before WM_NCCREATE the window has no object; afterwards every *)
(* message is the object's, and a FlutterWindow asks its controller first. *)
(***************************************************************************)
NcCreate ==
  /\ First("WM_NCCREATE")
  /\ hwnd' = [hwnd EXCEPT !.that = TRUE]
  /\ window' = [window EXCEPT !.window_handle_ = TRUE]
  /\ Return
  /\ UNCHANGED <<view, registrar, sys, lineVars>>

NoObject ==
  /\ First("WM_GETMINMAXINFO") /\ ~hwnd.that
  /\ Return
  /\ UNCHANGED <<window, hwnd, view, registrar, sys, lineVars>>

AsksFlutter == window.is = "FlutterWindow" /\ window.flutter_controller_ # "null"

FlutterTakes ==
  /\ AsksFlutter /\ \E m \in Takes : First(m)
  /\ Return
  /\ UNCHANGED <<window, hwnd, view, registrar, sys, lineVars>>

Handles(m) == First(m) /\ hwnd.that

QuitOnly   == <<"PostQuitMessage">>               \* a slip: no Destroy
WhenClosed == Destroy \o <<"PostQuitMessage">>

OnWmDestroy ==
  /\ Handles("WM_DESTROY")
  /\ window' = WithoutHandle(window)
  /\ Call(WhenClosed)
  /\ UNCHANGED <<hwnd, view, registrar, sys, lineVars>>

PostsQuitIfShown == window.quit_on_close_ /\ hwnd.shown   \* a slip
PostsQuit == window.quit_on_close_

PostQuitMessage ==
  /\ First("PostQuitMessage")
  /\ sys' = [sys EXCEPT !.quit = @ \/ PostsQuit]
  /\ Return
  /\ UNCHANGED <<window, hwnd, view, registrar, lineVars>>

OnDpiChanged ==
  /\ Handles("WM_DPICHANGED")
  /\ \E size \in Sizes : hwnd' = [hwnd EXCEPT !.size = size]
  /\ Call(<<"WM_SIZE">>)
  /\ UNCHANGED <<window, view, registrar, sys, lineVars>>

FitShown(v) == IF hwnd.shown THEN Fit(v) ELSE v   \* a slip: not while hidden
FitChild(v) == IF window.child_content_ THEN Fit(v) ELSE v

OnSize ==
  /\ Handles("WM_SIZE")
  /\ view' = FitChild(view)
  /\ Return
  /\ UNCHANGED <<window, hwnd, registrar, sys, lineVars>>

OnColorChanged ==
  /\ Handles("WM_DWMCOLORIZATIONCOLORCHANGED")
  /\ hwnd' = Themed(hwnd)
  /\ Return
  /\ UNCHANGED <<window, view, registrar, sys, lineVars>>

(***************************************************************************)
(* WM_ACTIVATE gives the focus to the child, WM_FONTCHANGE has Flutter     *)
(* load the fonts again, the rest is DefWindowProc's: nothing that is      *)
(* modelled here changes.                                                  *)
(***************************************************************************)
OnOther ==
  /\ \E m \in {"WM_ACTIVATE", "WM_FONTCHANGE", "WM_PARENTNOTIFY"} : Handles(m)
  /\ Return
  /\ UNCHANGED <<window, hwnd, view, registrar, sys, lineVars>>

(***************************************************************************)
(* DefWindowProc closes the window the object has a handle of.             *)
(***************************************************************************)
OnClose ==
  /\ Handles("WM_CLOSE")
  /\ IF window.window_handle_
     THEN DestroyHwnd /\ Call(DestroyMessages)
     ELSE UNCHANGED hwnd /\ Return
  /\ UNCHANGED <<window, view, registrar, sys, lineVars>>

OnNcDestroy ==
  /\ Handles("WM_NCDESTROY")
  /\ hwnd' = [hwnd EXCEPT !.life = "gone", !.that = FALSE, !.shown = FALSE]
  /\ view' = [view EXCEPT !.window = @ /\ ~view.parent, !.parent = FALSE]
  /\ sys' = [sys EXCEPT !.notice = FALSE]
  /\ Return
  /\ UNCHANGED <<window, registrar, lineVars>>
-----------------------------------------------------------------------------
(***************************************************************************)
(* The message loop, and what other threads do meanwhile: the user changes *)
(* the theme (a window that exists is told), Flutter draws a frame.        *)
(***************************************************************************)
GetMessage(m) ==
  /\ First("GetMessage") /\ hwnd.life = "alive"
  /\ Push(m)
  /\ CASE m = "WM_SIZE" ->
            /\ \E size \in Sizes : hwnd' = [hwnd EXCEPT !.size = size]
            /\ UNCHANGED <<view, sys>>
       [] m \in Recolored ->
            /\ sys.notice /\ sys' = [sys EXCEPT !.notice = FALSE]
            /\ UNCHANGED <<hwnd, view>>
       [] OTHER -> UNCHANGED <<hwnd, view, sys>>
  /\ UNCHANGED <<window, registrar, lineVars>>

GetFrameTask ==
  /\ First("GetMessage") /\ view.task
  /\ view' = [view EXCEPT !.task = FALSE]
  /\ Push("Show")
  /\ UNCHANGED <<window, hwnd, registrar, sys, lineVars>>

GetQuit ==
  /\ First("GetMessage") /\ sys.quit
  /\ sys' = [sys EXCEPT !.com = FALSE]
  /\ todo' = Destructors
  /\ UNCHANGED <<window, hwnd, view, registrar, lineVars>>

ChangeTheme ==
  /\ \E b \in Brightness \ {sys.brightness} :
       sys' = [sys EXCEPT !.brightness = b,
                          !.notice = @ \/ hwnd.life = "alive"]
  /\ UNCHANGED <<todo, window, hwnd, view, registrar, lineVars>>

DrawFrame ==
  /\ window.flutter_controller_ = "ok" /\ ~window.deleting
  /\ (~view.drawn \/ view.redraw)
  /\ view' = [view EXCEPT !.drawn = TRUE, !.redraw = FALSE, !.callback = FALSE,
                          !.task = @ \/ view.callback]
  /\ UNCHANGED <<todo, window, hwnd, registrar, sys, lineVars>>

Loop ==
  \E m \in {"WM_CLOSE", "WM_SIZE", "WM_DPICHANGED", "WM_ACTIVATE",
            "WM_FONTCHANGE"} \cup Recolored : GetMessage(m)

Step ==
  \/ GetArguments \/ ArgumentsThrow \/ Construct \/ SetQuitOnClose
  \/ GetWindowClass \/ CreateWindow \/ CreateWindowFails \/ UpdateTheme
  \/ OnCreate \/ OnCreateFails
  \/ SetChildContent \/ SetNextFrameCallback \/ ForceRedraw \/ Show
  \/ OnDestroy \/ DeleteController \/ Deleted \/ DestroyWindow \/ ForgetHandle
  \/ UnregisterIfLast
  \/ DestructFlutterWindow \/ DestructWin32Window \/ ReturnFromMain
  \/ NcCreate \/ NoObject \/ FlutterTakes
  \/ OnWmDestroy \/ PostQuitMessage \/ OnDpiChanged \/ OnSize \/ OnColorChanged
  \/ OnOther \/ OnClose \/ OnNcDestroy
  \/ GetQuit

Next == Step \/ Loop \/ GetFrameTask \/ ChangeTheme \/ DrawFrame

(***************************************************************************)
(* The thread runs, Flutter draws, and of the messages that keep coming    *)
(* the loop does not put off the frame's task for ever: the queue is FIFO. *)
(***************************************************************************)
Fairness == WF_vars(Step) /\ WF_vars(DrawFrame) /\ SF_vars(GetFrameTask)

Spec == Init /\ [][Next]_vars /\ Fairness
=============================================================================
