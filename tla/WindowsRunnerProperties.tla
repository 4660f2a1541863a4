----------------------- MODULE WindowsRunnerProperties -----------------------
(***************************************************************************)
(* What the Windows runner promises.                                       *)
(***************************************************************************)
EXTENDS WindowsRunner

Steps == Messages \cup
  {"GetCommandLineArguments", "FlutterWindow", "GetWindowClass", "CreateWindow",
   "UpdateTheme", "OnCreate", "SetChildContent", "SetNextFrameCallback",
   "ForceRedraw", "SetQuitOnClose", "GetMessage", "Show", "PostQuitMessage",
   "OnDestroy", "DeleteController", "Deleted", "DestroyWindow", "ForgetHandle",
   "UnregisterIfLast", "~FlutterWindow", "~Win32Window", "return"}

Objects ==
  [is: {"none", "FlutterWindow", "Win32Window"}, window_handle_: BOOLEAN,
   child_content_: BOOLEAN, quit_on_close_: BOOLEAN, deleting: BOOLEAN,
   flutter_controller_: {"null", "broken", "ok"}]
Windows ==
  [life: {"none", "alive", "destroying", "gone"}, that: BOOLEAN, size: Sizes,
   dark: BOOLEAN, shown: BOOLEAN, destroys: Nat]
Views ==
  [window: BOOLEAN, parent: BOOLEAN, size: Sizes, drawn: BOOLEAN, redraw: BOOLEAN,
   callback: BOOLEAN, task: BOOLEAN]
Registrars == [count: Nat, class_registered_: BOOLEAN, known: BOOLEAN]
Systems ==
  [brightness: Brightness, notice: BOOLEAN, quit: BOOLEAN, com: BOOLEAN,
   exit: {"running", "success", "failure", "terminated"}]

\* Every variable keeps its type.
TypeOK ==
  /\ todo \in Seq(Steps)
  /\ window \in Objects
  /\ hwnd \in Windows
  /\ view \in Views
  /\ registrar \in Registrars
  /\ sys \in Systems
  /\ argv \in CommandLines \cup {<< >>}
  /\ dartArguments \in Seq(Seq(Bytes))

-----------------------------------------------------------------------------
(***************************************************************************)
(* No message handler touches what is being destroyed or is gone, although *)
(* destroying the controller and the window sends messages to the handler: *)
(***************************************************************************)
Receiving == todo # << >> /\ Head(todo) \in Messages /\ hwnd.that

\* a message never goes to a controller whose deletion is under way
\* (flutter_window.cpp:55-58), or to an object that has been destructed;
NotToTheDying ==
  Receiving => window.is # "none" /\ (AsksFlutter => ~window.deleting)

\* the engine that WM_FONTCHANGE has load the fonts again is there: nothing
\* at that place asks whether it is (flutter_window.cpp:66);
FontsHaveEngine ==
  Receiving /\ Head(todo) = "WM_FONTCHANGE" => window.flutter_controller_ = "ok"

\* the child that WM_SIZE moves and WM_ACTIVATE focuses still exists,
\* although child_content_ is never reset (win32_window.cpp:202-212).
ChildIsThere ==
  Receiving /\ Head(todo) \in {"WM_SIZE", "WM_ACTIVATE"} /\ window.child_content_
    => view.window

HandlersTouchTheLiving == NotToTheDying /\ FontsHaveEngine /\ ChildIsThere

\* Destroy runs in the Destroy that sends WM_DESTROY, and again in the
\* destructor, yet no window is destroyed twice; once the object is gone no
\* window is left that would call it, and the class is not left registered.
DestroyedOnce ==
  /\ hwnd.destroys <= 1
  /\ (todo = << >> /\ sys.exit # "terminated") =>
        hwnd.life \in {"none", "gone"} /\ ~registrar.known

\* Flutter and its plugins run only between CoInitializeEx and
\* CoUninitialize (main.cpp:16-18, 41): the loop does not end before the
\* controller is deleted.
ComForFlutter == window.flutter_controller_ # "null" => sys.com

Idle == First("GetMessage") /\ hwnd.life = "alive"

\* Whenever the thread waits for a message, the child fills the window's
\* client area, however often and by whom the window was resized.
ChildFits == Idle /\ view.parent => view.size = hwnd.size

\* Whenever the thread waits with no notice of a change under way, the
\* frame's theme is the one the registry asks for, a change while the window
\* was being made included; a value that is missing changes nothing.
ThemeFollows ==
  Idle /\ ~sys.notice /\ sys.brightness # "missing" =>
    (hwnd.dark <=> sys.brightness = "dark")

\* The arguments Dart gets are the command line's without the program, in
\* UTF-8; one that is not UTF-16 becomes empty or ends the program, and
\* nothing else ends it there.
DartGetsArguments ==
  LET converted(s) == IF WellFormed(s) THEN Encoding(s) ELSE << >>
  IN  /\ (window.is # "none" /\ argv # << >>) =>
            dartArguments = [i \in 1 .. Len(argv) - 1 |-> converted(argv[i + 1])]
      /\ sys.exit = "terminated" => \E i \in DOMAIN argv : ~WellFormed(argv[i])

-----------------------------------------------------------------------------
\* A window Flutter was set up in is shown, or destroyed before: whichever
\* comes first, the first frame or the callback for it
\* (flutter_window.cpp:30-37).
WindowIsShown ==
  (window.child_content_ /\ hwnd.life = "alive")
    ~> (hwnd.shown \/ hwnd.life # "alive")

\* When the window is destroyed, the program ends.
ClosingEnds == (hwnd.life = "gone") ~> (todo = << >>)
=============================================================================
