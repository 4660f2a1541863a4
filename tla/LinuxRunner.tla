----------------------------- MODULE LinuxRunner -----------------------------
(***************************************************************************)
(* The Linux program around the Flutter client (client_flutter/linux/      *)
(* main.cc, my_application.cc): a GtkApplication whose virtual functions   *)
(* GLib calls one after the other on one thread.  GLib and GTK are         *)
(* modelled by when they call them: register calls startup, the main loop  *)
(* ends when the last window is closed, shutdown is called only if the     *)
(* application was registered, and dispose may be called more than once.   *)
(***************************************************************************)
EXTENDS Naturals, Sequences

CONSTANTS
  CommandLines,   \* the vectors main may get, the program's name first
  Disposals       \* bound: how often GObject may call dispose

\* What a module that instantiates this one assumes of the constants.
LinuxAssumption ==
  /\ \A line \in CommandLines : line \in Seq(STRING) /\ line # << >>
  /\ Disposals \in Nat \ {0}

VARIABLES
  pc,
  argv,
  screen,        \* the display: X with GNOME's window manager or not, Wayland
  dart_entrypoint_arguments,   \* the vector and whether self points to it
  frees,         \* history: how often the vector was freed
  disposals,
  shown,         \* the window: how it has its title, the view's arguments
  exit_status

vars == <<pc, argv, screen, dart_entrypoint_arguments, frees, disposals, shown,
          exit_status>>

Null    == [set |-> FALSE, strings |-> << >>]
Hidden  == [window |-> FALSE, title |-> "none", view |-> FALSE,
            arguments |-> << >>]

Init ==
  /\ pc = "main"
  /\ argv \in CommandLines
  /\ screen \in {"x11_gnome", "x11_other", "wayland"}
  /\ dart_entrypoint_arguments = Null
  /\ frees = 0 /\ disposals = 0
  /\ shown = Hidden
  /\ exit_status = 0

(***************************************************************************)
(* local_command_line copies all but the program's name, then registers.   *)
(***************************************************************************)
WithProgram(line)    == line                    \* a slip: no "+ 1"
WithoutProgram(line) == Tail(line)

LocalCommandLine ==
  /\ pc = "main"
  /\ pc' = "register"
  /\ dart_entrypoint_arguments' =
       [set |-> TRUE, strings |-> WithoutProgram(argv)]
  /\ UNCHANGED <<argv, screen, frees, disposals, shown, exit_status>>

RegisterFails ==
  /\ pc = "register"
  /\ pc' = "unref"
  /\ exit_status' = 1
  /\ UNCHANGED <<argv, screen, dart_entrypoint_arguments, frees, disposals, shown>>

Register ==                                     \* startup only chains up
  /\ pc = "register"
  /\ pc' = "activate"
  /\ UNCHANGED <<argv, screen, dart_entrypoint_arguments, frees, disposals, shown,
                 exit_status>>

(***************************************************************************)
(* use_header_bar starts out FALSE, and the only assignment sets it FALSE, *)
(* on X without GNOME.                                                     *)
(***************************************************************************)
UseHeaderBar == IF screen = "x11_other" THEN FALSE ELSE FALSE

Activate ==
  /\ pc = "activate"
  /\ pc' = "loop"
  /\ shown' = [window |-> TRUE,
               title |-> IF UseHeaderBar THEN "header_bar" ELSE "title_bar",
               view |-> TRUE,
               arguments |-> dart_entrypoint_arguments.strings]
  /\ exit_status' = 0
  /\ UNCHANGED <<argv, screen, dart_entrypoint_arguments, frees, disposals>>

CloseWindow ==
  /\ pc = "loop" /\ shown.window
  /\ shown' = Hidden
  /\ UNCHANGED <<pc, argv, screen, dart_entrypoint_arguments, frees, disposals,
                 exit_status>>

Shutdown ==                                     \* only chains up
  /\ pc = "loop" /\ ~shown.window
  /\ pc' = "unref"
  /\ UNCHANGED <<argv, screen, dart_entrypoint_arguments, frees, disposals, shown,
                 exit_status>>

(***************************************************************************)
(* g_clear_pointer frees the vector, if there is one, and forgets it.      *)
(***************************************************************************)
NotCleared(v) == v                              \* a slip: g_strfreev alone
Cleared(v)    == Null

Dispose ==
  /\ pc = "unref" /\ disposals < Disposals
  /\ disposals' = disposals + 1
  /\ dart_entrypoint_arguments' = Cleared(dart_entrypoint_arguments)
  /\ frees' = IF dart_entrypoint_arguments.set THEN frees + 1 ELSE frees
  /\ UNCHANGED <<pc, argv, screen, shown, exit_status>>

Exit ==
  /\ pc = "unref" /\ disposals > 0
  /\ pc' = "end"
  /\ UNCHANGED <<argv, screen, dart_entrypoint_arguments, frees, disposals, shown,
                 exit_status>>

Next ==
  \/ LocalCommandLine \/ RegisterFails \/ Register \/ Activate
  \/ CloseWindow \/ Shutdown \/ Dispose \/ Exit

Spec == Init /\ [][Next]_vars
-----------------------------------------------------------------------------
\* Every variable keeps its type.
TypeOK ==
  /\ pc \in {"main", "register", "activate", "loop", "unref", "end"}
  /\ argv \in CommandLines
  /\ screen \in {"x11_gnome", "x11_other", "wayland"}
  /\ dart_entrypoint_arguments \in [set : BOOLEAN, strings : Seq(STRING)]
  /\ frees \in Nat /\ disposals \in 0 .. Disposals
  /\ shown \in [window : BOOLEAN, title : {"none", "header_bar", "title_bar"},
                view : BOOLEAN, arguments : Seq(STRING)]
  /\ exit_status \in {0, 1}

\* The view gets the command line without the program, from a vector that is
\* there until the window is closed (my_application.cc:54, 69).
ViewGetsArguments ==
  shown.view => /\ shown.arguments = Tail(argv)
                /\ dart_entrypoint_arguments = [set |-> TRUE, strings |-> Tail(argv)]

\* Whether registration succeeds or fails and however often dispose is
\* called, the vector is freed once: not twice, and not never.
FreedOnce == frees <= 1 /\ (pc = "end" => frees = 1)
=============================================================================
