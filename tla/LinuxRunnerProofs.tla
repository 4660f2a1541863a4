-------------------------- MODULE LinuxRunnerProofs --------------------------
(***************************************************************************)
(* For every command line and any number of disposals: the Linux runner    *)
(* keeps its types, passes its arguments on and frees them once.           *)
(***************************************************************************)
EXTENDS LinuxRunner, TLAPS

(***************************************************************************)
(* The inductive invariant: where the program is says whether it has the   *)
(* vector.  Before its disposal nothing is freed; each disposal after the  *)
(* first finds the pointer cleared.                                        *)
(***************************************************************************)
Owned == dart_entrypoint_arguments = [set |-> TRUE, strings |-> Tail(argv)]

Arguments ==
  /\ pc = "main" => dart_entrypoint_arguments = Null /\ frees = 0 /\ disposals = 0
  /\ pc \in {"register", "activate", "loop"} => Owned /\ frees = 0 /\ disposals = 0

Freed ==
  /\ disposals \in Nat /\ frees \in {0, 1}
  /\ pc = "unref" /\ disposals = 0 => Owned /\ frees = 0
  /\ pc = "unref" /\ disposals # 0 => dart_entrypoint_arguments = Null /\ frees = 1
  /\ pc = "end" => frees = 1

Window ==
  \/ shown = Hidden
  \/ pc = "loop" /\ shown.window /\ shown.arguments = Tail(argv)

Inv == Arguments /\ Freed /\ Window

LEMMA InitInv == Init => Inv
BY DEF Init, Inv, Arguments, Freed, Window

(***************************************************************************)
(* One lemma for each part of the invariant.                               *)
(***************************************************************************)
LEMMA StepArguments ==
  ASSUME Inv, [Next]_vars
  PROVE  Arguments'
<1> USE DEF Inv, Arguments, Owned, Null
<1>1. CASE UNCHANGED vars
  BY <1>1 DEF vars
<1>2. CASE LocalCommandLine
  BY <1>2 DEF LocalCommandLine, WithoutProgram
<1>3. CASE RegisterFails \/ Register
  BY <1>3 DEF RegisterFails, Register
<1>4. CASE Activate
  BY <1>4 DEF Activate
<1>5. CASE CloseWindow
  BY <1>5 DEF CloseWindow
<1>6. CASE Shutdown \/ Dispose \/ Exit
  BY <1>6 DEF Shutdown, Dispose, Exit
<1> QED
  BY <1>1, <1>2, <1>3, <1>4, <1>5, <1>6 DEF Next

LEMMA StepFreed ==
  ASSUME Inv, [Next]_vars
  PROVE  Freed'
<1> USE DEF Inv, Arguments, Freed, Owned
<1>1. CASE UNCHANGED vars
  BY <1>1 DEF vars, Null
<1>2. CASE LocalCommandLine \/ Register \/ Activate \/ CloseWindow
  BY <1>2 DEF LocalCommandLine, Register, Activate, CloseWindow
<1>3. CASE RegisterFails
  BY <1>3 DEF RegisterFails
<1>4. CASE Shutdown
  BY <1>4 DEF Shutdown
<1>5. CASE Dispose
  BY <1>5 DEF Dispose, Cleared, Null
<1>6. CASE Exit
  BY <1>6 DEF Exit
<1> QED
  BY <1>1, <1>2, <1>3, <1>4, <1>5, <1>6 DEF Next

LEMMA StepWindow ==
  ASSUME Inv, [Next]_vars
  PROVE  Window'
<1> USE DEF Inv, Arguments, Window, Owned, Hidden
<1>1. CASE UNCHANGED vars
  BY <1>1 DEF vars
<1>2. CASE LocalCommandLine \/ RegisterFails \/ Register
  BY <1>2 DEF LocalCommandLine, RegisterFails, Register
<1>3. CASE Activate
  BY <1>3 DEF Activate
<1>4. CASE CloseWindow
  BY <1>4 DEF CloseWindow
<1>5. CASE Shutdown \/ Dispose \/ Exit
  BY <1>5 DEF Shutdown, Dispose, Exit
<1> QED
  BY <1>1, <1>2, <1>3, <1>4, <1>5 DEF Next

(***************************************************************************)
(* The view of the Linux runner gets the command line without the program, *)
(* from a vector that is there while it is shown, and the vector is freed  *)
(* exactly once (my_application.cc:54, 69, 105).                           *)
(***************************************************************************)
THEOREM LinuxRunnerPassesAndFrees ==
  Spec => [](ViewGetsArguments /\ FreedOnce)
<1>1. Inv => ViewGetsArguments
  BY DEF Inv, Arguments, Window, Owned, Hidden, ViewGetsArguments
<1>2. Inv => FreedOnce
  BY DEF Inv, Freed, FreedOnce
<1>3. Inv /\ [Next]_vars => Inv'
  BY StepArguments, StepFreed, StepWindow DEF Inv
<1> QED
  BY <1>1, <1>2, <1>3, InitInv, PTL DEF Spec

LEMMA StepType ==
  ASSUME LinuxAssumption, TypeOK, [Next]_vars
  PROVE  TypeOK'
<1>1. Disposals \in Nat /\ Tail(argv) \in Seq(STRING)
  <2>1. argv \in Seq(STRING) /\ argv # << >>
    BY DEF LinuxAssumption, TypeOK
  <2> QED
    BY <2>1 DEF LinuxAssumption
<1> USE DEF TypeOK
<1>2. CASE UNCHANGED vars
  BY <1>2 DEF vars
<1>3. CASE LocalCommandLine
  BY <1>1, <1>3 DEF LocalCommandLine, WithoutProgram
<1>4. CASE RegisterFails \/ Register \/ Shutdown \/ Exit
  BY <1>4 DEF RegisterFails, Register, Shutdown, Exit
<1>5. CASE Activate
  BY <1>5 DEF Activate
<1>6. CASE CloseWindow
  BY <1>6 DEF CloseWindow, Hidden
<1>7. CASE Dispose
  BY <1>1, <1>7 DEF Dispose, Cleared, Null
<1> QED
  BY <1>2, <1>3, <1>4, <1>5, <1>6, <1>7 DEF Next

(***************************************************************************)
(* Every variable of the Linux runner keeps its type; the vector without   *)
(* the program's name is one of strings again (my_application.cc:69).      *)
(***************************************************************************)
THEOREM LinuxRunnerTypes ==
  ASSUME LinuxAssumption
  PROVE  Spec => []TypeOK
<1>1. Init => TypeOK
  BY DEF LinuxAssumption, Init, TypeOK, Null, Hidden
<1>2. TypeOK /\ [Next]_vars => TypeOK'
  BY StepType
<1> QED
  BY <1>1, <1>2, PTL DEF Spec
=============================================================================
