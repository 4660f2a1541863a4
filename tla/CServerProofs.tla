---------------------------- MODULE CServerProofs ----------------------------
(***************************************************************************)
(* For every set of command lines and every MaxLength: the C server goes   *)
(* on with its address unset only if its argument vector is empty, and     *)
(* refuses no valid command line.                                          *)
(***************************************************************************)
EXTENDS CServer, FiniteSetTheorems, TLAPS

(***************************************************************************)
(* Three dots that separate numbers are what verify_ip_form looks for.     *)
(***************************************************************************)
LEMMA DottedQuadPasses ==
  ASSUME CAssumption, NEW ip \in Strings, DottedQuad(ip)
  PROVE  verify_ip_form(ip)
<1>1. PICK p, q, r \in DOMAIN ip :
        /\ p < q /\ q < r
        /\ \A i \in DOMAIN ip :
             IF i \in {p, q, r} THEN ip[i] = "." ELSE ip[i] \in Digits
  BY DEF DottedQuad
<1>2. DOMAIN ip \subseteq Nat
  BY DEF Strings
<1>3. p # q /\ p # r /\ q # r
  BY <1>1, <1>2
<1>4. "." \notin Digits
  BY DEF CAssumption
<1>5. Dots(ip) = {p, q, r}
  BY <1>1, <1>4 DEF Dots
<1>6. Cardinality({p, q, r}) = 3
  <2>1. IsFiniteSet({p}) /\ Cardinality({p}) = 1
    BY FS_Singleton
  <2>2. IsFiniteSet({p} \cup {q}) /\ Cardinality({p} \cup {q}) = 2
    BY <2>1, <1>3, FS_AddElement
  <2>3. Cardinality(({p} \cup {q}) \cup {r}) = 3
    BY <2>2, <1>3, FS_AddElement
  <2>4. ({p} \cup {q}) \cup {r} = {p, q, r}
    OBVIOUS
  <2> QED
    BY <2>3, <2>4
<1>7. \A i \in DOMAIN ip \ Dots(ip) : check_digit(ip[i])
  BY <1>1, <1>5 DEF check_digit
<1> QED
  BY <1>5, <1>6, <1>7 DEF verify_ip_form

(***************************************************************************)
(* What an argument may be, and that it is never what malloc left.         *)
(***************************************************************************)
LEMMA ArgumentsAreStrings ==
  ASSUME CAssumption, NEW line \in CommandLines, NEW i \in 1 .. Len(line)
  PROVE  line[i] \in Strings /\ line[i] # Garbage
<1>1. line \in Seq(Strings)
  BY DEF CAssumption
<1>2. line[i] \in Seq(Chars)
  BY <1>1 DEF Strings
<1>3. ASSUME line[i] = Garbage PROVE FALSE
  <2>1. Len(line[i]) = 1 /\ line[i][1] = "?"
    BY <1>3 DEF Garbage
  <2>2. line[i][1] \in Chars
    BY <1>2, <2>1
  <2> QED
    BY <2>1, <2>2 DEF CAssumption
<1> QED
  BY <1>2, <1>3 DEF Strings

(***************************************************************************)
(* check_args is still to run, or has set nothing before it refuses.       *)
(***************************************************************************)
Untouched ==
  pc = "init" => addr.ip_adress = Garbage /\ addr.port = Garbage

LEMMA InitOK ==
  ASSUME CAssumption, Init
  PROVE  TypeOK /\ Untouched /\ AddressIsSet /\ ValidIsAccepted
BY DEF CAssumption, Init, TypeOK, Untouched, AddressIsSet, ValidIsAccepted

(***************************************************************************)
(* The inductive step, by action: those that refuse, those that go on.     *)
(***************************************************************************)
LEMMA StepType ==
  ASSUME CAssumption, TypeOK, [Next]_vars
  PROVE  TypeOK'
<1> USE DEF TypeOK
<1>1. CASE UNCHANGED vars
  BY <1>1 DEF vars
<1>2. CASE \/ CommandTooLong \/ TooManyArguments \/ NoCommand \/ InvalidCommand
           \/ InvalidIp
  BY <1>2 DEF CommandTooLong, TooManyArguments, NoCommand, InvalidCommand,
    InvalidIp, Fail
<1>3. CASE RunDefault \/ RunOnIp \/ RunOnIpAndPort \/ NoArguments
  BY <1>3 DEF RunDefault, RunOnIp, RunOnIpAndPort, NoArguments, Start
<1>4. CASE MakeSocket
  BY <1>4 DEF MakeSocket
<1> QED
  BY <1>1, <1>2, <1>3, <1>4 DEF Next

LEMMA StepUntouched ==
  ASSUME TypeOK, Untouched, [Next]_vars
  PROVE  Untouched'
BY DEF Untouched, vars, Next, CommandTooLong, TooManyArguments, NoCommand,
  InvalidCommand, InvalidIp, Fail, RunDefault, RunOnIp, RunOnIpAndPort, Start,
  NoArguments, MakeSocket

LEMMA StepAddress ==
  ASSUME CAssumption, TypeOK, Untouched, AddressIsSet, [Next]_vars
  PROVE  AddressIsSet'
<1>0. argv \in CommandLines
  BY DEF TypeOK
<1> USE DEF AddressIsSet, argc
<1>1. CASE UNCHANGED vars
  BY <1>1 DEF vars
<1>2. CASE \/ CommandTooLong \/ TooManyArguments \/ NoCommand \/ InvalidCommand
           \/ InvalidIp
  BY <1>2 DEF CommandTooLong, TooManyArguments, NoCommand, InvalidCommand,
    InvalidIp, Fail
<1>3. DefaultIp # Garbage /\ DefaultPort # Garbage
  BY DEF DefaultIp, DefaultPort, Garbage
<1>4. CASE RunDefault
  BY <1>3, <1>4 DEF RunDefault, Start
<1>5. CASE RunOnIp
  <2>1. Len(argv) = 3
    BY <1>5 DEF RunOnIp
  <2>2. argv[3] # Garbage
    BY <1>0, <2>1, ArgumentsAreStrings
  <2> QED
    BY <1>3, <1>5, <2>1, <2>2 DEF RunOnIp, Start
<1>6. CASE RunOnIpAndPort
  <2>1. Len(argv) = 4
    BY <1>6 DEF RunOnIpAndPort
  <2>2. 3 \in 1 .. Len(argv) /\ 4 \in 1 .. Len(argv)
    BY <2>1
  <2>3. argv[3] # Garbage
    BY <1>0, <2>2, ArgumentsAreStrings
  <2>4. argv[4] # Garbage
    BY <1>0, <2>2, ArgumentsAreStrings
  <2> QED
    BY <1>6, <2>1, <2>3, <2>4 DEF RunOnIpAndPort, Start
<1>7. CASE MakeSocket
  BY <1>7 DEF MakeSocket
<1>8. CASE NoArguments
  BY <1>8 DEF NoArguments, Checking, Untouched
<1> QED
  BY <1>1, <1>2, <1>4, <1>5, <1>6, <1>7, <1>8 DEF Next

LEMMA MoreThanFour == \A n \in Nat : n > 4 => n \notin 2 .. 4
OBVIOUS

LEMMA ArgvLength ==
  ASSUME CAssumption, TypeOK
  PROVE  Len(argv) \in Nat
<1>1. argv \in Seq(Strings)
  BY DEF CAssumption, TypeOK
<1> QED
  BY <1>1

LEMMA StepAccepted ==
  ASSUME CAssumption, TypeOK, ValidIsAccepted, [Next]_vars
  PROVE  ValidIsAccepted'
<1>1. CASE UNCHANGED vars
  BY <1>1 DEF vars, ValidIsAccepted, ValidCommand
<1>2. CASE RunDefault \/ RunOnIp \/ RunOnIpAndPort
  BY <1>2 DEF RunDefault, RunOnIp, RunOnIpAndPort, Start, ValidIsAccepted
<1>3. CASE MakeSocket \/ NoArguments
  BY <1>3 DEF MakeSocket, NoArguments, ValidIsAccepted
<1>4. CASE CommandTooLong
  <2>1. ~ValidCommand
    BY <1>4 DEF CommandTooLong, NoneTooLong, ValidCommand
  <2> QED
    BY <1>4, <2>1 DEF CommandTooLong, Fail, ValidIsAccepted, ValidCommand
<1>5. CASE TooManyArguments \/ NoCommand \/ InvalidCommand
  <2>1. CASE TooManyArguments
    <3>1. Len(argv) > 4
      BY <2>1 DEF TooManyArguments, argc
    <3>2. Len(argv) \notin 2 .. 4
      BY <3>1, ArgvLength, MoreThanFour
    <3>3. ~ValidCommand
      BY <3>2 DEF ValidCommand
    <3> QED
      BY <2>1, <3>3 DEF TooManyArguments, Fail, ValidIsAccepted, ValidCommand
  <2>2. CASE NoCommand
    <3>1. Len(argv) = 1
      BY <2>2 DEF NoCommand, argc
    <3>2. Len(argv) \notin 2 .. 4
      BY <3>1
    <3>3. ~ValidCommand
      BY <3>2 DEF ValidCommand
    <3> QED
      BY <2>2, <3>3 DEF NoCommand, Fail, ValidIsAccepted, ValidCommand
  <2>3. CASE InvalidCommand
    <3>1. ~ValidCommand
      BY <2>3 DEF InvalidCommand, ValidCommand
    <3> QED
      BY <2>3, <3>1 DEF InvalidCommand, Fail, ValidIsAccepted, ValidCommand
  <2> QED
    BY <1>5, <2>1, <2>2, <2>3
<1>6. CASE InvalidIp
  <2>1. argv[3] \in Strings /\ Len(argv) > 2
    <3>1. argv \in CommandLines
      BY DEF TypeOK
    <3>2. Len(argv) \in 3 .. 4
      BY <1>6 DEF InvalidIp, argc
    <3> QED
      BY <3>1, <3>2, ArgumentsAreStrings
  <2>2. ~DottedQuad(argv[3])
    BY <1>6, <2>1, DottedQuadPasses DEF InvalidIp
  <2>3. ~ValidCommand
    BY <2>1, <2>2 DEF ValidCommand
  <2> QED
    BY <1>6, <2>3 DEF InvalidIp, Fail, ValidIsAccepted, ValidCommand
<1> QED
  BY <1>1, <1>2, <1>3, <1>4, <1>5, <1>6 DEF Next

(***************************************************************************)
(* The C server keeps its types; it goes on with an address and a port set *)
(* exactly if it has any argument, its name included; and it ends on a     *)
(* valid command line only for want of a socket (check_args, server.c:64). *)
(***************************************************************************)
THEOREM CServerAcceptsTheValid ==
  ASSUME CAssumption
  PROVE  Spec => [](TypeOK /\ AddressIsSet /\ ValidIsAccepted)
<1>1. Init => TypeOK /\ Untouched /\ AddressIsSet /\ ValidIsAccepted
  BY InitOK
<1>2. TypeOK /\ Untouched /\ AddressIsSet /\ ValidIsAccepted /\ [Next]_vars
        => (TypeOK /\ Untouched /\ AddressIsSet /\ ValidIsAccepted)'
  BY StepType, StepUntouched, StepAddress, StepAccepted
<1> QED
  BY <1>1, <1>2, PTL DEF Spec
=============================================================================
