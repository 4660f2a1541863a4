-------------------------- MODULE WindowsArguments --------------------------
(***************************************************************************)
(* How the Windows runner turns its command line into the arguments of the *)
(* Dart entry point (client_flutter/windows/runner/utils.cpp).  A UTF-16   *)
(* string is a sequence of code units, a UTF-8 string one of bytes.  Four  *)
(* code units stand for all: one that takes one byte, one that takes two,  *)
(* and the two halves of a surrogate pair, which takes four.               *)
(***************************************************************************)
EXTENDS Integers, Sequences, SequencesExt

CONSTANTS
  UIntRange,   \* number of values of an unsigned int (2^32)
  MaxSize,     \* std::string::max_size()
  Plenty       \* bound: a string of up to this length can always be allocated

ASSUME UIntAssumption ==
  /\ UIntRange \in Nat \ {0} /\ MaxSize \in Nat /\ Plenty \in Nat
  /\ Plenty < UIntRange /\ Plenty <= MaxSize

Units == {"ascii", "latin", "high", "low"}
Bytes == {"1/1", "1/2", "2/2", "1/4", "2/4", "3/4", "4/4", "NUL"}

(***************************************************************************)
(* The encoding: one character of one or two units at a time.              *)
(***************************************************************************)
BytesOf(unit) ==
  CASE unit = "ascii" -> <<"1/1">>
    [] unit = "latin" -> <<"1/2", "2/2">>
    [] unit = "high"  -> <<"1/4", "2/4", "3/4">>     \* with the low half:
    [] unit = "low"   -> <<"4/4">>                   \* four bytes in all

WellFormed(s) ==
  \A i \in DOMAIN s :
    /\ s[i] = "high" => i < Len(s) /\ s[i + 1] = "low"
    /\ s[i] = "low"  => i > 1 /\ s[i - 1] = "high"

Encoding(s) == FlattenSeq([i \in DOMAIN s |-> BytesOf(s[i])])

(***************************************************************************)
(* The system's conversion with WC_ERR_INVALID_CHARS, of a string and, for *)
(* the length -1, of the NUL that ends it; no bytes when it fails.         *)
(***************************************************************************)
WideCharToMultiByte(s, withNul) ==
  IF WellFormed(s) THEN Encoding(s) \o (IF withNul THEN <<"NUL">> ELSE << >>)
                   ELSE << >>

(***************************************************************************)
(* The length asked for first.  A failure is length 0, and 0 - 1 is the    *)
(* largest unsigned int.                                                   *)
(***************************************************************************)
TargetLengthWithNul(s) ==                            \* a slip: no "- 1"
  Len(WideCharToMultiByte(s, TRUE)) % UIntRange
TargetLength(s) == (Len(WideCharToMultiByte(s, TRUE)) - 1) % UIntRange

Refuses(length) == length = 0 \/ length > MaxSize

(***************************************************************************)
(* resize leaves NULs; the second conversion overwrites the first of them  *)
(* or, when it fails, makes the result empty.                              *)
(***************************************************************************)
Utf8FromUtf16(s) ==
  LET length    == TargetLength(s)
      converted == WideCharToMultiByte(s, FALSE)
  IN  IF Refuses(length) \/ converted = << >> THEN << >>
      ELSE [i \in 1 .. length |->
              IF i <= Len(converted) THEN converted[i] ELSE "NUL"]

(***************************************************************************)
(* Nothing catches the exception of a resize that finds no memory.         *)
(***************************************************************************)
MayThrow(s) == ~Refuses(TargetLength(s)) /\ TargetLength(s) > Plenty

(***************************************************************************)
(* The arguments but the first, each converted; none when the command line *)
(* could not be split (argv = << >>: a split one holds the program).       *)
(***************************************************************************)
AllArguments(argv) == [i \in DOMAIN argv |-> Utf8FromUtf16(argv[i])] \* a slip
GetCommandLineArguments(argv) ==
  IF argv = << >> THEN << >>
  ELSE [i \in 1 .. Len(argv) - 1 |-> Utf8FromUtf16(argv[i + 1])]
=============================================================================
