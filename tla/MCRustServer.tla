---------------------------- MODULE MCRustServer ----------------------------
(***************************************************************************)
(* The Rust server on small sets of connections.                           *)
(***************************************************************************)
EXTENDS RustServerProperties

CONSTANTS c1, c2, c3

TwoClients   == {c1, c2}
ThreeClients == {c1, c2, c3}

(* Every connection has an address of its own, or they share one. *)
OwnAddress  == [c \in Clients |-> c]
SameAddress == [c \in Clients |-> c1]

(* Nobody posts a text, or everybody posts one. *)
NoText  == [c \in Clients |-> 0]
OneEach == [c \in Clients |-> 1]

(* No peer ends its connection; each may in every way; c1 may close it,    *)
(* or close or break it.                                                   *)
Stays    == [c \in Clients |-> {}]
AllEnd   == [c \in Clients |-> Endings]
C1Shuts  == [c \in Clients |-> IF c = c1 THEN {"eof"} ELSE {}]
C1Leaves == [c \in Clients |-> IF c = c1 THEN {"eof", "reset"} ELSE {}]
JustC1   == {c1}

(* Nothing moves once the server has ended: its states need no successors. *)
Running == server = "running"

Symmetry == Permutations(Clients)
=============================================================================
