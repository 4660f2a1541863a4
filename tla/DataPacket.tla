----------------------------- MODULE DataPacket -----------------------------
(***************************************************************************)
(* The unit of the BeTalk protocol: one JSON line holds one data packet,   *)
(* which logs its sender in or carries a chat message.  Of a packet's      *)
(* contents only what the validity checks look at is kept: a login name    *)
(* may be missing or empty, a message may be missing or may hold neither   *)
(* text nor a file.                                                        *)
(***************************************************************************)

DataPacketType == {"LOGIN", "MESSAGE"}
LoginName      == {"absent", "empty", "given"}
MessageField   == {"absent", "contentless", "given"}

(***************************************************************************)
(* Every packet that parses: serde fills the optional fields with None.    *)
(***************************************************************************)
Packets ==
  [type : DataPacketType, loginName : LoginName, message : MessageField]

(***************************************************************************)
(* Message::assert: a message holds a text or a file.                      *)
(***************************************************************************)
MessageAssert(p) == p.message # "contentless"

(***************************************************************************)
(* DataPacket::assert of the Rust server, its checks in the order of the   *)
(* code.                                                                   *)
(***************************************************************************)
PacketAssert(p) ==
  /\ ~(p.loginName # "absent" /\ p.message # "absent")
  /\ p.type = "LOGIN" => p.loginName \notin {"absent", "empty"}
  /\ p.type = "MESSAGE" => /\ p.message # "absent"
                           /\ MessageAssert(p)
=============================================================================
