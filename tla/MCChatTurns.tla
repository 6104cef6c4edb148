----------------------------- MODULE MCChatTurns -----------------------------
(* ChatTurns with two replies to an ended root, one of them a voice note, and a
   reply to the other one. *)
EXTENDS ChatTurns

MCParent == [t \in Turns |-> CASE t = "root" -> None
                               [] t = "b" -> "a"
                               [] OTHER -> "root"]
MCTree == [t \in Turns |-> "root"]
=============================================================================
