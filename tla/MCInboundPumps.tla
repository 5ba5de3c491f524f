--------------------------- MODULE MCInboundPumps ---------------------------
(* Instances of InboundPumps for TLC. Two messages can overtake each other,  *)
(* and the first comes in two pieces on Feishu's socket.                     *)
EXTENDS InboundPumps

MCSum == <<2, 1>>
MCDrivers == Sockets \cup {"telegram", "weclaw", "wecom"}
MCDiscord == {"discord"}
=============================================================================
