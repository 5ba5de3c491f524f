---------------------------- MODULE MCQqGateway ----------------------------
(* Instances of QqGateway for TLC. Two breaks let a connection fail before  *)
(* and after a session is known; three sessions outlast them and an expiry. *)
EXTENDS QqGateway

MCMaxSessions == 3
MCMaxEvents == 2
MCMaxBreaks == 2
MCMaxBackoff == 1
=============================================================================
