---------------------------- MODULE MCChannelHub ----------------------------
(* One channel, two threads that may both activate it, up to three pumps. *)
EXTENDS ChannelHub
=============================================================================
