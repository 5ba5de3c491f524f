---------------------------- MODULE MCHubReload ----------------------------
(* One channel, two threads and two generations of its pump. *)
EXTENDS HubReload
=============================================================================
