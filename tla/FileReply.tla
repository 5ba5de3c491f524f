------------------------------ MODULE FileReply ------------------------------
(***************************************************************************)
(* What reply_file_to_user promises: the chat gets a message with the file *)
(* only when the platform holds all of it, and gets it once; Ok means that  *)
(* it was posted, with its caption if there is one; the call returns.      *)
(***************************************************************************)
EXTENDS Naturals

CONSTANT File  \* the bytes to be sent

VARIABLES
  wanted,    \* 1 if there is a caption, else 0
  have,      \* the bytes the platform holds
  posts,     \* messages with the file
  captions,  \* captions posted
  outcome    \* "none" until the call returns

vars == <<wanted, have, posts, captions, outcome>>

Init ==
  /\ wanted \in {0, 1}
  /\ have = {}
  /\ posts = 0
  /\ captions = 0
  /\ outcome = "none"

\* Requests add to what the platform holds and shows, until the call returns.
Proceed ==
  /\ outcome = "none"
  /\ have \subseteq have'
  /\ have' \subseteq File
  /\ posts' \in posts..1
  /\ captions' \in captions..wanted
  /\ posts' > 0 => have' = File
  /\ captions' > 0 => posts' > 0
  /\ outcome' \in {"none", "ok", "error"}
  /\ outcome' = "ok" => posts' = 1 /\ captions' = wanted
  /\ UNCHANGED wanted

Spec == Init /\ [][Proceed]_vars /\ <>(outcome # "none")
=============================================================================
