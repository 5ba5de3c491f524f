----------------------------- MODULE MCQqStream -----------------------------
(* Finite instances of QqStream for TLC: two replies to one message and one *)
(* reply to another, so that both a shared slot and a purge by a third      *)
(* party happen.                                                            *)
EXTENDS QqStream, TLC

CONSTANTS r1, r2, r3, m1, m2

MCReplies == {r1, r2, r3}
MCMsgs == {m1, m2}
MCMsgOf == [r \in MCReplies |-> IF r = r3 THEN m2 ELSE m1]
MCMaxChunks == [r \in MCReplies |-> IF r = r3 THEN 1 ELSE 2]

\* Streams are interchangeable, and so are the two replies to m1.
Symmetry == Permutations(Streams) \cup Permutations({r1, r2})
=============================================================================
