----------------------------- MODULE TokenCache -----------------------------
(***************************************************************************)
(* The access-token caches of the drivers: QqBotDriver::access_token in    *)
(* src/src/driver/qq_bot.rs, and the same code in wecom.rs, feishu_bot.rs  *)
(* and feishu_bot_ws.rs. A call looks the credentials up under the lock,   *)
(* asks the platform without it, and stores the answer under the lock      *)
(* again, so calls may ask for the same credentials at the same time and   *)
(* store their answers in any order.                                       *)
(*                                                                         *)
(* A token is abstracted to the time until which the platform accepts it.  *)
(***************************************************************************)
EXTENDS Naturals

CONSTANTS
  Callers,     \* concurrent calls
  Keys,        \* credentials
  MaxTtl,      \* the longest lifetime the platform grants
  Margin,      \* the 60 seconds taken off a lifetime
  MaxTransit,  \* the longest an answer is under way
  MaxTime      \* bound: the clock stops here

ASSUME TimeConstants ==
  /\ MaxTtl \in Nat
  /\ Margin \in Nat
  /\ MaxTransit \in Nat
  /\ MaxTime \in Nat

VARIABLES
  now,     \* the clock
  cache,   \* token_cache: a Vec whose order nothing depends on
  pc,      \* "idle", "asking" (request sent) or "answered" (reply under way)
  key,     \* the credentials a call is for
  reply    \* the platform's answer: when it was given and for how long

vars == <<now, cache, pc, key, reply>>

Entry == [key : Keys, until : Nat, expires : Nat]
Answer == [at : Nat, ttl : 0..MaxTtl]
NoAnswer == [at |-> 0, ttl |-> 0]

Init ==
  /\ now = 0
  /\ cache = {}
  /\ pc = [c \in Callers |-> "idle"]
  /\ key \in [Callers -> Keys]  \* unused until a call sets it
  /\ reply = [c \in Callers |-> NoAnswer]

\* The entry for k, if it has not expired.
Hit(e, k) == e.key = k /\ e.expires > now

\* A hit is returned at once and changes nothing; only a miss is a step.
Miss(c, k) ==
  /\ pc[c] = "idle"
  /\ \A e \in cache : ~Hit(e, k)
  /\ pc' = [pc EXCEPT ![c] = "asking"]
  /\ key' = [key EXCEPT ![c] = k]
  /\ UNCHANGED <<now, cache, reply>>

\* The platform issues a token.
Issue(c, ttl) ==
  /\ pc[c] = "asking"
  /\ pc' = [pc EXCEPT ![c] = "answered"]
  /\ reply' = [reply EXCEPT ![c] = [at |-> now, ttl |-> ttl]]
  /\ UNCHANGED <<now, cache, key>>

Returns(c) ==
  /\ pc' = [pc EXCEPT ![c] = "idle"]
  /\ reply' = [reply EXCEPT ![c] = NoAnswer]

\* A transport error, a bad status or an error code: nothing is stored.
Fail(c) ==
  /\ pc[c] # "idle"
  /\ Returns(c)
  /\ UNCHANGED <<now, cache, key>>

\* expires_in.saturating_sub(60), counted from when the answer is read.
\* Mutant: the whole lifetime is used.
Lifetime_Whole(ttl) == ttl

\* Mutant: a lifetime below the margin is not cut off at zero.
Lifetime_Wraps(ttl) == ttl - Margin

Lifetime(ttl) == IF ttl < Margin THEN 0 ELSE ttl - Margin

\* retain(|(k, _)| *k != key)
Without(k) == {e \in cache : e.key # k}

Store(c) ==
  /\ pc[c] = "answered"
  /\ cache' = Without(key[c]) \cup
       {[key |-> key[c], until |-> reply[c].at + reply[c].ttl,
         expires |-> now + Lifetime(reply[c].ttl)]}
  /\ Returns(c)
  /\ UNCHANGED <<now, key>>

\* Time passes; no answer is under way for longer than MaxTransit.
Tick ==
  /\ now < MaxTime
  /\ \A c \in Callers : pc[c] = "answered" => now < reply[c].at + MaxTransit
  /\ now' = now + 1
  /\ UNCHANGED <<cache, pc, key, reply>>

Next ==
  \/ \E c \in Callers :
       \/ \E k \in Keys : Miss(c, k)
       \/ \E ttl \in 0..MaxTtl : Issue(c, ttl)
       \/ Fail(c)
       \/ Store(c)
  \/ Tick

Spec == Init /\ [][Next]_vars

(* ---- properties ---- *)

TypeOK ==
  /\ now \in Nat
  /\ cache \in SUBSET Entry
  /\ pc \in [Callers -> {"idle", "asking", "answered"}]
  /\ key \in [Callers -> Keys]
  /\ reply \in [Callers -> Answer]

\* Calls for the same credentials that overlap leave one entry for them, so
\* the `find` of a lookup has one candidate.
OneEntryPerKey == \A e, f \in cache : e.key = f.key => e = f

\* A token the cache hands out is accepted for at least the margin less the
\* time its answer was under way, whichever of several answers came last.
MarginKept ==
  \A e \in cache, k \in Keys :
    Hit(e, k) => now + Margin < e.until + MaxTransit
=============================================================================
