----------------------------- MODULE MCOutbound -----------------------------
(* One call of up to two targets, another racing with it for the token of    *)
(* the same credentials, and two registrations of templates.                *)
EXTENDS Outbound
=============================================================================
