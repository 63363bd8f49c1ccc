---------------------------- MODULE MCHookServer ----------------------------
(***************************************************************************)
(* A small instance of HookServer: tenant t1 is served with secret k1,     *)
(* t2 is not registered, and t3 is a tenant whose secret k3 the attacker   *)
(* holds (a malicious or compromised tenant).  The lookup answers ok for   *)
(* the empty tenant id, so that the handlers' own empty-tenant check is    *)
(* what rejects it.  It extends the proof module so that the inductive    *)
(* invariant of the proofs is checked on the same instance.                *)
(***************************************************************************)
EXTENDS HookServerProofs

CONSTANTS t1, t2, t3, k1, k3

MCLookup == [t \in {t1, t2, t3, ""} |->
                CASE t = t1 -> k1 [] t = t3 -> k3 [] t = "" -> k1 [] OTHER -> NotFound]
=============================================================================
