------------------------ MODULE MCHookServerHistory -------------------------
(* A small instance of HookServerHistory: tenant t1 with secret k1, the    *)
(* attacker holds no secret, t2 is not registered.                        *)
EXTENDS HookServerHistory

CONSTANTS t1, t2, k1

MCLookup == [t \in {t1, t2, ""} |-> IF t = t1 THEN k1 ELSE NotFound]
=============================================================================
