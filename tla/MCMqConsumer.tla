---------------------------- MODULE MCMqConsumer ----------------------------
(* A small instance of MqConsumer: the consumer of tenant t1 (secret k1);  *)
(* the attacker holds k2, the secret of another tenant.  It extends the   *)
(* proof module so that the proofs' inductive invariant is checked too.   *)
EXTENDS MqConsumerProofs

CONSTANTS t1, k1, k2
=============================================================================
