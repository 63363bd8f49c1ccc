-------------------------- MODULE HookServerHistory -------------------------
(***************************************************************************)
(* HookServer with a history variable: how many times each signed request  *)
(* (sign text aside, with its route) has been handed to a business         *)
(* handler.  The history only observes the server's steps; it does not    *)
(* constrain them.  The count saturates at 2, which is all the replay      *)
(* property needs to tell apart.                                           *)
(***************************************************************************)
EXTENDS HookServer, Bags

VARIABLE deliveries
hvars == <<vars, deliveries>>

\* one more delivery of u, saturating at two copies
Record(b, u) == IF CopiesIn(u, b) >= 2 THEN b ELSE b (+) SetToBag({u})

HInit == Init /\ deliveries = EmptyBag

\* the history is updated by every step that calls a business handler on a
\* request carrying a signature, including a step that repeats the last one
HNext ==
    /\ Next
    /\ deliveries' = IF last'.called /\ last'.req.meta.sign # EmptySign
                     THEN Record(deliveries, Unsigned(last'.route, last'.req))
                     ELSE deliveries

HSpec == HInit /\ [][HNext]_hvars

(***************************************************************************)
(* A request the platform signed reaches a business handler at most once.  *)
(* The signature binds request_id and timestamp_ms (spec: "freshness       *)
(* binding"), but verifyHookOrReject never checks either, so a captured    *)
(* request can be replayed: see the replay run.                            *)
(***************************************************************************)
NoReplay == \A u \in BagToSet(deliveries) : CopiesIn(u, deliveries) <= 1

=============================================================================
