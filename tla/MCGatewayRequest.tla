-------------------------- MODULE MCGatewayRequest --------------------------
(***************************************************************************)
(* Instances of GatewayRequest for TLC.                                    *)
(***************************************************************************)
EXTENDS GatewayRequest, TLC

CONSTANTS p1, p2, l1, l2, public, confidential

TwoRequests == {p1, p2}
TwoLocals   == <<l1, l2>>
BothClasses == {public, confidential}
OnlyPublic  == {public}

KeyOf(on, limit, model, tools) ==
  [on |-> on, limit |-> limit, model |-> model, tools |-> tools]

\* Strict local mode, the default.
Home == [strict |-> TRUE, hybrid |-> FALSE, cloudFallback |-> FALSE, away |-> {},
         local |-> BothClasses, model |-> TRUE, platform |-> FALSE,
         key |-> KeyOf(TRUE, 1, TRUE, TRUE)]
\* Hybrid: what is public may go to the cloud when no local runtime answers.
Hybrid == [Home EXCEPT !.strict = FALSE, !.hybrid = TRUE, !.cloudFallback = TRUE,
                       !.away = OnlyPublic, !.key = KeyOf(TRUE, 0, TRUE, FALSE)]
\* Refused by Validate: everything may go, or hybrid in strict local mode.
Leaky  == [Hybrid EXCEPT !.away = BothClasses]
Torn   == [Hybrid EXCEPT !.strict = TRUE]
\* The key is disabled, may not use the model, or the model is gone.
Revoked == [Home EXCEPT !.key = KeyOf(FALSE, 1, TRUE, TRUE)]
Narrow  == [Home EXCEPT !.local = OnlyPublic, !.key = KeyOf(TRUE, 1, FALSE, TRUE)]
Empty   == [Home EXCEPT !.model = FALSE]
\* The platform route.
Native  == [Home EXCEPT !.platform = TRUE]

AllCandidates == {Home, Hybrid, Leaky, Torn, Revoked, Narrow, Empty, Native}

\* The two requests are interchangeable (safety runs only).
Symmetric == Permutations(Requests)
=============================================================================
