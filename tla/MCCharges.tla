----------------------------- MODULE MCCharges ------------------------------
(***************************************************************************)
(* The requests of the model-checked instances of Charges.                 *)
(***************************************************************************)
EXTENDS Charges, TLC

CONSTANTS u1, u2, c1, c2, c3, k1

Request(u, k, h, s, e) == [user |-> u, key |-> k, hash |-> h, stream |-> s, estimate |-> e]

\* A stream and a request without stream of one user, neither with a key.
TwoKinds == (c1 :> Request(u1, NoKey, 1, TRUE, 40))
         @@ (c2 :> Request(u1, NoKey, 2, FALSE, 20))

\* A request made twice under one key, once as a stream.
SameKey == (c1 :> Request(u1, k1, 1, FALSE, 20))
        @@ (c2 :> Request(u1, k1, 1, TRUE, 20))

\* A request made three times under one key: as a stream, without a stream, and
\* with another body.
RetriedKey == (c1 :> Request(u1, k1, 1, TRUE, 20))
           @@ (c2 :> Request(u1, k1, 1, FALSE, 20))
           @@ (c3 :> Request(u1, k1, 2, FALSE, 30))
=============================================================================
