------------------------------ MODULE MCTopups ------------------------------
(***************************************************************************)
(* The top-ups of the model-checked instances of Topups.                   *)
(***************************************************************************)
EXTENDS Topups, TLC

CONSTANTS u1, t1, t2

\* Two top-ups of one user, one with a fee and one larger: a refund of either
\* meets a balance that the other has fed and the user has spent from.
TwoTopups == (t1 :> [user |-> u1, gross |-> 2, fee |-> 1])
          @@ (t2 :> [user |-> u1, gross |-> 2, fee |-> 0])
=============================================================================
