----------------------------- MODULE MCAwsApply -----------------------------
(***************************************************************************)
(* Small instances of AwsApply for TLC.                                    *)
(***************************************************************************)
EXTENDS AwsApply, TLC

CONSTANTS o1, o2, r1, r2

OneCheckout == [o \in Operators |-> r1]
OwnCheckouts == o1 :> r1 @@ o2 :> r2

=============================================================================
