-------------------------- MODULE MCPaymentService --------------------------
(***************************************************************************)
(* Instances of PaymentService for TLC.                                    *)
(***************************************************************************)
EXTENDS PaymentService, TLC

MCSymmetry ==
    Permutations(Keys) \cup Permutations(Charges) \cup Permutations(Refunds)

=============================================================================
