---------------------------- MODULE MCAdmission ----------------------------
(***************************************************************************)
(* Instances of Admission for TLC: one user with interchangeable           *)
(* connections.                                                            *)
(***************************************************************************)
EXTENDS Admission, TLC

Symmetric == Permutations(Clients)
=============================================================================
