------------------------ MODULE MCProfileLifecycle ------------------------
(* ProfileLifecycle for TLC. *)
EXTENDS ProfileLifecycle, TLC

Symmetric == Permutations(Profiles)
=============================================================================
