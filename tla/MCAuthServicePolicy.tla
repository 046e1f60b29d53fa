-------------------------- MODULE MCAuthServicePolicy --------------------------
(* The instances of MCAuthService, for AuthServicePolicy. *)
EXTENDS MCAuthService, AuthServicePolicy

=============================================================================
