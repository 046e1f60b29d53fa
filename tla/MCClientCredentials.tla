------------------------- MODULE MCClientCredentials -------------------------
(* Small instances of ClientCredentials. *)
EXTENDS ClientCredentials

=============================================================================
