------------------------- MODULE MCImagePlayground -------------------------
(* Small instances of ImagePlayground.                                     *)
EXTENDS ImagePlayground

=============================================================================
