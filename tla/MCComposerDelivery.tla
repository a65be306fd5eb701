------------------------- MODULE MCComposerDelivery -------------------------
(* Instances of ComposerDelivery for TLC.                                  *)
EXTENDS ComposerDelivery
=============================================================================
