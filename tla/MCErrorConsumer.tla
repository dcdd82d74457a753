--------------------------- MODULE MCErrorConsumer ---------------------------
(* The instance for TLC is given in the .cfg files alone.                  *)
EXTENDS ErrorConsumer
==============================================================================
