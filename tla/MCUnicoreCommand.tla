-------------------------- MODULE MCUnicoreCommand --------------------------
(* Instances of UnicoreCommand for TLC; the cfg files choose the commands.  *)
EXTENDS UnicoreCommand
=============================================================================
