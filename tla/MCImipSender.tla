---------------------------- MODULE MCImipSender ----------------------------
(* The instances are small enough to be given by the cfg files alone.       *)
EXTENDS ImipSender
=============================================================================
