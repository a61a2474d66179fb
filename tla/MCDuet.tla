------------------------------- MODULE MCDuet -------------------------------
(* Duet on small instances, for TLC.                                       *)
EXTENDS Duet

\* The start key and one key the state machine does not know.
MCKeys == {0, StartKey}

=============================================================================
