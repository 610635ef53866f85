------------------------------ MODULE MCBridge ------------------------------
(* Small instances of the bridge for TLC.                                  *)
EXTENDS Bridge, TLC

(* A "kill" names the group of one channel, or none.                       *)
MCGroups == {{c} : c \in Channels}

MCSymmetry == Permutations(Channels)
=============================================================================
