--------------------------- MODULE MCVoiceGateway ---------------------------
(* Instance of VoiceGateway: two connections of one session; neither they    *)
(* nor the utterance ids are told apart.                                     *)
EXTENDS VoiceGateway, TLC

CONSTANTS k1, k2, u1, u2

MCSockets == { k1, k2 }
MCSessions == { "s" }
MCSessionOf == [ k \in MCSockets |-> "s" ]
MCUtterances == { u1, u2 }
MCLocks == 1 .. 3
MCSymmetry == Permutations(MCSockets) \union Permutations(MCUtterances)
=============================================================================
