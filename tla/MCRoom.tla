-------------------------------- MODULE MCRoom --------------------------------
(* Small instances of Room for TLC.  Voters other than the creator, the    *)
(* sockets and the stories are interchangeable.                            *)
EXTENDS Room, TLC

CONSTANTS h, a, b

Symmetry == Permutations(Voter \ {Creator}) \cup Permutations(Socket)
                \cup Permutations(Story)

VoterSymmetry == Permutations(Voter \ {Creator}) \cup Permutations(Socket)
=============================================================================
