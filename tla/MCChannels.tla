----------------------------- MODULE MCChannels -----------------------------
(* Channels for TLC.  The sets are model values; nothing tells two requests,
   two clients or two channel ids apart.                                     *)
EXTENDS Channels, TLC

Symmetry ==
    Permutations(Requests) \cup Permutations(Clients) \cup Permutations(TsIds)
=============================================================================
