------------------------------- MODULE MCTog --------------------------------
(* Instances of Tog for TLC.                                               *)
EXTENDS Tog

MCPatterns == {{1, 4}, {3}, {}}
MCMatches == {{2}, {1, 4}}
MCKeySets == {{"up", "down", "npage", "ppage", "q"},
              {"down", "resize", "reload"},
              {"search", "n", "N", "down"}}
=============================================================================
