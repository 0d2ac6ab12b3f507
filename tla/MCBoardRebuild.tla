--------------------------- MODULE MCBoardRebuild ---------------------------
(* BoardRebuild on small instances; the values are in the .cfg files.      *)
EXTENDS BoardRebuild, TLC

(* Threads of one role, devices, requests and changes are interchangeable:
   the safety runs explore one representative of each permutation. *)
Symmetry ==
    UNION {Permutations(S) : S \in {Devices, Hooks, Changes, Tickers, Rebuilders,
                                    Requests, Syncers}}
=============================================================================
