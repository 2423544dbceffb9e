---------------------------- MODULE MCDiskCache ----------------------------
(* Two fetches, so that one can store while the other waits, of one URL    *)
(* whose page shrinks from two blocks to one (and grows again when the     *)
(* fetch of the older page is the later one to store), and three stores:   *)
(* a file that two of them left torn is healed by the third.               *)
EXTENDS DiskCache, TLC

CONSTANTS f1, f2, u1

MCBlocks == <<2, 1>>
FetchSymmetry == Permutations(Fetches)
=============================================================================
