---------------------------- MODULE MCStorageGC ----------------------------
(***************************************************************************)
(* Instances of StorageGC: an image and a collection, two objects with a   *)
(* URL each; the image shows the first.                                    *)
(***************************************************************************)
EXTENDS StorageGC, TLC

CONSTANTS i1, c1, u1, u2, p1, p2

MCPathOf  == (u1 :> p1) @@ (u2 :> p2)
MCOpening == (i1 :> u1) @@ (c1 :> NoUrl)

=============================================================================
