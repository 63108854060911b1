---------------------------- MODULE MCImageStore ----------------------------
(***************************************************************************)
(* ImageStore with two images that share a base layer; the archive of the  *)
(* first holds other layers than its manifest.                             *)
(***************************************************************************)
EXTENDS ImageStore, TLC

CONSTANTS i1, i2, base, top1, top2

SharedBase == (i1 :> {base, top1}) @@ (i2 :> {base, top2})
Repacked   == (i1 :> {top2}) @@ (i2 :> {base})

(* Nothing yet; or both images pulled, one of them under both tags.        *)
Stores == {(i1 :> NoRecord) @@ (i2 :> NoRecord),
           (i1 :> [tags |-> Tags, rev |-> "reg"]) @@ (i2 :> [tags |-> {}, rev |-> "reg"])}

Symmetry == Permutations(Procs) \cup Permutations(Tags)

====
