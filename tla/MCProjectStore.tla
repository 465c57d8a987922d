--------------------------- MODULE MCProjectStore ---------------------------
(* Small instances of the project store.                                     *)
EXTENDS ProjectStore, TLC

CONSTANTS p1, p2, dev

Change(n, names) == [base |-> n, adds |-> names]

(* Two that compete for the first place, one that comes second.              *)
ThreeChanges == {Change(0, {"x"}), Change(0, {"y"}), Change(1, {"z"})}
RivalChanges == {Change(0, {"x"}), Change(0, {"y"})}
TwoChanges   == {Change(0, {"x"}), Change(1, {"y"})}
OneChange    == {Change(0, {"x"})}

(* x and y together do not verify.                                           *)
XandY == {g \in SUBSET Names : {"x", "y"} \subseteq g}
FallbackGraph == {"fn"}
AllNames == {"x", "y", "z", "fn"}

(* Processes run the same commands.                                          *)
Symmetry == Permutations({p1, p2})
=============================================================================
