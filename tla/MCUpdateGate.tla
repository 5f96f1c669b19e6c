----------------------------- MODULE MCUpdateGate -----------------------------
(* Two server slots that may overlap; three generations in the order they   *)
(* are exchanged, of which only the first, node_modules, may be the same in *)
(* two releases: the other two carry the release commit.                    *)
EXTENDS UpdateGate, TLC

SameDependencies == {1}
===============================================================================
