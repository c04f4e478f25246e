-------------------------- MODULE MCWorkAdmission --------------------------
(* WorkAdmission on a small instance: one gate more than the slots, two     *)
(* launchers that may race for one gate, two epochs.                        *)
EXTENDS WorkAdmission, TLC

Symmetry == Permutations(Gates) \cup Permutations(Launchers)
====
