----------------------------- MODULE MCSession -----------------------------
(* Two sign-ins of one account, two organisations. *)
EXTENDS Session, TLC

CONSTANTS l1, l2, o1, o2

MCLogin == {l1, l2}
MCOrgs == {o1, o2}
Symmetry == Permutations(MCLogin) \cup Permutations(MCOrgs)
=============================================================================
