------------------------ MODULE MCDesktopProvisioner ------------------------
(* Requests are interchangeable, and so are users.                           *)
EXTENDS DesktopProvisioner, TLC

Symmetry == Permutations(Reqs) \cup Permutations(Users)
=============================================================================
