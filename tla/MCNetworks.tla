------------------------------ MODULE MCNetworks ------------------------------
(* Sixteen numbers, and blocks of a small plan of networks in their upper half: *)
(* Top holds Left and Right, and Left holds Host.                              *)
EXTENDS Networks, TLC

Top == [min |-> 8, max |-> 15]
Left == [min |-> 8, max |-> 11]
Host == [min |-> 8, max |-> 8]
Right == [min |-> 12, max |-> 15]
Everything == [min |-> 0, max |-> 15]

MCBlock == {Everything, Top, Left, Host, Right}
MCNested == {Top, Left, Right}

Symmetry == Permutations(Net)
=============================================================================
