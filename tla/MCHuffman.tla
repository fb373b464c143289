------------------------------ MODULE MCHuffman -----------------------------
(* An instance of Huffman for TLC, small enough to read its counterexample.  *)
EXTENDS Huffman

\* The codewords of a prefix code, as the lab says all codes are.
PrefixCode == {<<0>>, <<1, 0>>, <<1, 1>>}
=============================================================================
