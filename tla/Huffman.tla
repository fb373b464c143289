------------------------------ MODULE Huffman -------------------------------
(* Lab-3-Huffman/huff_dec.c: builds a tree from the code definitions and     *)
(* walks down it bit by bit.                                                 *)
EXTENDS Integers, FiniteSets, SequencesExt

CONSTANTS Codewords,    \* the bits of a definition, none of them empty
          MaxCodes,     \* bound: definitions in the code file
          FileSizes,    \* the sizes of input files, in bytes
          StatedBits    \* the numbers of bits in their last four bytes, not negative

HuffmanAssumption ==
    /\ Codewords \subseteq Seq({0, 1}) \ {<<>>}
    /\ MaxCodes \in Nat /\ FileSizes \subseteq Nat /\ StatedBits \subseteq Nat

VARIABLES stage,        \* where main() is: "defining", "decoding", "done" or "exited"
          fileSize,     \* input_size_bytes
          stated,       \* input_size_bits
          codes,        \* the definitions read so far; the k-th is of the string k
          nodes,        \* the nodes below the root, each by the bits that lead to it
          strings,      \* by bits: the s_zero or s_one they lead to
          message,      \* the bits read so far
          curr,         \* the node where the walk is
          output        \* the strings printed

huffVars == <<stage, fileSize, stated, codes, nodes, strings, message, curr, output>>

root == <<>>

ProperPrefixes(bits) == {SubSeq(bits, 1, n) : n \in 0 .. Len(bits) - 1}

Init ==
    /\ stage = "defining"
    /\ fileSize \in FileSizes /\ stated \in StatedBits
    /\ codes = <<>>
    /\ nodes = {} /\ strings = [b \in {} |-> 0]
    /\ message = <<>> /\ curr = root /\ output = <<>>

\* insert_code().
InsertCode(bits) ==
    /\ stage = "defining" /\ fileSize >= 4 /\ Len(codes) < MaxCodes
    /\ codes' = Append(codes, bits)
    /\ nodes' = nodes \cup (ProperPrefixes(bits) \ {root})
    /\ strings' = [b \in DOMAIN strings \cup {bits} |-> IF b = bits THEN Len(codes) + 1 ELSE strings[b]]
    /\ UNCHANGED <<stage, fileSize, stated, message, curr, output>>

\* The end of the code file, and the check of the two sizes; too small an input file ends the
\* program before it reads any definition.
SizesFit == fileSize >= 4 /\ fileSize - 4 = (stated + 7) \div 8

EndOfCodes ==
    /\ stage = "defining"
    /\ stage' = IF SizesFit THEN "decoding" ELSE "exited"
    /\ UNCHANGED <<fileSize, stated, codes, nodes, strings, message, curr, output>>

\* Mutant: a string is printed although the walk could go on.
StopsAtString(bits) == bits \in nodes /\ bits \notin DOMAIN strings

\* There is a node to go on to.
GoesOn(bits) == bits \in nodes

\* One bit of the input.
DecodeBit(bit) ==
    LET bits == Append(curr, bit)
    IN  /\ stage = "decoding" /\ Len(message) < stated
        /\ message' = Append(message, bit)
        /\ \/ GoesOn(bits) /\ curr' = bits /\ UNCHANGED <<stage, output>>
           \/ /\ ~GoesOn(bits) /\ bits \in DOMAIN strings
              /\ output' = Append(output, strings[bits]) /\ curr' = root
              /\ UNCHANGED stage
           \/ /\ ~GoesOn(bits) /\ bits \notin DOMAIN strings     \* Unrecognized bits
              /\ stage' = "exited" /\ UNCHANGED <<curr, output>>
        /\ UNCHANGED <<fileSize, stated, codes, nodes, strings>>

\* The loop ends after the stated bits, wherever the walk is by then: main() frees the tree and
\* returns 0, and says nothing of a sequence that is not complete.
EndOfInput ==
    /\ stage = "decoding" /\ Len(message) = stated
    /\ stage' = "done"
    /\ UNCHANGED <<fileSize, stated, codes, nodes, strings, message, curr, output>>

Next ==
    \/ \E bits \in Codewords : InsertCode(bits)
    \/ EndOfCodes
    \/ \E bit \in {0, 1} : DecodeBit(bit)
    \/ EndOfInput
    \/ stage \in {"done", "exited"} /\ UNCHANGED huffVars

Spec == Init /\ [][Next]_huffVars

-----------------------------------------------------------------------------
(* What the definitions mean, without a tree *)

\* The codewords that do not begin another one: all of them in a prefix code.
Leaves == {c \in ToSet(codes) : \A d \in ToSet(codes) : c \notin ProperPrefixes(d)}

\* The string of a codeword, that of its last definition.
Meaning(c) == CHOOSE k \in DOMAIN codes : codes[k] = c /\ \A l \in DOMAIN codes : codes[l] = c => l <= k

\* What begins one of them, itself excluded.
Begins(bits) == \E c \in Leaves : bits \in ProperPrefixes(c)

\* Places where bits may be cut: m is the last one before n, or the beginning.
Precedes(cut, m, n) == m \in cut \cup {0} /\ m < n /\ \A l \in cut : l <= m \/ l >= n

\* Ways to cut bits into codewords, each at its end, and a rest that begins one.
Cuts(bits) ==
    {cut \in SUBSET (1 .. Len(bits)) : \A m \in cut \cup {0} :
        /\ \A n \in cut : Precedes(cut, m, n) => SubSeq(bits, m + 1, n) \in Leaves
        /\ Precedes(cut, m, Len(bits) + 1) =>
             LET rest == SubSeq(bits, m + 1, Len(bits)) IN rest = <<>> \/ Begins(rest)}

\* For each codeword of a cut, in order, there is the string of it among those printed.
PrintedAs(cut) ==
    /\ Len(output) = Cardinality(cut)
    /\ \A m \in cut \cup {0} : \A n \in cut : Precedes(cut, m, n) =>
          output[Cardinality({l \in cut : l <= n})] = Meaning(SubSeq(message, m + 1, n))

\* As far as it has read, the program cuts the bits into the codewords that begin no other, the
\* only way it can be done, prints what their last definitions say and keeps the rest to go on
\* with; when it returns at the root, that is so of the whole input.  It says "Unrecognized bits"
\* at the first bit after which there is no such way.  Nothing is said here of a return with a
\* rest: see IncompleteIsFlagged.
DecodesLeafCodes ==
    /\ stage = "decoding" \/ (stage = "done" /\ curr = root) =>
         \E cut \in Cuts(message) : \E last \in cut \cup {0} :
             /\ Cuts(message) = {cut} /\ PrintedAs(cut)
             /\ Precedes(cut, last, Len(message) + 1)
             /\ curr = SubSeq(message, last + 1, Len(message))
    /\ stage = "exited" /\ message # <<>> => Cuts(message) = {} /\ Cuts(Front(message)) # {}

\* "You must test for ... an incomplete sequence at the end of the bit stream.  Flag this error"
\* (index.html): main() returns 0 only if the last bit read ends a codeword.  It is violated.
IncompleteIsFlagged == stage = "done" => curr = root
=============================================================================
