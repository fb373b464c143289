----------------------------- MODULE TestCalls ------------------------------
(* Notation for the test programs Lab-7-Malloc/Gradescript-Examples/*.c: a    *)
(* test is the sequence of the calls its main() makes.  Blocks are kept in    *)
(* the arrays ptrs, whose blocks are checked in the end, and free_ptrs, whose *)
(* blocks are freed; dc has the sizes that the chunks of ptrs should have.    *)
EXTENDS Integers, SequencesExt

\* ptrs[i] = my_malloc(bytes); dc[i] = size;
P(i, bytes, size) ==
    <<[call |-> "my_malloc", array |-> "ptrs", i |-> i, bytes |-> bytes, dc |-> size]>>

\* free_ptrs[i] = my_malloc(sizes[1]); free_ptrs[i + 1] = my_malloc(sizes[2]); ...
F(i, sizes) ==
    [k \in DOMAIN sizes |->
        [call |-> "my_malloc", array |-> "free_ptrs", i |-> i + k - 1, bytes |-> sizes[k], dc |-> 0]]

\* my_free(free_ptrs[is[1]]); my_free(free_ptrs[is[2]]); ...
X(is) == [k \in DOMAIN is |-> [call |-> "my_free", array |-> "free_ptrs", i |-> is[k]]]

\* my_free(ptrs[i]);
XP(i) == <<[call |-> "my_free", array |-> "ptrs", i |-> i]>>

\* coalesce_free_list();
C == <<[call |-> "coalesce_free_list"]>>

\* double_check_memory(ptrs, dc, nptrs, fl_size, tbytes);
K(nptrs, flSize, tbytes) ==
    <<[call |-> "double_check_memory", nptrs |-> nptrs, flSize |-> flSize, tbytes |-> tbytes]>>

\* for (i = from; i <= to; i++) ...
For(from, to, Body(_)) == FlattenSeq([k \in 1 .. to - from + 1 |-> Body(from + k - 1)])
=============================================================================
