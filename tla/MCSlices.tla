------------------------------ MODULE MCSlices ------------------------------
EXTENDS Slices, TLC

M(encrypted, source) ==
    [encrypted |-> encrypted, source |-> source,
     text |-> IF encrypted = <<>> THEN <<source>> ELSE <<>>,
     decrypted |-> FALSE]

\* A plain message, two encrypted ones, and one with the same bytes as the
\* first from another source.
MCSliceMessages == {M(<<>>, 1), M(<<1>>, 1), M(<<2>>, 1), M(<<1>>, 2)}

MCTransactions ==
    [incoming : MCSliceMessages, outgoing : {<<>>} \cup {<<m>> : m \in MCSliceMessages}]

\* Every slice of up to two transactions, and a second one with one text.
MCContents ==
    {<<list, <<[incoming |-> M(<<2>>, 2), outgoing |-> <<>>]>> >> :
        list \in UNION {[1..n -> MCTransactions] : n \in 0..2}}
Symmetry == Permutations(Calls)
=============================================================================
