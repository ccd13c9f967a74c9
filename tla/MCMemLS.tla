------------------------------ MODULE MCMemLS ------------------------------
EXTENDS MemLS
CONSTANTS a, b
\* "/", two siblings, and a child of one of them.
TreeNames == {<<>>, <<a>>, <<b>>, <<a, b>>}
=============================================================================
