--------------------------- MODULE MCWebDavLocks ---------------------------
EXTENDS WebDavLocks, TLC
CONSTANTS a, b
\* The clients are alike.
Clients == Permutations(Client)
\* The names of a server whose users live under /b.
HomeNames == {<< >>, <<a>>, <<b>>, <<b, a>>}
\* Two names beside each other.
FlatNames == {<< >>, <<a>>, <<b>>}
Root == << >>
Home == <<b>>
=============================================================================
