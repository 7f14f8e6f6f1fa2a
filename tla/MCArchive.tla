---- MODULE MCArchive ----
EXTENDS ZipArchive, TLC
CONSTANTS a, b
\* Contents of one length that differ, and one that is a part of another.
MCBuffers == {<<a>>, <<b, a>>}
Symmetry == Permutations(Names)
====
