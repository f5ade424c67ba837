---- MODULE MCSessionTree ----
EXTENDS SessionTree

CONSTANTS f1, f2

FileSymmetry == Permutations(File)
====
