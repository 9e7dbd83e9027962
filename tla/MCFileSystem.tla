--------------------------- MODULE MCFileSystem ----------------------------
(* The file system on a disk of a few sectors.  The names of files and the *)
(* values clients write are interchangeable.                               *)
EXTENDS FileSystem, TLC

NamesAndValues == Permutations(Name) \cup Permutations(Value)
=============================================================================
