--------------------------- MODULE MCFileStreams ---------------------------
(* Instances of the file streams for TLC. *)
EXTENDS FileStreams, TLC

CONSTANT MaxNode
MCNodes == 1 .. MaxNode

\* The streams are interchangeable.
AnyStream == Permutations(Streams)
=============================================================================
