------------------------------ MODULE MCBlock -------------------------------
(* Block for TLC: four keys whose byte order is not the comparator's, as    *)
(* that of the internal keys is not, with prefixes of every length.         *)
EXTENDS Block

MCKeys == 1..4
MCBytes == <<<<1>>, <<1, 2>>, <<1, 1, 2>>, <<1, 1>>>>
=============================================================================
