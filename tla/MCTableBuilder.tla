--------------------------- MODULE MCTableBuilder ---------------------------
(* TableBuilder for TLC: the options a caller passes, and changes between.  *)
EXTENDS TableBuilder

CONSTANTS bytewise, reverse, bloom

MCKeys == 1..5

OptionsOf(comparators, sizes, policies, compressions) ==
  [comparator : comparators, block_size : sizes, filter_policy : policies,
   compression : compressions]

\* Blocks of one or two entries, with a filter or without; a builder keeps to
\* one of the two, as it does to its comparator.
Uncompressed == OptionsOf({bytewise}, {1, 2}, {bloom}, {kNoCompression})
                  \cup OptionsOf({reverse}, {1, 2}, {NULL}, {kNoCompression})

\* The default compression of Options.
Default == OptionsOf({bytewise}, {1}, {NULL}, {kSnappyCompression})
=============================================================================
