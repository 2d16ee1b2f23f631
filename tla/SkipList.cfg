\* One writer and one reader; three nodes over two keys, so that there are
\* equal keys, and levels up to 3, so that max_height_ can grow twice and a
\* search can be overtaken by an Insert on each of its levels.
SPECIFICATION FairSpec
CONSTANTS
  Keys = {1, 2}
  MaxHeight = 3
  MaxNodes = 3
  Readers = {r1}
  Writer = w
  NULL = NULL
  Wild = Wild
INVARIANTS TypeOK LevelsOrdered LevelsNested NoWildLoad
PROPERTIES ImplementsConcurrentBag CallsReturn
