SPECIFICATION Safety
CONSTANTS
  NumNodes = 3
  Writers = {w1, w2}
  Readers = {}
  Room = 2
  Orders = {TRUE}
INVARIANT AddedNodesListed
