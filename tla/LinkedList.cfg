SPECIFICATION Spec
CONSTANTS
  NumNodes = 3
  Writers = {w1, w2}
  Readers = {r1}
  Room = 2
  Orders = {TRUE, FALSE}
INVARIANTS LinksAgree FreedUntouched NoNodeTwice NothingLeaks
PROPERTIES WalksEnd Implements
