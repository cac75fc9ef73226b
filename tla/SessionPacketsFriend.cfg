CONSTANTS
  Chars = {c1}
  Addresses = {x1}
  Null = Null
  Client <- FriendClient
  Budget = 1
SPECIFICATION Spec
INVARIANT NoNullPlayer
CHECK_DEADLOCK FALSE
