SPECIFICATION FairSpec
CONSTANTS
  Fds = {7}
  MaxSize = 2
PROPERTIES
  OneWhoPullsThePlugIsRemoved
