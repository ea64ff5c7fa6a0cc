SPECIFICATION FairSpec
CONSTANTS
  x1 = x1
  x2 = x2
  Streams = {x1, x2}
  MaxStreams = 1
PROPERTIES EventuallyReleased
