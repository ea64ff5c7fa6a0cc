SPECIFICATION PeersSpec
CONSTANTS
  x1 = x1
  x2 = x2
  Streams = {x1, x2}
  MaxStreams = 1
INVARIANTS SlotsConserved NothingLeftRunning
PROPERTIES StopEndsRelays EventuallyReleased
