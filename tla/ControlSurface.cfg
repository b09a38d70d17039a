\* Head 0's key, shift, a fader; head 4 has no key of its own.
SPECIFICATION FairSpec
CONSTANTS
  MAX_HEADS = 5
  Channel = 0
  Keys = {48, 78}
  Reporting = {0, 4}
  Garbage <- Uninitialised
  Noise <- ForeignTraffic
  Texts = {65, 66}
  MaxQueue = 1
  MaxWire = 3
  MaxTx = 0
INVARIANTS LedsSettle KeysTracked DisplayFollowsTimer
PROPERTY TransmitsAll
