CONSTANTS
  udp = udp
  rec = rec
  dtmf = dtmf
  md5 = md5
  Libs = {udp, rec, dtmf, md5}
  Kind <- Kinds
  Tags <- Configs
  Broken = {rec}
  MaxLists = 3
  MaxCalls = 4
  Null = Null
SPECIFICATION Spec
INVARIANTS ChainIsLoadOrder CalledInOrder EveryPluginOnce LinksOfAnyTags
PROPERTY ListGetsToTheEnd
CHECK_DEADLOCK FALSE
