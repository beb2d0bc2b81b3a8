CONSTANTS
  udp = udp
  rec = rec
  dtmf = dtmf
  md5 = md5
  Libs = {udp, rec, dtmf, md5}
  Kind <- Kinds
  Tags <- Md5Amid
  Broken = {}
  MaxLists = 3
  MaxCalls = 4
  Null = Null
SPECIFICATION Spec
PROPERTY ListGetsToTheEnd
CHECK_DEADLOCK FALSE
