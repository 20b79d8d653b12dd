SPECIFICATION FairSpec
CONSTANTS
  Callers = {t1, t2}
  Nobody = Nobody
  NoRsp = NoRsp
  NoFrame = NoFrame
  mac = mac
  rsp = rsp
  b1 = b1
  b2 = b2
  Opcodes = {rsp}
  Bodies <- MCBodies
  Size <- MCSize
  Commands <- MCWaiting
  Blocks <- MCLiveBlocks
  QueueMax = 1
PROPERTIES
  HolderReturns
  BlockConsumed
