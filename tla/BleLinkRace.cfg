SPECIFICATION Spec
CONSTANTS
  Callers = {t1, t2}
  Nobody = Nobody
  NoRsp = NoRsp
  NoFrame = NoFrame
  mac = mac
  rsp = rsp
  b1 = b1
  b2 = b2
  Opcodes = {mac, rsp}
  Bodies <- MCBodies
  Size <- MCSize
  Commands <- MCCommands
  Blocks <- MCBlocks
  QueueMax = 1
INVARIANT
  NoUseAfterReturn
