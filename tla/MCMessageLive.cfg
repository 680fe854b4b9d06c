SPECIFICATION FairSpec
CONSTANTS
  c1 = c1
  c2 = c2
  null = null
  chat = chat
  huge = huge
  odd = odd
  even = even
  Conns = {c1, c2}
  Msgs = {chat, huge}
  DirectMsgs = {}
  NullMsgs = {}
  Known = {chat, odd}
  Junk = {odd, even}
  PayLen <- McPayLen
  JunkLens <- McJunkLens
  SendArgs <- McSendArgs
  CallKinds <- McUntimed
  HdrLen = 2
  MaxFrame = 3
  MaxFrames = 1
  MaxPush = 1
  BlockLimit = 2
  Signals = FALSE
PROPERTIES
  FatalNeedsPatience
  Drained
  Delivered
  
