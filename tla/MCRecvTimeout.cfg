SPECIFICATION Spec
CONSTANTS
  c1 = c1
  c2 = c2
  null = null
  chat = chat
  huge = huge
  odd = odd
  even = even
  Conns = {c1}
  Msgs = {null, chat}
  DirectMsgs = {null}
  NullMsgs = {null}
  Known = {chat, odd}
  Junk = {odd, even}
  PayLen <- McPayLen
  JunkLens <- McJunkLens
  SendArgs <- McSendArgs
  CallKinds <- McCalls
  HdrLen = 2
  MaxFrame = 3
  MaxFrames = 2
  MaxPush = 2
  BlockLimit = 2
  Signals = FALSE
INVARIANT TimeoutHonoured
