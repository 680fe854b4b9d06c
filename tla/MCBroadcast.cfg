SPECIFICATION Spec
CONSTANTS
  h1 = h1
  h2 = h2
  h3 = h3
  f1 = f1
  f2 = f2
  f3 = f3
  r1 = r1
  r2 = r2
  r3 = r3
  Slots = {h1, h2, h3}
  Fds = {f1, f2, f3}
  Cells = {r1, r2, r3}
  Ports = {4711}
  NoFd = NoFd
  NoCell = NoCell
  NoPort = 0
SYMMETRY McSymmetry
INVARIANT BroadcastTold
