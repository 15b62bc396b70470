SPECIFICATION Spec
CONSTANTS
  w1 = w1  w2 = w2  e1 = e1  e2 = e2  f1 = f1  f2 = f2
  Waiters = {w1}
  Entities = {e1}
  OwnerOf <- SoloOwner
  Fds = {f1}
  FdOf <- SoloFd
  Signalled = {f1}
  Finite = {}
  MaxMessages = 2
  MaxTriggers = 0
INVARIANT InfiniteReturnsReady
