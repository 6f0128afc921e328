SPECIFICATION FairSpec
CONSTANTS
  Threads <- MCThreads
  Fds <- MCFds
  Tty = 0
  Socks <- MCSocks
INVARIANTS Accounted UsedWhileOpen PinnedModule HookInPlace
PROPERTIES DescriptorsKept RemovalEnds
