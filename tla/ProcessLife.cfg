CONSTANTS
  Tids = {t1, t2, t3}
  Main = t1
  Architectures = {i386, x86_64}
SPECIFICATION Spec
INVARIANT ForkKeepsArchitecture
CHECK_DEADLOCK FALSE
