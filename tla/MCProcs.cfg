\* Two users of child processes on POSIX, a parent and two children on Windows.
SPECIFICATION ProcsSpec
CONSTANTS
  Parents = {u1, u2}
  PipeSize = 1
  MaxTimeout = 1
  MaxKids = 2
INVARIANT
  HandlesSound
PROPERTY
  CallsReturn
CHECK_DEADLOCK FALSE
