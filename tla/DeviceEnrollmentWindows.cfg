SPECIFICATION FairSpec
CONSTANTS
  code = code
  gws = gws
  old = old
  new = new
  Invitations <- CodeOnly
  CodeAuth <- CodeOnly
  Machines <- NewOnly
  Windows <- NewOnly
  ForWindows <- CodeOnly
  MaxKeys <- NewOnce
  MayStop = FALSE
CHECK_DEADLOCK FALSE
PROPERTIES
  EnrolledIsScheduled
