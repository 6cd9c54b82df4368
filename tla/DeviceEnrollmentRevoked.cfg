SPECIFICATION FairSpec
CONSTANTS
  code = code
  gws = gws
  old = old
  new = new
  Invitations <- CodeOnly
  CodeAuth <- CodeOnly
  Machines <- NewOnly
  Windows <- NoMachines
  ForWindows <- NoCodes
  MaxKeys <- NewOnce
  MayStop = FALSE
CHECK_DEADLOCK FALSE
PROPERTIES
  RevokedEnrollsNothing
