SPECIFICATION FairSpec
CONSTANTS
  code = code
  gws = gws
  old = old
  new = new
  Invitations <- OneOfEach
  CodeAuth <- CodeOnly
  Machines <- OldAndNew
  Windows <- NoMachines
  ForWindows <- NoCodes
  MaxKeys <- OldTwice
  MayStop = TRUE
CHECK_DEADLOCK FALSE
INVARIANTS
  RevokedStaysExpired
  ActiveWasEnrolled
PROPERTIES
  CodeServesOnce
  LoginNeverTakesOver
  InstallerEnds
