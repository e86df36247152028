CONSTANTS
  p1 = p1
  p2 = p2
  AnyPid = AnyPid
  NoPid = NoPid
  NoBackup = NoBackup
  Setups <- MCSetups
  EntryRva = 1
  Size = {1}
SPECIFICATION Spec
INVARIANTS NoStrayTrap BackupsAreOriginal ArmedUnlessWaiting OneShotsGone HardwareArmed
PROPERTY RearmedAtEntry
