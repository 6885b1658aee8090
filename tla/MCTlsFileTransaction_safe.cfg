CONSTANTS
  NumFiles = 3
  Bundles <- MCBundles
  MaxGen = 3
  MaxFaults = 4
SPECIFICATION FairSpec
INVARIANTS
  BackupsSuffice
PROPERTIES
  InstallsAtomically
  LeftoversResolved
