SPECIFICATION Spec
CONSTANTS
  Base <- r
  Dirs <- MCDirs
  Files <- MCFiles
  Targets <- MCTargets
  Roots <- MCRoots
  MayCall <- MCMayCall
  Ignore <- MCIgnore
  Longer <- MCLonger
  MaxSize = 40
INVARIANTS ModulesArrive NothingElseArrives LinksLeadToTheSame ArchivesCanBeUnpacked
PROPERTY Ends
CHECK_DEADLOCK FALSE
