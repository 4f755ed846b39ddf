SPECIFICATION Spec
CONSTANTS
  top = top
  home = home
  work = work
  away = away
  Dirs <- FourDirs
  Top = top
  Names <- MCNames
  Openers <- Both
  Roots <- AllRoots
  MaxChanges = 2
SYMMETRY Alike
CONSTRAINT Scope
INVARIANTS
  TypeOK
  QuietRootIsJudgedExactly
  ReachedWithoutLinks
  ErrorsAreWitnessed
