SPECIFICATION Spec
CONSTANTS
  top = top
  home = home
  work = work
  away = away
  Dirs <- FourDirs
  Top = top
  Names <- MCNames
  Openers <- Verifier
  Roots <- TwoNames
  MaxChanges = 0
SYMMETRY Alike
INVARIANTS
  IntermediateLinksFail
