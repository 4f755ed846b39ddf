SPECIFICATION Spec
INVARIANTS
  ExitCodesAreEarned
  FrontEndsAgree
