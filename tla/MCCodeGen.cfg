SPECIFICATION Spec
CONSTANTS
  r1 = r1
  r2 = r2
  r3 = r3
  r4 = r4
  Free = Free
  NoReg = NoReg
  Scalars <- MCScalars
  Arrays <- MCArrays
  Consts <- MCConsts
  Temps <- MCTemps
  Literals <- MCLiterals
  Labels <- MCLabels
  LargeImmediate <- MCLargeImmediate
  GPR = {r1, r2, r3, r4}
  AVX = {v1, v2, v3, v4, v5}
  Programs <- MCPrograms
SYMMETRY Symmetry
INVARIANT TypeOK
INVARIANT GlobalsHaveHome
INVARIANT LocatedRegistersAreTaken
INVARIANT ScalarCodeGetsARegister
INVARIANT EffectIsCorrect
INVARIANT DisciplinedCodeIsGenerated
\* generation ends, or stops at a fault
CHECK_DEADLOCK FALSE
