CONSTANTS
  Custom <- MCCustom
  Excludable <- MCExcludable
SPECIFICATION Spec
INVARIANT DeniedIsNotAbsent
