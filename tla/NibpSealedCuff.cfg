SPECIFICATION Spec
CONSTANTS
  Sessions <- MCWeak
  Steps = 2
  TEST_SLOW_RELE_COUNT = 1
INVARIANTS IdleCuffOpen
