SPECIFICATION Spec
CONSTANTS
  Sessions <- MCSessions
  Steps = 2
  TEST_SLOW_RELE_COUNT = 1
INVARIANTS TypeOK IdleCuffOpen IdlePumpOff PumpKnown NoPumpInDeflation AutoOnlyIfChosen ProtectTimerObeyed
