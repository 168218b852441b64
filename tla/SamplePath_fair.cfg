SPECIFICATION PathFairSpec
CONSTANTS
    CommandTimeout = 10
    SettleTicks = 4
    MeasureTicks = 10
    PeriodTicks = 50
    ConversionTicks = 8
    ControlTicks = 3
    DisplayTicks = 26
INVARIANTS PathTypeOK SampleIsNew NoRoundOverruns Cadence DisplayCatchesUp
PROPERTIES SamplesResume NothingOverwritten
