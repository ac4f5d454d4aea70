\* One run and a reader; queries seeded anew meanwhile; failures at every step.
SPECIFICATION Spec
CONSTANTS
    Gain <- MCGain
    Runs = {b1}
    NoRun = NoRun
    Configs <- MCConfigs
    NoConfig = NoConfig
    Tables <- MCTables
    Results <- MCResults
    LatenciesMs = {1, 5}
    HasMatplotlib = TRUE
INVARIANTS TypeOK StoredRowsAreWhole ReportedRunsFound SameQueries MetricsAgree SummariesAddUp NamesTell
