\* Two targets; the plan of the first may be reported at length.
SPECIFICATION FairSpec
CONSTANTS
    Targets = 2
    Nesting <- SuiteNames
    Classes <- ClassNames
    Budgets <- Reports
    NoSuite = NoSuite
INVARIANTS FailuresReported NoCaseLost
PROPERTIES RunReturns
