\* A report ends when it is answered.
SPECIFICATION Spec
CONSTANTS
    Tens = {10, 100, 1000, 10000}
    TriageHosts <- MCTriageHosts
    FactsHosts <- MCFactsHosts
INVARIANTS
    TypeOK
    WholeReportIsTrue
    OnlyTheCutLies
    CapabilityTold
    FactsStand
CHECK_DEADLOCK FALSE
