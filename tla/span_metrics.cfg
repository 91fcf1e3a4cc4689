SPECIFICATION Spec
CONSTANTS
    Arrivals <- MCArrivals
    Dimensions <- MCDimensions
    Defaults <- MCDefaults
    ExcludePatterns <- MCExcludePatterns
    EnableExpHistogram = TRUE
    CacheSize = 1
    MaxServices = 1
    MaxOperations = 1
    MaxSpans = 3
INVARIANTS MetricsAreBuilt ReportedOnce SeriesAreBounded
PROPERTY CountedIsReported
CHECK_DEADLOCK FALSE
