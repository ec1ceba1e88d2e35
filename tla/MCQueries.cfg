CONSTANTS
    Graphs <- MCGraphs
    Configs <- MCConfigs
    Symbols <- MCSymbols
    Depths = {0, 1, 3}
    LangSets <- MCLangSets
    Batches <- MCBatches
    FileSets <- MCFileSets
    ReportParams <- MCReportParams
    QueryParams <- MCQueryParams
    ExportParams <- MCExportParams
    Documented <- MCDocumented
    MaxSymbolsPerBatch = 2
    MaxSeedsPerName = 2
    NoiseMinSymbols = 3
    ApiPathMinReports = 1
    HeaderCost = 1
    SectionCost = 1
    WarningCost = 4
SPECIFICATION Spec
INVARIANTS ImpactExact PagesExact LookupExact ReportsExact FrontsAgree

