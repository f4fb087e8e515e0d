CONSTANTS
    MaxElements <- MCMaxElements
    MaxSheetItems <- MCMaxSheetItems
    MaxSheetSlots <- MCMaxSheetSlots
    MaxPages <- MCMaxPages
    MaxOutputBytes <- MCMaxOutputBytes
    MaxCanvasPixels <- MCMaxCanvasPixels
    MaxTotalPixels <- MCMaxTotalPixels
    MaxCopies <- MCMaxCopies
    MaxPlanActions <- MCMaxPlanActions
    MaxPlanBytes <- MCMaxPlanBytes
    CommandBytes <- MCCommandBytes
    Templates <- MCTemplates
    MaxRecords <- MCMaxRecords
    ZoneChoices <- MCZoneChoices
    MaxRequestDocuments <- MCMaxRequestDocuments
    MaxCutEvery <- MCMaxCutEvery
    Printers <- MCPrinters
    SingleDocuments <- MCSingleDocuments
    Copies <- MCCopies
    Definitions <- MCDefinitions
    Resolutions <- MCResolutions
    RasterLines <- MCRasterLines
SPECIFICATION Spec
CHECK_DEADLOCK FALSE
INVARIANTS
    BatchPagesAreValid
    ZonesShowTheirRecords
    PrintsWhatWasAsked
    LinesExpandToTheirRows
    ItemsImposedOnce
    RoundingCostsOneDot
