CONSTANTS
  recorder = recorder
  exporter = exporter
  httpd = httpd
  MaxAppends = 5
  Appenders <- MCAppenders
  Exporters <- MCExporters
  Viewers <- MCViewers
  Record <- MCRecord
  Field <- MCField
  FieldOf <- MCFieldOf
  NoTask = NoTask
  Blank = Blank
  MaxRecords = 3
  MaxPoints = 2
  Faults = TRUE
SPECIFICATION FairExportSpec
INVARIANTS OrderedBehindFirst FieldAnswerIsLatest
PROPERTIES ErasesOnlySentOrNew RecordsAreSent ImplementsLog
