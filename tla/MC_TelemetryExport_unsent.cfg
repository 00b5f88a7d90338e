CONSTANTS
  recorder = recorder
  exporter = exporter
  httpd = httpd
  MaxAppends = 3
  Appenders <- MCAppenders
  Exporters <- MCExporters
  Viewers <- MCViewers
  Record <- MCRecord
  Field <- MCField
  FieldOf <- MCFieldOf
  NoTask = NoTask
  Blank = Blank
  MaxRecords = 2
  MaxPoints = 2
  Faults = FALSE
SPECIFICATION ExportSpec
PROPERTIES ErasesOnlySent
