------------------------ MODULE MC_TelemetryExport -------------------------
(* More appends than the ring has places: it fills, wraps and is           *)
(* overwritten while an export is under way.                               *)
EXTENDS TelemetryExport

CONSTANTS recorder, httpd, MaxAppends

MCAppenders == {recorder}
MCExporters == {exporter}
MCViewers == {httpd}
MCRecord == 1 .. MaxAppends
MCField == {0, 1}
MCFieldOf == [r \in MCRecord |-> r % 2]
=============================================================================
