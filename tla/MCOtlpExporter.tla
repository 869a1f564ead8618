--------------------------- MODULE MCOtlpExporter ----------------------------
(***************************************************************************)
(* OtlpExporter on small instances.                                        *)
(***************************************************************************)
EXTENDS OtlpExporter

CONSTANTS t1, t2, t3, t4, f1

TwoSpans == {t1, t2}
FirstSpan == {t1}
FourSpans == {t1, t2, t3, t4}
OneFlusher == {f1}

=============================================================================
