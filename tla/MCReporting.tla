---------------------------- MODULE MCReporting ----------------------------
(* Model-checking instances of Reporting.                                  *)
EXTENDS Reporting

CONSTANTS d1, d2, x1

MCDetectorsTwo == <<d1, d2>>
MCDetectorsOne == <<d1>>

=============================================================================
