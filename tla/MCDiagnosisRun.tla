----------------------------- MODULE MCDiagnosisRun -----------------------------
(***************************************************************************)
(* A run with three possible tool calls, of which two fit its budget, one  *)
(* output retry and three model requests, or an outside client of the same *)
(* session.                                                                *)
(***************************************************************************)
EXTENDS DiagnosisRun
=============================================================================
