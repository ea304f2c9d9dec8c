---------------------------- MODULE MCPlaybookRun ----------------------------
(* PlaybookRun on short action sequences, for TLC.                         *)
EXTENDS PlaybookRun
==============================================================================
