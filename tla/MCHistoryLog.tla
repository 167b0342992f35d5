---------------------------- MODULE MCHistoryLog ----------------------------
(* history.csv and forensics_history.csv: one row per append, one write per  *)
(* append.  optimize_history.csv: an append of several rows leaves the       *)
(* buffer in pieces.  The pre-flight corpora test whether the file exists.   *)
EXTENDS HistoryLog

OneRow  == [test |-> "tell", rows |-> 1, buffer |-> 4]
PerStep == [test |-> "size", rows |-> 2, buffer |-> 3]
Corpus  == [test |-> "exists", rows |-> 1, buffer |-> 4]

MCAudit == {OneRow}
MCAll   == {OneRow, PerStep, Corpus}
=============================================================================
