--------------------------- MODULE MCSqliteImport ---------------------------
(* Small sqlite files for TLC.                                             *)
EXTENDS SqliteImport, TLC

MCStats == <<"wifi_stats">>
\* One row of everything, and two activities.
MCRows == [s \in RowStages |-> IF s = "activities" THEN 2 ELSE 1]
\* One row of everything.
MCRowsOne == [s \in RowStages |-> 1]
MCSurveyOf == 1 :> 1
MCConnectionOf == 1 :> 1
=============================================================================
