----------------------------- MODULE MCPipeline -----------------------------
(* Small instances of Pipeline for TLC.                                    *)
EXTENDS PipelineRefinement

CONSTANTS p1, p2, k1, k2, d1, w1, w2

MCDeviceOf == [k \in Keys |-> d1]

\* One file, or two of one device.
OneKey == [p \in Paths |-> k1]
TwoKeys == [p \in Paths |-> IF p = p1 THEN k1 ELSE k2]
Sqlite == [p \in Paths |-> "sqlite"]
SqliteAndJson == [p \in Paths |-> IF p = p1 THEN "sqlite" ELSE "json"]
PcapAndOther == [p \in Paths |-> IF p = p1 THEN "pcap" ELSE "other"]
=============================================================================
