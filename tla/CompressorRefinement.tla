------------------------ MODULE CompressorRefinement ------------------------
(* Compressor implements CompressionCycle.                                 *)
EXTENDS Compressor

\* The run that is at work, as the cycle sees it: reading and fusing the chain
\* are one stage of it.
StageOf(step) ==
    CASE step = "snapshot" -> "started"
      [] step = "summarize" -> "asking"
      [] step \in {"check", "fuse", "trim"} -> "storing"
      [] step = "fail" -> "failed"
      [] step = "release" -> "releasing"
      [] step = "idle" -> "idle"

CycleStage ==
    IF \E r \in Runs : Active(r) THEN StageOf(pc[CHOOSE r \in Runs : Active(r)]) ELSE "idle"

Cycle == INSTANCE CompressionCycle WITH len <- Cardinality(window), stage <- CycleStage

\* Every behaviour of the compressor is one of the cycle: the window stays within
\* its bound, one run at a time passes through the stages in order, a failure is
\* recorded before the next run can start, and a trim leaves at least
\* CompressionKeep messages.
ImplementsCycle == Cycle!Spec

=============================================================================
