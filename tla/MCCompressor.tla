---------------------------- MODULE MCCompressor ----------------------------
(* Compressor and the prompts built meanwhile for TLC. *)
EXTENDS CompressorRefinement, PromptContext, TLC

CONSTANT r1, r2, b1

MCRuns == {r1, r2}
MCBuilders == {b1}

\* Nothing tells the runs apart.
RunSymmetry == Permutations(MCRuns)

\* Every message has a MessageID of its own.
UniqueIds == [m \in Msg |-> m]

=============================================================================
