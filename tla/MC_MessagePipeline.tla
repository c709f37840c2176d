------------------------- MODULE MC_MessagePipeline -------------------------
(* Instantiation of MessagePipeline for TLC: the fault sets of the runs.  *)
EXTENDS MessagePipeline, TLC

\* Every store, cache and broker call may fail.
MCAllCalls == Calls

\* Failures that leave the processor's channel open: every call but the
\* two whose error handler Nacks an already acked delivery.
MCChannelSafeCalls == Calls \ {"IsProcessed", "GetByID"}

\* No call fails.
MCNoCalls == {}

MCSymmetry == Permutations(Msgs)
=============================================================================
