--------------------------- MODULE MCLayerModule ---------------------------
(* LayerModule with sizes and levels that the flags can give. *)
EXTENDS LayerModule, Configuration

ASSUME LevelsAreConfigured ==
    /\ totalBlockCnt = FLAGS_t0BlockCount
    /\ gcWL = gcWL0 /\ gcStallWL = gcStallWL0 /\ gcBlockCnt = gcBlockCnt0
    /\ tierDownWL = tierDownWL0 /\ tierDownStallWL = tierDownStallWL0
    /\ tierDownCnt = tierDownCnt0
=============================================================================
