--------------------------- MODULE MCWorkerFrame ---------------------------
(***************************************************************************)
(* Small instances of WorkerFrame: one sender, H.264 (one clear byte).     *)
(***************************************************************************)
EXTENDS WorkerFrame

Frame(e, c, chain, step, form) ==
    [epoch |-> e, peer |-> CHOOSE p \in Peers : TRUE, ctr |-> c, chain |-> chain, step |-> step,
     kind |-> "inter", fmt |-> [prefixLen |-> 1, aadForm |-> form], trailer |-> FALSE]

Chain == CHOOSE c \in Chains : TRUE

\* Parking: a frame of each of two epochs.
ParkFrames == {Frame(0, 1, Chain, 0, "header"), Frame(1, 1, Chain, 0, "canonical")}

\* Gates: one epoch, a frame, one a ratchet step ahead and one that no key opens.
GateFrames ==
    {Frame(0, 1, Chain, 0, "header"), Frame(0, 2, Chain, 1, "header"),
     Frame(0, 2, "other", 0, "header")}

PipeSymmetry == Permutations(DecodePipes)
=============================================================================
