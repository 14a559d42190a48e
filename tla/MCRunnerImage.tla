--------------------------- MODULE MCRunnerImage ---------------------------
(***************************************************************************)
(* Instances of RunnerImageBuildWorkflow: two or three pushes.             *)
(***************************************************************************)
EXTENDS RunnerImageBuildWorkflow, TLC
CONSTANTS w1, w2, w3, i0, i1, i2, s0, s1, custom, config, layer
MCImageOf == [w \in Workflows |-> IF w = w2 THEN i2 ELSE i1]

\* The two pushes with their images, and the two blobs, may change places.
Pushes == (w1 :> w2) @@ (w2 :> w1) @@ (i1 :> i2) @@ (i2 :> i1)
SwappedBlobs == (config :> layer) @@ (layer :> config)
Symmetry == {Pushes, SwappedBlobs, Pushes @@ SwappedBlobs}
=============================================================================
