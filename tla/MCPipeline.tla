----------------------------- MODULE MCPipeline -----------------------------
(* A small instance of Pipeline for TLC: up to three samples of two        *)
(* features, of which two score alike under every model, and models with a *)
(* weight too few, none at all, and one too many; no features at all; and  *)
(* five samples, enough for both buffers to be full at the end. *)
EXTENDS Pipeline

MCSamples == {[features |-> f, label |-> y] : f \in {<<1, 2>>}, y \in {0, 1}}
               \cup {[features |-> <<0, 0>>, label |-> 0], [features |-> <<1, 0>>, label |-> 1]}
MCTables == UNION {[1..n -> MCSamples] : n \in 0..3}
              \cup {<<[features |-> <<>>, label |-> 1]>>,
                    [i \in 1..5 |-> [features |-> <<1, i>>, label |-> i % 2]]}
MCWeights == {<<>>, <<-1, 1>>, <<-1, 2, -1>>, <<0, 1, 1, 5>>}
=============================================================================
