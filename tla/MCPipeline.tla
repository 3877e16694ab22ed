----------------------------- MODULE MCPipeline -----------------------------
(* A node for TLC: app is vulnerable and base is not, anon has neither a   *)
(* name nor a digest to scan it by, odd is excluded under its name.        *)
EXTENDS Pipeline

CONSTANTS app, base, anon, odd, appTag, baseTag, oddTag

NodeNames == [i \in Image |-> Name \cap CASE i = app  -> {appTag}
                                           [] i = base -> {baseTag}
                                           [] i = odd  -> {oddTag}
                                           [] OTHER    -> {}]
=============================================================================
