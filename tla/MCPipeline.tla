----------------------------- MODULE MCPipeline -----------------------------
(* Pipeline for TLC. *)
EXTENDS Pipeline, TLC

CONSTANTS s1, s2, i1, i2

OneScript == {s1}
TwoScripts == {s1, s2}
OneIngestor == {i1}
TwoIngestors == {i1, i2}

\* Scripts are interchangeable, and so are ingestors.
SectionSymmetry == Permutations(TwoScripts) \cup Permutations(TwoIngestors)
=============================================================================
