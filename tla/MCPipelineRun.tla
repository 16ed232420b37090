--------------------------- MODULE MCPipelineRun ---------------------------
(***************************************************************************)
(* Small instances of PipelineRun for TLC.                                 *)
(***************************************************************************)
EXTENDS PipelineRun, TLC

CONSTANTS w1, w2, h1, h2

OneWorker == {w1}
TwoWorkers == {w1, w2}
OneHandler == {h1}
TwoHandlers == {h1, h2}

\* The core chain of docs/architecture/pipeline.md, without the optional stages.
CoreStages == {"crawl", "dedup", "clean", "import"}

\* The core chain and the first optional stage.
CoreAndSync == CoreStages \cup {"graph_sync"}

\* A short run.
CleanImport == {"clean", "import"}

\* Three stages, so that a dispatch can have a consequence of its own.
DedupToImport == {"dedup", "clean", "import"}

\* Workers are interchangeable, and so are handlers.
Interchangeable == Permutations(Workers) \cup Permutations(Handlers)

=============================================================================
