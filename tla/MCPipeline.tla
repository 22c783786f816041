---------------------------- MODULE MCPipeline -----------------------------
(* Pipelines for TLC. *)
EXTENDS Pipeline, SequencesExt

\* The service's own pipe, every order of its seven stages, and what is left
\* of it when a stage is forgotten or used twice.
MCTopologies ==
    SetToSeqs(StageNames)
    \cup {Remove(AnalystPipe, s) : s \in StageNames}
    \cup {Append(AnalystPipe, s) : s \in StageNames}
    \cup {<<>>}
=============================================================================
