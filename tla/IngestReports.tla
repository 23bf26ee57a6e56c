---------------------------- MODULE IngestReports ----------------------------
(***************************************************************************)
(* What the two ways of ingesting issues outside a sync report: the        *)
(* rebuild of links (LinkRebuild) and the push of a batch (JiraPush).      *)
(* Issues are stored by each on its own; they share nothing else.          *)
(***************************************************************************)
EXTENDS LinkRebuild, JiraPush

\* internal/ingest/jira.go, internal/http/ingest.go: what a rebuild of links or a push does
\* not report as failed is done.
UnreportedIsDone == RebuildIsComplete /\ ReportIsTrue
=============================================================================
