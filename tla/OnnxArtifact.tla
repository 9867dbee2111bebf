---------------------------- MODULE OnnxArtifact ----------------------------
(***************************************************************************)
(* scripts/export_onnx.py: the graph and the label file that an export     *)
(* leaves in MODEL_PATH for ONNXModelManager, while the hub may publish    *)
(* another revision of the model and the export may die between any two    *)
(* writes.  An upstream revision is a number; the graph file of            *)
(* torch.onnx.export, with its .data file, is one file.                    *)
(***************************************************************************)
EXTENDS Config

CONSTANTS
    LastRevision,  \* bound: revisions the hub publishes
    Unlabelled     \* revisions whose config has no id2label

ASSUME ArtifactAssumption ==
    /\ LastRevision \in Nat \ {0}
    /\ Unlabelled \subseteq 1..LastRevision
    /\ None \notin Int

VARIABLES
    upstream,  \* the revision from_pretrained(MODEL_NAME) gets
    graph,     \* <model_name>.onnx
    labels,    \* <model_name>_config.json, as the revision of its id2label
    exporter,  \* where the script is, or how its last run ended
    exported   \* the revision the script holds in memory

artifactVars == <<upstream, graph, labels, exporter, exported>>

Revisions == 1..LastRevision

\* A file that is being written, or whose writer died.
Torn == 0

\* sound: the graph computes what its torch model computes, as far as the top-1
\* class of verify_parity's image tells.
Graph == [rev : Revisions, sound : BOOLEAN]
TornGraph == [rev |-> Torn, sound |-> FALSE]

Ended == {"idle", "verified", "unverified", "failed"}
Running == {"tracing", "graph", "labels", "dumping", "written"}

ArtifactTypeOK ==
    /\ upstream \in Revisions
    /\ graph \in Graph \cup {TornGraph, None}
    /\ labels \in Revisions \cup {Torn, None}
    /\ exporter \in Ended \cup Running
    /\ exported \in Revisions \cup {None}

ArtifactInit ==
    /\ upstream = 1
    /\ graph = None
    /\ labels = None
    /\ exporter = "idle"
    /\ exported = None

-----------------------------------------------------------------------------

\* The hub publishes a new revision of the model.
Publish ==
    /\ upstream < LastRevision
    /\ upstream' = upstream + 1
    /\ UNCHANGED <<graph, labels, exporter, exported>>

\* Mutant: the check of id2label is missing.
Fetch_Unchecked ==
    /\ exporter \in Ended
    /\ exporter' = "tracing"
    /\ exported' = upstream
    /\ UNCHANGED <<upstream, graph, labels>>

\* export: from_pretrained, and the check of id2label before anything is written.
Fetch ==
    /\ exporter \in Ended
    /\ upstream \notin Unlabelled
    /\ exporter' = "tracing"
    /\ exported' = upstream
    /\ UNCHANGED <<upstream, graph, labels>>

\* ... which refuses to export over what is there.
Refuse ==
    /\ exporter \in Ended
    /\ upstream \in Unlabelled
    /\ exporter' = "failed"
    /\ UNCHANGED <<upstream, graph, labels, exported>>

\* torch.onnx.export begins to write the graph ...
BeginGraph ==
    /\ exporter = "tracing"
    /\ graph' = TornGraph
    /\ exporter' = "graph"
    /\ UNCHANGED <<upstream, labels, exported>>

\* ... and finishes it, right or wrong.
EndGraph ==
    /\ exporter = "graph"
    /\ \E sound \in BOOLEAN : graph' = [rev |-> exported, sound |-> sound]
    /\ exporter' = "labels"
    /\ UNCHANGED <<upstream, labels, exported>>

\* Mutant: a label file that is there already is kept.
BeginLabels_Once ==
    /\ exporter = "labels"
    /\ labels' = IF labels = None THEN Torn ELSE labels
    /\ exporter' = IF labels = None THEN "dumping" ELSE "written"
    /\ UNCHANGED <<upstream, graph, exported>>

\* open(json_path, "w") truncates the file ...
BeginLabels ==
    /\ exporter = "labels"
    /\ labels' = Torn
    /\ exporter' = "dumping"
    /\ UNCHANGED <<upstream, graph, exported>>

\* ... and json.dump fills it.
EndLabels ==
    /\ exporter = "dumping"
    /\ labels' = exported
    /\ exporter' = "written"
    /\ UNCHANGED <<upstream, graph, exported>>

\* main ends with the given outcome.
End(outcome) ==
    /\ exporter' = outcome
    /\ exported' = None
    /\ UNCHANGED <<upstream, graph, labels>>

\* SKIP_PARITY_CHECK=true
SkipParity == exporter = "written" /\ End("unverified")

\* Mutant: a disagreement is only printed.
Parity_Warns == exporter = "written" /\ End("verified")

\* verify_parity loads torch's model anew and compares the top-1 class with the
\* graph's; with a revision published meanwhile the comparison says nothing.
Parity ==
    /\ exporter = "written"
    /\ upstream = graph.rev => graph.sound
    /\ End("verified")

\* The script dies, is killed or exits with status 1: what it wrote stays.
ExportFails == exporter \in Running /\ End("failed")

Export ==
    \/ Fetch
    \/ Refuse
    \/ BeginGraph
    \/ EndGraph
    \/ BeginLabels
    \/ EndLabels
    \/ SkipParity
    \/ Parity

ArtifactNext == Publish \/ Export \/ ExportFails

-----------------------------------------------------------------------------

\* Files a loader can read: it takes both or raises.
Whole == graph \in Graph /\ labels \in Revisions

\* When main returns, whatever earlier runs left behind, the directory holds a
\* graph and its own labels, complete and from a model that has labels; unless
\* the check was skipped or overtaken by a publication, the graph is sound.
CleanExport ==
    exporter \in {"verified", "unverified"} =>
        /\ Whole
        /\ graph.rev = labels
        /\ labels \notin Unlabelled
        /\ exporter = "verified" /\ upstream = graph.rev => graph.sound
=============================================================================
