------------------------------- MODULE Rebase -------------------------------
(* The pure conflict rules of ail-coordinator/src/rebase.rs: which nodes the *)
(* operations of a ChangeSet touch, whether a stale ChangeSet may be moved   *)
(* onto the live snapshot, and how a refusal is classified.                  *)
EXTENDS SemanticGraph

(* A diff that overlooks removals.                                           *)
extract_node_refs_no_remove(p) ==
    CASE p.op = "CreateNode"  -> {p.node.id}
      [] p.op = "SetNodeName" -> {p.id}
      [] p.op = "AddEdge"     -> {p.edge.source, p.edge.target}
      [] OTHER                -> {}

(* Only id-based payloads carry a NodeRef; by-name payloads are invisible.   *)
extract_node_refs(p) ==
    CASE p.op = "CreateNode"  -> {p.node.id}
      [] p.op = "RemoveNode"  -> {p.id}
      [] p.op = "SetNodeName" -> {p.id}
      [] p.op = "AddEdge"     -> {p.edge.source, p.edge.target}
      [] OTHER                -> {}

(* StructuralDiff::from_ops                                                  *)
touched_nodes(ops) == UNION {extract_node_refs(ops[i]) : i \in DOMAIN ops}

extract_removed_nodes(ops) ==
    {ops[i].id : i \in {j \in DOMAIN ops : ops[j].op = "RemoveNode"}}

(* rebase succeeds when the pending operations touch no node of the diff.    *)
rebase_succeeds(ops, diff) == touched_nodes(ops) \cap diff = {}

classify_conflict(conflicts, removed) ==
    IF conflicts \cap removed # {} THEN "NodeDeletedWhileModified"
                                   ELSE "SameNodeModifiedIncompatibly"
=============================================================================
