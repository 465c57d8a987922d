--------------------------- MODULE MCCoordinator ---------------------------
(* Instances of the Coordinator for TLC, and what only TLC checks of it.     *)
EXTENDS Coordinator, SequencesExt, TLC

CONSTANTS n1, n2, n3, a1, a2, a3, own, foreign, v

AttrsUnset == [x \in Attr |-> None]
RowsUnset  == [x \in Row |-> None]
NewNode(id, name) == [id |-> id, name |-> name, attrs |-> AttrsUnset, rows |-> RowsUnset]

OneNode == [nodes |-> <<NewNode(n1, "f")>>, edges |-> {}]
TwoNodes == [nodes |-> <<NewNode(n1, "f"), NewNode(n2, "g")>>, edges |-> {}]

Create(id, name)  == [op |-> "CreateNode", node |-> NewNode(id, name)]
DropNode(id)      == [op |-> "RemoveNode", id |-> id]
Rename(id, name)  == [op |-> "SetNodeName", id |-> id, name |-> name]
Link(x, y)        == [op |-> "AddEdge", edge |-> [source |-> x, target |-> y, kind |-> "calls"]]
RemoveName(x)     == [op |-> "RemoveNodeByName", target |-> x]
RenameName(x, y)  == [op |-> "RenameNodeByName", target |-> x, name |-> y]
LinkNames(x, y)   == [op |-> "AddEdgeByName", source |-> x, target |-> y, kind |-> "calls"]
UnlinkNames(x, y) == [op |-> "RemoveEdgeByName", source |-> x, target |-> y, kind |-> "calls"]
SetBody(x)        == [op |-> "SetAttrByName", target |-> x, attr |-> "body_expr", value |-> v]
Clause(x)         == [op |-> "AddItemByName", target |-> x, field |-> Row,
                      row |-> "requires", item |-> [key |-> v, val |-> v]]
Unclause(x)       == [op |-> "RemoveItemByName", target |-> x, field |-> Row,
                      item |-> [key |-> v, val |-> v]]

Ops(s) == [pre |-> <<>>, ops |-> s]

(* Id-based edits that overlap, that fail half way, and that do nothing.     *)
ById == { Ops(<<Create(n2, "f")>>),
          Ops(<<Rename(n1, "g"), Link(n1, n2)>>),
          Ops(<<DropNode(n1)>>),
          Ops(<<[op |-> "Noop"]>>) }

(* By-name edits, with duplicate names, absent targets and preconditions.    *)
ByName == { Ops(<<RenameName("f", "g"), LinkNames("g", "f")>>),
            Ops(<<RemoveName("f")>>),
            Ops(<<SetBody("g"), Clause("g"), Unclause("g")>>),
            Ops(<<LinkNames("f", "f"), UnlinkNames("f", "g")>>),
            [pre |-> <<[assert |-> "HashByName", name |-> "f", hash |-> NewNode(n1, "f")],
                       [assert |-> "Exists", id |-> n1]>>,
             ops |-> <<Create(n2, "f")>>],
            [pre |-> <<[assert |-> "Context", name |-> "g", prefix |-> {NewNode(n1, "g")}],
                       [assert |-> "ExistsByName", name |-> "g"]>>,
             ops |-> <<DropNode(n1)>>],
            [pre |-> <<[assert |-> "Hash", id |-> n2, hash |-> NewNode(n2, "f")]>>,
             ops |-> <<Link(n2, n2)>>] }

(* Single id-based operations on three nodes.                                *)
Singles == {Ops(<<o>>) : o \in
              {Create(n3, "f"), DropNode(n1), DropNode(n2), Rename(n1, "g"), Link(n1, n2), Link(n2, n3)}}

NoBundles == {}
SomeBundles == { [root |-> "r", keys |-> {"r", "d"}, corrupt |-> {}, deps |-> {"d"}],
                 [root |-> "r", keys |-> {"r"}, corrupt |-> {}, deps |-> {"d"}],
                 [root |-> "d", keys |-> {"d"}, corrupt |-> {}, deps |-> {}],
                 [root |-> "d", keys |-> {"d", "r"}, corrupt |-> {"r"}, deps |-> {}] }

-----------------------------------------------------------------------------
(* Folding operations, for comparison with what the Coordinator did.         *)
ApplyAll(ops, g) == FoldLeft(LAMBDA h, p : apply_payload(p, h), g, ops)

SameGraph(g, h) == Range(g.nodes) = Range(h.nodes) /\ g.edges = h.edges

ByIdOnly(ops) ==
    \A i \in DOMAIN ops :
        ops[i].op \in {"CreateNode", "RemoveNode", "SetNodeName", "AddEdge", "Noop"}

Rebased(k) == log[k].base # InitialId + k - 1

(* A rebase that rebase() lets through commutes with the commit it lands on: *)
(* for operations that name nodes by id, committing the two ChangeSets in    *)
(* the other order would have given the same graph.                          *)
RebaseCommutesWithLastCommit ==
    \A k \in 2..Len(log) :
        LET before == log[k - 1]
            after  == log[k]
        IN  /\ Rebased(k) /\ ByIdOnly(before.cs.ops) /\ ByIdOnly(after.cs.ops)
            => SameGraph(after.path[Len(after.path)],
                         ApplyAll(before.cs.ops, ApplyAll(after.cs.ops, before.path[1])))

(* "Build StructuralDiff from committed ops since base" (the submit protocol *)
(* of coordinator.rs): a rebased ChangeSet touches no node touched by any    *)
(* commit made since its base.                                               *)
RebaseChecksAllCommitsSinceBase ==
    \A k \in DOMAIN log :
        \A j \in 1..(k - 1) :
            InitialId + j > log[k].base =>
                touched_nodes(log[j].cs.ops) \cap touched_nodes(log[k].cs.ops) = {}

AgentSymmetry == Permutations(Agents)
=============================================================================
