--------------------------- MODULE SemanticGraph ---------------------------
(* The semantic graph a ChangeSet edits, and the pure functions of           *)
(* ail-change/src/apply.rs and ail-core/src/semantic_graph/validation.rs on  *)
(* it: the payloads of canonical operations, their effect, the validation    *)
(* that follows each of them, and the preconditions of a ChangeSet.          *)
(*                                                                           *)
(* Nodes are a sequence, because a by-name operation acts on the FIRST node  *)
(* with that name and names may repeat.  Edges are a set: no operation tells *)
(* a repeated edge from a single one.                                        *)
EXTENDS Integers, Sequences, FiniteSets

CONSTANTS
    NodeRef,    \* node ids
    Name,       \* node names
    EdgeKind,   \* edge kinds
    Attr,       \* optional scalar fields: return_type, body_expr, visibility, workflow_state
    Row,        \* list fields: params, effects, requires, ensures, caps, tags, bindings ...
    Value,      \* contents of fields
    None        \* Option::None

Item == [key : Value, val : Value]      \* key = val, except for params (key = the name)

Node == [id : NodeRef, name : Name,
         attrs : [Attr -> Value \cup {None}],
         rows : [Row -> Seq(Item) \cup {None}]]

Edge == [source : NodeRef, target : NodeRef, kind : EdgeKind]

Graph == [nodes : Seq(Node), edges : SUBSET Edge]

DropAt(s, i) == SubSeq(s, 1, i - 1) \o SubSeq(s, i + 1, Len(s))

NodeRefs(g) == {g.nodes[i].id : i \in DOMAIN g.nodes}

(* SemanticGraph::validate.  Only whether it succeeds is observable: apply   *)
(* formats the error into the reason of Failed.                              *)
validate(g) ==
    /\ \A i, j \in DOMAIN g.nodes : g.nodes[i].id = g.nodes[j].id => i = j
    /\ \A e \in g.edges : {e.source, e.target} \subseteq NodeRefs(g)

-----------------------------------------------------------------------------
(* Finding a node: by id (ids are unique in a validated graph) or the first  *)
(* one with a name.                                                          *)
HasId(g, id) == id \in NodeRefs(g)

IndexOfId(g, id) == CHOOSE i \in DOMAIN g.nodes : g.nodes[i].id = id

HasName(g, name) == \E i \in DOMAIN g.nodes : g.nodes[i].name = name

IndexOfName(g, name) ==
    CHOOSE i \in DOMAIN g.nodes :
        /\ g.nodes[i].name = name
        /\ \A j \in 1..(i - 1) : g.nodes[j].name # name

node_id_by_name(g, name) == g.nodes[IndexOfName(g, name)].id

-----------------------------------------------------------------------------
(* OpPayload.  The setters of one scalar field, and the adders and removers  *)
(* of one list item, are one variant each: the field is data.                *)
Payload ==
    [op : {"CreateNode"}, node : Node]
    \cup [op : {"AddEdge"}, edge : Edge]
    \cup [op : {"RemoveNode"}, id : NodeRef]
    \cup [op : {"SetNodeName"}, id : NodeRef, name : Name]
    \cup [op : {"RemoveNodeByName"}, target : Name]
    \cup [op : {"RenameNodeByName"}, target : Name, name : Name]
    \cup [op : {"AddEdgeByName", "RemoveEdgeByName"},
          source : Name, target : Name, kind : EdgeKind]
    \cup [op : {"SetAttrByName"}, target : Name, attr : Attr, value : Value]
    \cup {p \in [op : {"AddItemByName"}, target : Name, field : SUBSET Row,
                 row : Row, item : Item] : p.row \in p.field}
    \cup [op : {"RemoveItemByName"}, target : Name, field : SUBSET Row, item : Item]
    \cup [op : {"Noop"}]

RemoveNode(id, g) ==
    [nodes |-> IF HasId(g, id) THEN DropAt(g.nodes, IndexOfId(g, id)) ELSE g.nodes,
     edges |-> {e \in g.edges : e.source # id /\ e.target # id}]

EditAt(i, node, g) == [nodes |-> [g.nodes EXCEPT ![i] = node], edges |-> g.edges]

(* A list that is absent is created empty, with the other lists of the same  *)
(* field (requires and ensures are both in contract_clauses); an item whose  *)
(* key is already listed is not added again.                                 *)
AddItem(p, n) ==
    LET opened == [r \in Row |-> IF r \in p.field /\ n.rows[r] = None
                                   THEN <<>> ELSE n.rows[r]]
        list   == opened[p.row]
        listed == \E i \in DOMAIN list : list[i].key = p.item.key
    IN  [n EXCEPT !.rows = [opened EXCEPT ![p.row] =
             IF listed THEN list ELSE Append(list, p.item)]]

(* Vec::retain: all occurrences go, the others keep their order.             *)
WithoutItem(list, item) ==
    LET kept    == {i \in DOMAIN list : list[i] # item}
        rank(i) == Cardinality({j \in kept : j <= i})
    IN  [n \in 1..Cardinality(kept) |-> list[CHOOSE i \in kept : rank(i) = n]]

RemoveItem(p, n) ==
    [n EXCEPT !.rows = [r \in Row |->
        IF r \in p.field /\ n.rows[r] # None THEN WithoutItem(n.rows[r], p.item)
                                             ELSE n.rows[r]]]

(* What a by-name edit of one node makes of that node.                       *)
EditNode(p, n) ==
    CASE p.op = "RenameNodeByName" -> [n EXCEPT !.name = p.name]
      [] p.op = "SetAttrByName"    -> [n EXCEPT !.attrs[p.attr] = p.value]
      [] p.op = "AddItemByName"    -> AddItem(p, n)
      [] p.op = "RemoveItemByName" -> RemoveItem(p, n)

EdgeByName(p, g) == [source |-> node_id_by_name(g, p.source),
                     target |-> node_id_by_name(g, p.target),
                     kind |-> p.kind]

(* apply_payload: no validation, and a target that does not exist makes the  *)
(* operation a silent no-op.                                                 *)
apply_payload(p, g) ==
    CASE p.op = "CreateNode" -> [g EXCEPT !.nodes = Append(@, p.node)]
      [] p.op = "AddEdge" -> [g EXCEPT !.edges = @ \cup {p.edge}]
      [] p.op = "RemoveNode" -> RemoveNode(p.id, g)
      [] p.op = "SetNodeName" ->
           LET i == IndexOfId(g, p.id)
           IN  IF HasId(g, p.id) THEN EditAt(i, [g.nodes[i] EXCEPT !.name = p.name], g) ELSE g
      [] p.op = "RemoveNodeByName" ->
           IF HasName(g, p.target) THEN RemoveNode(node_id_by_name(g, p.target), g) ELSE g
      [] p.op \in {"AddEdgeByName", "RemoveEdgeByName"} ->
           IF ~(HasName(g, p.source) /\ HasName(g, p.target)) THEN g
           ELSE IF p.op = "AddEdgeByName"
                  THEN [g EXCEPT !.edges = @ \cup {EdgeByName(p, g)}]
                  ELSE [g EXCEPT !.edges = @ \ {EdgeByName(p, g)}]
      [] p.op \in {"RenameNodeByName", "SetAttrByName", "AddItemByName", "RemoveItemByName"} ->
           LET i == IndexOfName(g, p.target)
           IN  IF HasName(g, p.target) THEN EditAt(i, EditNode(p, g.nodes[i]), g) ELSE g
      [] p.op = "Noop" -> g

-----------------------------------------------------------------------------
(* Preconditions.  compute_node_hash is injective for our purposes, so the   *)
(* hash of a node is the node; the hex prefix AssertContext accepts is the   *)
(* set of the nodes whose hash starts with it.                               *)
Precondition ==
    [assert : {"Exists"}, id : NodeRef]
    \cup [assert : {"Hash"}, id : NodeRef, hash : Node]
    \cup [assert : {"ExistsByName"}, name : Name]
    \cup [assert : {"HashByName"}, name : Name, hash : Node]
    \cup [assert : {"Context"}, name : Name, prefix : (SUBSET Node) \cup {None}]

evaluate_precondition(c, g) ==
    CASE c.assert = "Exists" -> HasId(g, c.id)
      [] c.assert = "Hash" -> HasId(g, c.id) /\ g.nodes[IndexOfId(g, c.id)] = c.hash
      [] c.assert = "ExistsByName" -> HasName(g, c.name)
      [] c.assert = "HashByName" ->
           HasName(g, c.name) /\ g.nodes[IndexOfName(g, c.name)] = c.hash
      [] c.assert = "Context" ->
           /\ HasName(g, c.name)
           /\ c.prefix # None => g.nodes[IndexOfName(g, c.name)] \in c.prefix
=============================================================================
