--------------------------- MODULE GraphTheorems ---------------------------
(* Facts about the operators of SemanticGraph and Rebase, for every set of   *)
(* nodes, names, fields and values.                                          *)
EXTENDS Rebase, FiniteSetTheorems, SequenceTheorems, WellFoundedInduction, TLAPS

(* Deleting a position of a sequence leaves a sequence of the same elements. *)
LEMMA DropAtTyping ==
  ASSUME NEW S, NEW s \in Seq(S), NEW i \in DOMAIN s
  PROVE  DropAt(s, i) \in Seq(S)
<1>1. i \in 1..Len(s) /\ Len(s) \in Nat
  OBVIOUS
<1>2. SubSeq(s, 1, i-1) \in Seq(S)
  BY <1>1, SubSeqProperties
<1>3. SubSeq(s, i+1, Len(s)) \in Seq(S)
  BY <1>1, SubSeqProperties
<1>. QED
  BY <1>2, <1>3, ConcatProperties DEF DropAt

(* The position of a node that exists is a position.                         *)
LEMMA IndexOfIdTyping ==
  ASSUME NEW g \in Graph, NEW id, HasId(g, id)
  PROVE  IndexOfId(g, id) \in DOMAIN g.nodes /\ g.nodes[IndexOfId(g, id)].id = id
BY DEF HasId, IndexOfId, NodeRefs

(* A set of natural numbers that is not empty has a least element.           *)
LEMMA LeastElement ==
  ASSUME NEW T \in SUBSET Nat, T # {}
  PROVE  \E x \in T : \A y \in T : x <= y
<1> DEFINE R == {ss \in Nat \X Nat : ss[1] < ss[2]}
<1>1. IsWellFoundedOn(R, Nat)
  BY NatLessThanWellFounded DEF OpToRel
<1>2. PICK x \in T : \A y \in T : <<y, x>> \notin R
  <2> HIDE DEF R
  <2> QED BY Zenon, <1>1, WFMin
<1>3. ASSUME NEW y \in T PROVE x <= y
  <2>1. <<y, x>> \in Nat \X Nat /\ <<y, x>>[1] = y /\ <<y, x>>[2] = x
    OBVIOUS
  <2>2. ~(y < x)
    BY <1>2, <2>1
  <2>. QED BY <2>2
<1>. QED
  BY <1>3

(* The first node with a name that occurs is a node with that name.          *)
LEMMA IndexOfNameTyping ==
  ASSUME NEW g \in Graph, NEW name, HasName(g, name)
  PROVE  /\ IndexOfName(g, name) \in DOMAIN g.nodes
         /\ g.nodes[IndexOfName(g, name)].name = name
<1> DEFINE T == {i \in DOMAIN g.nodes : g.nodes[i].name = name}
<1>1. g.nodes \in Seq(Node) /\ DOMAIN g.nodes = 1..Len(g.nodes) /\ Len(g.nodes) \in Nat
  BY DEF Graph
<1>2. T \in SUBSET Nat /\ T # {}
  BY <1>1 DEF HasName
<1>3. PICK i \in T : \A j \in T : i <= j
  BY Zenon, <1>2, LeastElement
<1>4. i \in DOMAIN g.nodes /\ g.nodes[i].name = name /\ \A j \in 1..(i - 1) : g.nodes[j].name # name
  BY <1>1, <1>3
<1>. QED
  BY <1>4 DEF IndexOfName

(* Removing a node and its edges leaves a graph.                             *)
LEMMA RemoveNodeTyping ==
  ASSUME NEW g \in Graph, NEW id
  PROVE  RemoveNode(id, g) \in Graph
<1>1. g.nodes \in Seq(Node) /\ g.edges \in SUBSET Edge
  BY DEF Graph
<1>2. HasId(g, id) => DropAt(g.nodes, IndexOfId(g, id)) \in Seq(Node)
  BY <1>1, IndexOfIdTyping, DropAtTyping
<1>. QED
  BY <1>1, <1>2 DEF RemoveNode, Graph

(* Replacing one node leaves a graph.                                        *)
LEMMA EditAtTyping ==
  ASSUME NEW g \in Graph, NEW i \in DOMAIN g.nodes, NEW n \in Node
  PROVE  EditAt(i, n, g) \in Graph
<1>1. g.nodes \in Seq(Node) /\ g.edges \in SUBSET Edge
  BY DEF Graph
<1>2. [g.nodes EXCEPT ![i] = n] \in Seq(Node)
  BY <1>1, ExceptSeq
<1>. QED
  BY <1>1, <1>2 DEF EditAt, Graph

(* In a set of K positions there is one of each rank from 1 to K.            *)
LEMMA EveryRankIsTaken ==
  ASSUME NEW L \in Nat, NEW K \in SUBSET (1..L)
  PROVE  /\ Cardinality(K) \in Nat
         /\ \A n \in 1..Cardinality(K) : \E i \in K : Cardinality({j \in K : j <= i}) = n
<1> DEFINE upto(i) == {j \in K : j <= i}
           rank(i) == Cardinality(upto(i))
<1>0. \A j \in K : j \in Nat \ {0} /\ j <= L
  OBVIOUS
<1>1. IsFiniteSet(K)
  <2>1. IsFiniteSet(1..L)
    BY FS_Interval
  <2>. QED BY Zenon, <2>1, FS_Subset
<1>2. \A i : IsFiniteSet(upto(i)) /\ rank(i) \in Nat
  <2>1. \A i : upto(i) \in SUBSET K
    OBVIOUS
  <2>2. \A i : IsFiniteSet(upto(i))
    <3> HIDE DEF upto
    <3>. QED BY Zenon, <1>1, <2>1, FS_Subset
  <2> HIDE DEF upto
  <2>. QED BY Zenon, <2>2, FS_CardinalityType
<1>3. Cardinality(K) \in Nat
  BY Zenon, <1>1, FS_CardinalityType
<1>4. upto(L) = K /\ upto(0) = {}
  <2>1. \A j \in K : ~(j <= 0)
    BY <1>0
  <2>. QED BY Zenon, <1>0, <2>1
<1>5. rank(L) = Cardinality(K) /\ rank(0) = 0
  <2> HIDE DEF upto
  <2>. QED BY Zenon, <1>4, FS_EmptySet
<1>6. ASSUME NEW i \in 1..L
      PROVE  rank(i) = IF i \in K THEN rank(i - 1) + 1 ELSE rank(i - 1)
  <2>1. \A j \in K : j <= i <=> j <= i - 1 \/ j = i
    BY <1>0
  <2>2. CASE i \notin K
    <3>1. upto(i) = upto(i - 1)
      BY Zenon, <2>1, <2>2
    <3> HIDE DEF upto
    <3>. QED BY Zenon, <2>2, <3>1
  <2>3. CASE i \in K
    <3>1. upto(i) = upto(i - 1) \cup {i} /\ i \notin upto(i - 1)
      <4>1. ~(i <= i - 1)
        OBVIOUS
      <4>. QED BY Zenon, <2>1, <2>3, <4>1
    <3> HIDE DEF upto
    <3>. QED BY Zenon, <1>2, <2>3, <3>1, FS_AddElement
  <2>. QED BY <2>2, <2>3
<1> HIDE DEF rank
<1>7. ASSUME NEW n \in 1..Cardinality(K)
      PROVE  \E i \in K : rank(i) = n
  <2> DEFINE T == {i \in 0..L : rank(i) >= n}
  <2>1. T \in SUBSET Nat /\ L \in T
    BY <1>3, <1>5
  <2>2. PICK m \in T : \A i \in T : m <= i
    <3> HIDE DEF T
    <3>. QED BY Zenon, <2>1, LeastElement
  <2>3. m \in 1..L
    BY <1>3, <1>5, <2>2
  <2>4. m - 1 \in 0..L /\ ~(rank(m - 1) >= n)
    BY <2>2, <2>3
  <2>5. rank(m) >= n /\ rank(m) \in Nat /\ rank(m - 1) \in Nat
    BY <1>2, <2>2 DEF rank
  <2>6. rank(m) = IF m \in K THEN rank(m - 1) + 1 ELSE rank(m - 1)
    BY Zenon, <1>6, <2>3
  <2>7. m \in K /\ rank(m) = n
    BY <1>3, <2>4, <2>5, <2>6
  <2>. QED BY <2>7
<1>. QED
  BY Zenon, <1>3, <1>7 DEF rank

(* Removing an item from a list leaves a list.                               *)
LEMMA WithoutItemTyping ==
  ASSUME NEW list \in Seq(Item), NEW item
  PROVE  WithoutItem(list, item) \in Seq(Item)
<1> DEFINE kept    == {i \in DOMAIN list : list[i] # item}
           rank(i) == Cardinality({j \in kept : j <= i})
<1>1. Len(list) \in Nat /\ DOMAIN list = 1..Len(list) /\ \A i \in DOMAIN list : list[i] \in Item
  OBVIOUS
<1>2. kept \in SUBSET (1..Len(list)) /\ kept \in SUBSET DOMAIN list
  BY <1>1
<1> HIDE DEF kept
<1>3. Cardinality(kept) \in Nat
      /\ \A n \in 1..Cardinality(kept) : \E i \in kept : rank(i) = n
  BY Zenon, <1>1, <1>2, EveryRankIsTaken
<1>4. \A n \in 1..Cardinality(kept) : list[CHOOSE i \in kept : rank(i) = n] \in Item
  BY Zenon, <1>1, <1>2, <1>3
<1>5. [n \in 1..Cardinality(kept) |-> list[CHOOSE i \in kept : rank(i) = n]] \in Seq(Item)
  <2>1. \A k \in Nat : \A f \in [1..k -> Item] : f \in Seq(Item)
    OBVIOUS
  <2>2. [n \in 1..Cardinality(kept) |-> list[CHOOSE i \in kept : rank(i) = n]]
          \in [1..Cardinality(kept) -> Item]
    BY Zenon, <1>4
  <2>. QED BY Zenon, <1>3, <2>1, <2>2
<1>. QED
  BY Zenon, <1>5 DEF WithoutItem, kept

(* Adding an item to a list of a node, opening the list first when it is     *)
(* absent, leaves a node.                                                    *)
LEMMA AddItemTyping ==
  ASSUME NEW n \in Node, NEW p \in Payload, p.op = "AddItemByName"
  PROVE  AddItem(p, n) \in Node
<1> DEFINE opened == [r \in Row |-> IF r \in p.field /\ n.rows[r] = None
                                      THEN <<>> ELSE n.rows[r]]
           list == opened[p.row]
           listed == \E i \in DOMAIN list : list[i].key = p.item.key
           new == IF listed THEN list ELSE Append(list, p.item)
<1>1. p.row \in Row /\ p.row \in p.field /\ p.item \in Item
  BY DEF Payload
<1>2. n.rows \in [Row -> Seq(Item) \cup {None}]
  BY DEF Node
<1>3. opened \in [Row -> Seq(Item) \cup {None}]
  BY <1>2
<1>4. list \in Seq(Item)
  BY <1>1, <1>2
<1> HIDE DEF opened
<1>5. new \in Seq(Item)
  BY <1>1, <1>4
<1>6. AddItem(p, n) = [n EXCEPT !.rows = [opened EXCEPT ![p.row] = new]]
  BY DEF AddItem, opened
<1> HIDE DEF new
<1>7. [opened EXCEPT ![p.row] = new] \in [Row -> Seq(Item) \cup {None}]
  BY Zenon, <1>3, <1>5
<1>. QED
  BY Zenon, <1>6, <1>7 DEF Node

(* Every by-name edit of a node leaves a node.                               *)
LEMMA EditNodeTyping ==
  ASSUME NEW n \in Node, NEW p \in Payload,
         p.op \in {"RenameNodeByName", "SetAttrByName", "AddItemByName", "RemoveItemByName"}
  PROVE  EditNode(p, n) \in Node
<1>1. CASE p.op = "RenameNodeByName"
  <2>1. p.name \in Name
    BY <1>1 DEF Payload
  <2>. QED BY <1>1, <2>1 DEF EditNode, Node
<1>2. CASE p.op = "SetAttrByName"
  <2>1. p.attr \in Attr /\ p.value \in Value
    BY <1>2 DEF Payload
  <2>2. [n.attrs EXCEPT ![p.attr] = p.value] \in [Attr -> Value \cup {None}]
    BY <2>1 DEF Node
  <2>. QED BY <1>2, <2>2 DEF EditNode, Node
<1>3. CASE p.op = "AddItemByName"
  BY <1>3, AddItemTyping DEF EditNode
<1>4. CASE p.op = "RemoveItemByName"
  <2>1. n.rows \in [Row -> Seq(Item) \cup {None}]
    BY DEF Node
  <2>2. \A r \in Row : n.rows[r] # None => WithoutItem(n.rows[r], p.item) \in Seq(Item)
    BY <2>1, WithoutItemTyping
  <2>3. RemoveItem(p, n) \in Node
    BY <2>1, <2>2 DEF RemoveItem, Node
  <2>. QED BY <1>4, <2>3 DEF EditNode
<1>. QED
  BY <1>1, <1>2, <1>3, <1>4

(* An operation of a ChangeSet turns a graph into a graph: the typing of     *)
(* apply_payload, every variant.                                             *)
LEMMA apply_payloadTyping ==
  ASSUME NEW g \in Graph, NEW p \in Payload
  PROVE  apply_payload(p, g) \in Graph
<1>0. g.nodes \in Seq(Node) /\ g.edges \in SUBSET Edge
  BY DEF Graph
<1>1. CASE p.op = "CreateNode"
  <2>1. p.node \in Node
    BY <1>1 DEF Payload
  <2>2. Append(g.nodes, p.node) \in Seq(Node)
    BY <1>0, <2>1
  <2>. QED BY Zenon, <1>0, <1>1, <2>2 DEF apply_payload, Graph
<1>2. CASE p.op = "AddEdge"
  <2>1. p.edge \in Edge
    BY <1>2 DEF Payload
  <2>. QED BY <1>0, <1>2, <2>1 DEF apply_payload, Graph
<1>3. CASE p.op = "RemoveNode"
  BY <1>3, RemoveNodeTyping DEF apply_payload
<1>4. CASE p.op = "SetNodeName"
  <2>1. p.name \in Name
    BY <1>4 DEF Payload
  <2> DEFINE i == IndexOfId(g, p.id)
  <2>2. ASSUME HasId(g, p.id) PROVE EditAt(i, [g.nodes[i] EXCEPT !.name = p.name], g) \in Graph
    <3>1. i \in DOMAIN g.nodes
      BY <2>2, IndexOfIdTyping
    <3> HIDE DEF i
    <3>2. g.nodes[i] \in Node
      BY <1>0, <3>1, ElementOfSeq
    <3>3. [g.nodes[i] EXCEPT !.name = p.name] \in Node
      BY <3>2, <2>1 DEF Node
    <3>. QED BY <3>1, <3>3, EditAtTyping
  <2>. QED BY <1>4, <2>2 DEF apply_payload
<1>5. CASE p.op = "RemoveNodeByName"
  BY <1>5, RemoveNodeTyping DEF apply_payload
<1>6. CASE p.op \in {"AddEdgeByName", "RemoveEdgeByName"}
  <2>1. p.kind \in EdgeKind
    BY <1>6 DEF Payload
  <2>2. ASSUME NEW x, HasName(g, x) PROVE node_id_by_name(g, x) \in NodeRef
    <3>1. g.nodes[IndexOfName(g, x)] \in Node
      BY <1>0, <2>2, IndexOfNameTyping, ElementOfSeq
    <3>. QED BY <3>1 DEF node_id_by_name, Node
  <2>3. HasName(g, p.source) /\ HasName(g, p.target) => EdgeByName(p, g) \in Edge
    BY <2>1, <2>2 DEF EdgeByName, Edge
  <2>. QED BY <1>0, <1>6, <2>3 DEF apply_payload, Graph
<1>7. CASE p.op \in {"RenameNodeByName", "SetAttrByName", "AddItemByName", "RemoveItemByName"}
  <2> DEFINE i == IndexOfName(g, p.target)
  <2>1. ASSUME HasName(g, p.target) PROVE EditAt(i, EditNode(p, g.nodes[i]), g) \in Graph
    <3>1. i \in DOMAIN g.nodes
      BY <2>1, IndexOfNameTyping
    <3> HIDE DEF i
    <3>2. g.nodes[i] \in Node
      BY <1>0, <3>1, ElementOfSeq
    <3>3. EditNode(p, g.nodes[i]) \in Node
      BY <3>2, <1>7, EditNodeTyping
    <3>. QED BY <3>1, <3>3, EditAtTyping
  <2>. QED BY <1>7, <2>1 DEF apply_payload
<1>8. CASE p.op = "Noop"
  BY <1>8 DEF apply_payload
<1>9. p.op \in {"CreateNode", "AddEdge", "RemoveNode", "SetNodeName", "RemoveNodeByName",
               "AddEdgeByName", "RemoveEdgeByName", "RenameNodeByName", "SetAttrByName",
               "AddItemByName", "RemoveItemByName", "Noop"}
  BY DEF Payload
<1>. QED
  BY <1>1, <1>2, <1>3, <1>4, <1>5, <1>6, <1>7, <1>8, <1>9

(* What the operations of a ChangeSet touch and remove are nodes.            *)
LEMMA TouchedTyping ==
  ASSUME NEW ops \in Seq(Payload)
  PROVE  touched_nodes(ops) \subseteq NodeRef /\ extract_removed_nodes(ops) \subseteq NodeRef
<1>1. \A i \in DOMAIN ops : ops[i] \in Payload
  BY ElementOfSeq
<1>2. \A p \in Payload : p.op = "RemoveNode" => p.id \in NodeRef
  BY DEF Payload
<1>3. \A p \in Payload : extract_node_refs(p) \subseteq NodeRef
  <2> SUFFICES ASSUME NEW p \in Payload PROVE extract_node_refs(p) \subseteq NodeRef
    OBVIOUS
  <2>1. p.op = "CreateNode" => p.node.id \in NodeRef
    BY DEF Payload, Node
  <2>2. p.op = "SetNodeName" => p.id \in NodeRef
    BY DEF Payload
  <2>3. p.op = "AddEdge" => p.edge.source \in NodeRef /\ p.edge.target \in NodeRef
    BY DEF Payload, Edge
  <2>. QED BY <1>2, <2>1, <2>2, <2>3 DEF extract_node_refs
<1>. QED
  BY <1>1, <1>2, <1>3 DEF touched_nodes, extract_removed_nodes
=============================================================================
