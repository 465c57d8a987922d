------------------------- MODULE CoordinatorProofs -------------------------
(* The Coordinator keeps its types and its invariant, and implements the     *)
(* Serializer, for every set of agents, ChangeSets, signers and bundles.     *)
EXTENDS Coordinator, GraphTheorems

(* An unanswered request is a request, and a submission carries a ChangeSet. *)
LEMMA SubmissionTyping ==
  ASSUME NEW r \in Requests, IsSubmission(r)
  PROVE  /\ r.cs \in ChangeSets /\ r.base \in Nat
         /\ r.cs.ops \in Seq(Payload) /\ r.cs.pre \in Seq(Precondition)
<1>1. r.cs \in ChangeSets /\ r.base \in Bases
  BY DEF Requests, IsSubmission
<1>. QED
  BY Zenon, <1>1, ChangeSetAssumption, IdsAssumption

(* An answer without data is an answer.                                      *)
LEMMA PlainReply ==
  ASSUME NEW k \in Plain
  PROVE  [kind |-> k] \in Replies
<1>1. [kind |-> k] \in [kind : Plain]
  OBVIOUS
<1>. QED
  BY <1>1 DEF Replies

LEMMA FailedReply ==
  ASSUME NEW r
  PROVE  FailedAnswer(r) \in Replies
<1>1. "Failed" \in Plain /\ "E_COORDINATOR_FAILED" \in Plain
  BY DEF Plain
<1>. QED
  BY Zenon, <1>1, PlainReply DEF FailedAnswer

(* The agent that can lock is the first in the queue.                        *)
LEMMA HeadOfQueue ==
  ASSUME TypeOK, NEW a \in Agents, CanLock(a)
  PROVE  /\ Len(waiters) >= 1 /\ a = waiters[1]
         /\ Tail(waiters) \in Seq(Agents) /\ Len(Tail(waiters)) = Len(waiters) - 1
         /\ \A i \in 1..Len(Tail(waiters)) : Tail(waiters)[i] = waiters[i + 1]
<1>1. waiters \in Seq(Agents) /\ waiters # <<>>
  BY DEF TypeOK, CanLock
<1>. QED
  BY <1>1, HeadTailProperties DEF CanLock

(* The invariant holds of a new Coordinator.                                 *)
LEMMA InitInv == Init => Inv
<1> SUFFICES ASSUME Init PROVE Inv
  OBVIOUS
<1> USE DEF Init
<1>1. TypeOK
  BY IdsAssumption, GraphAssumption DEF TypeOK
<1>2. QueueOK
  BY DEF QueueOK
<1>3. WindowIsLastCommit
  BY DEF WindowIsLastCommit, touched_nodes, extract_removed_nodes
<1>4. ApplyOK
  BY GraphAssumption DEF ApplyOK
<1>. QED
  BY <1>1, <1>2, <1>3, <1>4 DEF Inv

(* Receive changes the request, the ticket and the answer of one agent that  *)
(* is neither queued nor holding the mutex, and may queue it.                *)
LEMMA ReceiveInv ==
  ASSUME Inv, NEW a \in Agents, NEW r \in Requests, Receive(a, r)
  PROVE  Inv'
<1>0. TypeOK /\ QueueOK /\ WindowIsLastCommit /\ ApplyOK
  BY DEF Inv
<1>1. /\ ~Waiting(a) /\ issued' = issued + 1
      /\ ticket' = [ticket EXCEPT ![a] = issued'] /\ request' = [request EXCEPT ![a] = r]
      /\ UNCHANGED <<graph, live, committed_diff, committed_removes, bundle_store, holder,
                     rollback, next_op, path, log>>
  BY DEF Receive, live_ids, locals
<1>2. \/ /\ waiters' = Append(waiters, a) /\ reply' = [reply EXCEPT ![a] = None]
      \/ /\ \E k \in {"E_SIGNATURE_INVALID", "E_SIGNER_NOT_ALLOWED", "E_BUNDLE_INVALID"} :
               reply' = [reply EXCEPT ![a] = [kind |-> k]]
         /\ waiters' = waiters
  BY DEF Receive, Enqueue, Rejection
<1>3. r # None
  BY NoneAssumption
<1>4. request'[a] = r /\ \A b \in Agents \ {a} : request'[b] = request[b] /\ reply'[b] = reply[b]
  BY <1>0, <1>1, <1>2 DEF TypeOK
<1>5. TypeOK'
  <2>1. request' \in [Agents -> Requests \cup {None}]
    BY <1>0, <1>1 DEF TypeOK
  <2>2. ticket' \in [Agents -> Nat] /\ issued' \in Nat
    BY <1>0, <1>1 DEF TypeOK
  <2>3. waiters' \in Seq(Agents)
    <3>1. waiters \in Seq(Agents)
      BY <1>0 DEF TypeOK
    <3>2. Append(waiters, a) \in Seq(Agents)
      BY <3>1
    <3>. QED BY <1>2, <3>1, <3>2
  <2>4. ASSUME NEW k \in {"E_SIGNATURE_INVALID", "E_SIGNER_NOT_ALLOWED", "E_BUNDLE_INVALID"}
        PROVE  [kind |-> k] \in Replies
    <3>1. k \in Plain
      BY DEF Plain
    <3>. QED BY <3>1, PlainReply
  <2>5. reply' \in [Agents -> Replies \cup {None}]
    <3>1. reply \in [Agents -> Replies \cup {None}]
      BY Zenon, <1>0 DEF TypeOK
    <3>2. PICK v \in Replies \cup {None} : reply' = [reply EXCEPT ![a] = v]
      BY Zenon, <1>2, <2>4
    <3>. QED BY SMTT(40), <3>1, <3>2
  <2>. QED BY <1>0, <1>1, <2>1, <2>2, <2>3, <2>5 DEF TypeOK
<1>6. waiters \in Seq(Agents) /\ \A i \in DOMAIN waiters : waiters[i] \in Agents \ {a}
  BY <1>0, <1>1, ElementOfSeq DEF QueueOK, TypeOK
<1>7. holder # None => holder \in Agents \ {a}
  BY <1>0, <1>1 DEF ApplyOK, TypeOK
<1>9. QueueOK'
  <2>1. CASE waiters' = waiters
    BY <1>0, <1>1, <1>4, <1>6, <2>1 DEF QueueOK, Waiting
  <2>2. CASE waiters' = Append(waiters, a) /\ reply' = [reply EXCEPT ![a] = None]
    <3>1. /\ DOMAIN waiters' = 1..(Len(waiters) + 1) /\ waiters'[Len(waiters) + 1] = a
          /\ \A i \in 1..Len(waiters) : waiters'[i] = waiters[i]
          /\ DOMAIN waiters = 1..Len(waiters) /\ Len(waiters) \in Nat
      BY <1>6, <2>2
    <3>2. reply'[a] = None
      BY <1>0, <2>2 DEF TypeOK
    <3>3. ASSUME NEW i \in DOMAIN waiters'
          PROVE  request'[waiters'[i]] # None /\ reply'[waiters'[i]] = None /\ waiters'[i] # holder'
      <4>1. CASE i = Len(waiters) + 1
        BY SMTT(40), <4>1, <3>1, <3>2, <1>1, <1>3, <1>4, <1>7, NoneAssumption
      <4>2. CASE i \in 1..Len(waiters)
        BY <4>2, <3>1, <1>0, <1>1, <1>4, <1>6 DEF QueueOK, Waiting
      <4>. QED BY <4>1, <4>2, <3>1
    <3>4. ASSUME NEW i \in DOMAIN waiters', NEW j \in DOMAIN waiters', waiters'[i] = waiters'[j]
          PROVE  i = j
      BY <1>0, <1>6, <3>1, <3>4 DEF QueueOK
    <3>. QED BY <3>3, <3>4 DEF QueueOK, Waiting
  <2>. QED BY <1>2, <2>1, <2>2
<1>10. WindowIsLastCommit'
  BY SMTT(40), <1>0, <1>1 DEF WindowIsLastCommit
<1>11. ApplyOK'
  <2>1. holder # None => request'[holder] = request[holder] /\ reply'[holder] = reply[holder]
    BY <1>7, <1>4
  <2>. QED BY <1>0, <1>1, <2>1 DEF ApplyOK, Waiting, Running
<1>. QED
  BY <1>5, <1>9, <1>10, <1>11 DEF Inv

(* The agent whose turn it is has a request that is not answered yet.        *)
LEMMA WokenHasRequest ==
  ASSUME TypeOK, QueueOK, NEW a \in Agents, CanLock(a)
  PROVE  Waiting(a) /\ request[a] \in Requests
<1>1. waiters \in Seq(Agents) /\ Len(waiters) >= 1 /\ a = waiters[1]
  BY HeadOfQueue DEF TypeOK
<1>2. 1 \in DOMAIN waiters
  BY <1>1
<1>3. Waiting(a)
  BY <1>1, <1>2 DEF QueueOK
<1>. QED
  BY <1>3 DEF TypeOK, Waiting

(* Once the first waiter is woken, the others are still distinct, unanswered *)
(* and none of them is the woken one.                                        *)
LEMMA QueueAfterWake ==
  ASSUME TypeOK, QueueOK, NEW a \in Agents, CanLock(a), waiters' = Tail(waiters)
  PROVE  /\ waiters' \in Seq(Agents) /\ Waiting(a)
         /\ \A i \in DOMAIN waiters' :
               waiters'[i] \in Agents \ {a} /\ request[waiters'[i]] # None /\ reply[waiters'[i]] = None
         /\ \A i, j \in DOMAIN waiters' : waiters'[i] = waiters'[j] => i = j
<1>1. /\ waiters \in Seq(Agents) /\ Len(waiters) >= 1 /\ a = waiters[1]
      /\ waiters' \in Seq(Agents) /\ Len(waiters') = Len(waiters) - 1
      /\ \A i \in 1..Len(waiters') : waiters'[i] = waiters[i + 1]
  BY HeadOfQueue DEF TypeOK
<1>2. DOMAIN waiters = 1..Len(waiters) /\ DOMAIN waiters' = 1..Len(waiters') /\ Len(waiters) \in Nat
  BY <1>1
<1>3. \A i \in DOMAIN waiters' : i \in 1..Len(waiters') /\ i + 1 \in DOMAIN waiters /\ i + 1 # 1
  BY <1>1, <1>2
<1>4. 1 \in DOMAIN waiters
  BY <1>1, <1>2
<1>5. Waiting(a)
  BY <1>1, <1>4 DEF QueueOK
<1>6. ASSUME NEW i \in DOMAIN waiters'
      PROVE  waiters'[i] \in Agents \ {a} /\ request[waiters'[i]] # None /\ reply[waiters'[i]] = None
  <2>1. waiters'[i] = waiters[i + 1] /\ i + 1 \in DOMAIN waiters /\ i + 1 # 1
    BY <1>1, <1>3
  <2>2. waiters[i + 1] # waiters[1]
    BY <1>4, <2>1 DEF QueueOK
  <2>3. waiters[i + 1] \in Agents
    BY <1>1, <2>1, ElementOfSeq
  <2>. QED BY <1>1, <2>1, <2>2, <2>3 DEF QueueOK, Waiting
<1>7. ASSUME NEW i \in DOMAIN waiters', NEW j \in DOMAIN waiters', waiters'[i] = waiters'[j]
      PROVE  i = j
  <2>1. i + 1 = j + 1
    BY <1>1, <1>3, <1>7 DEF QueueOK
  <2>. QED BY <1>2, <2>1
<1>. QED
  BY <1>1, <1>5, <1>6, <1>7

(* A request that is answered as soon as its turn comes, without touching    *)
(* the graph: PushBundle, PullBundle, a conflict, a stale base, a            *)
(* precondition that fails.                                                  *)
LEMMA AnsweredInv ==
  ASSUME Inv, NEW a \in Agents, CanLock(a), waiters' = Tail(waiters),
         NEW ans \in Replies, reply' = [reply EXCEPT ![a] = ans],
         bundle_store' \in [Roots -> Bundles \cup {None}],
         UNCHANGED <<graph, live, committed_diff, committed_removes, holder, request,
                     rollback, next_op, path, ticket, issued, log>>
  PROVE  Inv'
<1>0. TypeOK /\ QueueOK /\ WindowIsLastCommit /\ ApplyOK
  BY DEF Inv
<1>1. /\ waiters' \in Seq(Agents) /\ holder = None
      /\ \A i \in DOMAIN waiters' :
            waiters'[i] \in Agents \ {a} /\ request[waiters'[i]] # None /\ reply[waiters'[i]] = None
      /\ \A i, j \in DOMAIN waiters' : waiters'[i] = waiters'[j] => i = j
  BY <1>0, QueueAfterWake DEF CanLock
<1>2. reply' \in [Agents -> Replies \cup {None}] /\ \A b \in Agents \ {a} : reply'[b] = reply[b]
  BY <1>0 DEF TypeOK
<1>3. TypeOK'
  BY <1>0, <1>1, <1>2 DEF TypeOK
<1>4. QueueOK'
  BY <1>1, <1>2, NoneAssumption DEF QueueOK, Waiting
<1>5. WindowIsLastCommit'
  BY SMTT(40), <1>0 DEF WindowIsLastCommit
<1>6. ApplyOK'
  BY <1>0, <1>1 DEF ApplyOK
<1>. QED
  BY <1>3, <1>4, <1>5, <1>6 DEF Inv

(* The bundle requests keep the invariant.                                   *)
LEMMA BundleInv ==
  ASSUME Inv, NEW a \in Agents, put_bundle(a) \/ get_bundle(a)
  PROVE  Inv'
<1>0. TypeOK /\ QueueOK /\ CanLock(a)
  BY DEF Inv, put_bundle, get_bundle
<1>1. request[a] \in Requests
  BY SMTT(40), <1>0, WokenHasRequest
<1>2. CASE put_bundle(a)
  <2>1. request[a].bundle \in Bundles /\ request[a].bundle.root \in Roots
    <3>1. request[a].kind = "push"
      BY <1>2 DEF put_bundle
    <3>2. request[a].bundle \in Bundles
      BY <1>1, <3>1 DEF Requests
    <3>3. \A b \in Bundles : b.root \in Roots
      BY BundleAssumption
    <3>. QED BY <3>2, <3>3
  <2>2. bundle_store' \in [Roots -> Bundles \cup {None}]
    BY <1>0, <1>2, <2>1 DEF put_bundle, TypeOK
  <2>3. [kind |-> "BundleAccepted"] \in Replies
    BY SMTT(40), PlainReply DEF Plain
  <2>. QED BY Zenon, <1>0, <1>2, <2>2, <2>3, AnsweredInv DEF put_bundle, Answer, live_ids, locals
<1>3. CASE get_bundle(a)
  <2> DEFINE found == bundle_store[request[a].root]
             ans == IF found = None THEN [kind |-> "BundleMissing"]
                                    ELSE [kind |-> "Bundle", bundle |-> found]
  <2>1. request[a].root \in Roots
    BY <1>1, <1>3 DEF get_bundle, Requests
  <2>2. found \in Bundles \cup {None}
    BY <1>0, <2>1 DEF TypeOK
  <2>3. [kind |-> "BundleMissing"] \in Replies
    BY PlainReply DEF Plain
  <2>4. ASSUME found \in Bundles PROVE [kind |-> "Bundle", bundle |-> found] \in Replies
    <3> HIDE DEF found
    <3>1. [kind |-> "Bundle", bundle |-> found] \in [kind : {"Bundle"}, bundle : Bundles]
      BY <2>4
    <3>. QED BY <3>1 DEF Replies
  <2>5. ans \in Replies
    BY ZenonT(40), <2>2, <2>3, <2>4
  <2>6. reply' = [reply EXCEPT ![a] = ans]
    BY SMTT(40), <1>3 DEF get_bundle, Answer
  <2>7. bundle_store' \in [Roots -> Bundles \cup {None}]
    BY <1>0, <1>3 DEF get_bundle, TypeOK
  <2> HIDE DEF ans, found
  <2>. QED BY ZenonT(40), <1>0, <1>3, <2>5, <2>6, <2>7, AnsweredInv DEF get_bundle, live_ids, locals
<1>. QED
  BY ZenonT(40), <1>2, <1>3

(* A refused rebase keeps the invariant.                                     *)
LEMMA ConflictInv ==
  ASSUME Inv, NEW a \in Agents, Conflict(a)
  PROVE  Inv'
<1> DEFINE why == classify_conflict(touched_nodes(request[a].cs.ops) \cap committed_diff,
                                    committed_removes)
           ans == [kind |-> "ConflictIrresolvable", reason |-> why]
<1>1. why \in {"NodeDeletedWhileModified", "SameNodeModifiedIncompatibly"}
  BY DEF classify_conflict
<1> HIDE DEF why
<1>2. ans \in [kind : {"ConflictIrresolvable"},
              reason : {"NodeDeletedWhileModified", "SameNodeModifiedIncompatibly"}]
  BY <1>1
<1>3. ans \in Replies
  <2> HIDE DEF ans
  <2>. QED BY <1>2 DEF Replies
<1>4. /\ CanLock(a) /\ waiters' = Tail(waiters) /\ reply' = [reply EXCEPT ![a] = ans]
      /\ UNCHANGED <<graph, live, committed_diff, committed_removes, holder, request,
                     rollback, next_op, path, ticket, issued, log, bundle_store>>
  BY DEF Conflict, Answer, live_ids, locals, why
<1>5. bundle_store' \in [Roots -> Bundles \cup {None}]
  BY <1>4 DEF Inv, TypeOK
<1> HIDE DEF ans
<1>. QED
  BY Zenon, <1>3, <1>4, <1>5, AnsweredInv

(* Entering apply() keeps the invariant: it answers, or takes the mutex with *)
(* a clone of the valid graph and no operation done.                         *)
LEMMA EnterApplyInv ==
  ASSUME Inv, NEW a \in Agents, EnterApply(a)
  PROVE  Inv'
<1>0. TypeOK /\ QueueOK /\ WindowIsLastCommit /\ ApplyOK /\ CanLock(a)
  BY DEF Inv, EnterApply
<1>1. /\ waiters' = Tail(waiters) /\ IsSubmission(request[a])
      /\ request[a].base = live \/ CanRebase(a)
      /\ UNCHANGED <<graph, live, committed_diff, committed_removes, bundle_store, request,
                     ticket, issued, log>>
  BY DEF EnterApply, live_ids
<1>2. CASE /\ UNCHANGED <<holder, rollback, next_op, path>>
           /\ \/ reply' = [reply EXCEPT ![a] = [kind |-> "StaleBase"]]
              \/ reply' = [reply EXCEPT ![a] = FailedAnswer(request[a])]
  <2>1. [kind |-> "StaleBase"] \in Replies /\ FailedAnswer(request[a]) \in Replies
    BY PlainReply, FailedReply DEF Plain
  <2>2. bundle_store' \in [Roots -> Bundles \cup {None}]
    BY <1>0, <1>1 DEF TypeOK
  <2>. QED BY <1>0, <1>1, <1>2, <2>1, <2>2, AnsweredInv
<1>3. CASE /\ PreconditionsHold(request[a].cs, graph)
           /\ holder' = a /\ rollback' = graph /\ next_op' = 1 /\ path' = <<graph>>
           /\ reply' = reply
  <2>1. /\ waiters' \in Seq(Agents) /\ Waiting(a) /\ request[a] \in Requests
        /\ \A i \in DOMAIN waiters' :
              waiters'[i] \in Agents \ {a} /\ request[waiters'[i]] # None /\ reply[waiters'[i]] = None
        /\ \A i, j \in DOMAIN waiters' : waiters'[i] = waiters'[j] => i = j
    BY <1>0, <1>1, QueueAfterWake, WokenHasRequest
  <2>2. graph \in Graph /\ validate(graph) /\ a # None
    BY <1>0, NoneAssumption DEF TypeOK, ApplyOK, CanLock
  <2>3. path' \in Seq(Graph) /\ Len(path') = 1 /\ path'[1] = graph
    BY SMTT(40), <1>3, <2>2
  <2>4. TypeOK'
    <3>1. holder' \in Agents \cup {None} /\ rollback' \in Graph \cup {None}
      BY Zenon, <1>3, <2>2
    <3>2. next_op' \in Nat \ {0}
      BY <1>3
    <3>. QED BY ZenonT(40), <1>0, <1>1, <1>3, <2>1, <2>3, <3>1, <3>2 DEF TypeOK
  <2>5. QueueOK'
    BY ZenonT(40), <1>1, <1>3, <2>1 DEF QueueOK, Waiting
  <2>6. WindowIsLastCommit'
    BY SMTT(40), <1>0, <1>1 DEF WindowIsLastCommit
  <2>7. Running(request[a])'
    <3>1. request[a].cs.ops \in Seq(Payload)
      BY <1>1, <2>1, SubmissionTyping
    <3>2. next_op' <= Len(request[a].cs.ops) + 1
      BY <1>3, <3>1, LenProperties
    <3>3. 1..(next_op' - 1) = {}
      BY SMTT(40), <1>3
    <3>. QED BY SMTT(40), <1>1, <1>3, <2>2, <2>3, <3>2, <3>3 DEF Running, CanRebase, PreconditionsHold
  <2>8. ApplyOK'
    BY SMTT(40), <1>1, <1>3, <2>1, <2>2, <2>7 DEF ApplyOK, Waiting
  <2>. QED BY SMTT(40), <2>4, <2>5, <2>6, <2>8 DEF Inv
<1>. QED
  BY <1>2, <1>3 DEF EnterApply, StartLoop, Answer, locals

(* The agent that holds the mutex is running apply() on its own submission.  *)
LEMMA HolderFacts ==
  ASSUME Inv, NEW a \in Agents, holder = a
  PROVE  /\ Waiting(a) /\ request[a] \in Requests /\ Running(request[a])
         /\ request[a].cs \in ChangeSets /\ request[a].base \in Nat
         /\ request[a].cs.ops \in Seq(Payload)
         /\ graph \in Graph /\ validate(graph) /\ rollback \in Graph /\ validate(rollback)
         /\ path \in Seq(Graph) /\ next_op \in Nat \ {0}
<1>1. Waiting(a) /\ Running(request[a]) /\ request[a] \in Requests
  BY ZenonT(40), NoneAssumption DEF Inv, ApplyOK, TypeOK, Waiting
<1>2. /\ graph \in Graph /\ path \in Seq(Graph) /\ next_op \in Nat \ {0}
      /\ rollback \in Graph /\ validate(rollback)
  BY SMTT(40), <1>1 DEF Inv, TypeOK, Running
<1>3. validate(graph)
  <2>1. CASE next_op = 1
    BY SMTT(40), <1>1, <1>2, <2>1 DEF Running
  <2>2. CASE next_op # 1
    <3>1. next_op - 1 \in 1..(next_op - 1) /\ (next_op - 1) + 1 = next_op
      BY <1>2, <2>2
    <3>. QED BY <1>1, <3>1 DEF Running
  <2>. QED BY <2>1, <2>2
<1>. QED
  BY Zenon, <1>1, <1>2, <1>3, SubmissionTyping DEF Running

(* What happens to the queue when the holder finishes or goes on: nothing.   *)
LEMMA HolderLeavesQueue ==
  ASSUME Inv, NEW a \in Agents, holder = a, waiters' = waiters, request' = request,
         holder' \in {a, None}, \A b \in Agents \ {a} : reply'[b] = reply[b]
  PROVE  QueueOK'
<1>1. waiters \in Seq(Agents) /\ \A i \in DOMAIN waiters : waiters[i] \in Agents \ {a}
  BY ElementOfSeq DEF Inv, QueueOK, TypeOK
<1>. QED
  BY <1>1, NoneAssumption DEF Inv, QueueOK, Waiting

(* One operation keeps the invariant: the edited graph extends the path, or  *)
(* the clone, which is valid, is put back.                                   *)
LEMMA ApplyOpInv ==
  ASSUME Inv, NEW a \in Agents, ApplyOp(a)
  PROVE  Inv'
<1> DEFINE ops == request[a].cs.ops
           edited == apply_payload(ops[next_op], graph)
<1>0. TypeOK /\ QueueOK /\ WindowIsLastCommit /\ ApplyOK /\ holder = a /\ next_op <= Len(ops)
  BY DEF Inv, ApplyOp
<1>1. UNCHANGED <<live, committed_diff, committed_removes, bundle_store, waiters, request,
                  ticket, issued, log>>
  BY SMTT(40) DEF ApplyOp, live_ids
<1>2. /\ Waiting(a) /\ Running(request[a]) /\ ops \in Seq(Payload)
      /\ graph \in Graph /\ rollback \in Graph /\ validate(rollback)
      /\ path \in Seq(Graph) /\ next_op \in Nat \ {0} /\ Len(ops) \in Nat
  BY SMTT(40), <1>0, HolderFacts, LenProperties
<1>3. ops[next_op] \in Payload
  BY SMTT(40), <1>0, <1>2, ElementOfSeq
<1>4. edited \in Graph
  BY <1>2, <1>3, apply_payloadTyping
<1>5. WindowIsLastCommit'
  BY <1>0, <1>1 DEF WindowIsLastCommit
<1>6. CASE validate(edited)
  <2>1. /\ graph' = edited /\ next_op' = next_op + 1 /\ path' = Append(path, edited)
        /\ UNCHANGED <<holder, rollback, reply>>
    BY ZenonT(40), <1>6 DEF ApplyOp
  <2> HIDE DEF edited
  <2>2. /\ path' \in Seq(Graph) /\ Len(path) = next_op /\ Len(path') = next_op + 1
        /\ path'[next_op + 1] = edited /\ \A i \in 1..next_op : path'[i] = path[i]
    <3>1. Len(path) = next_op
      BY ZenonT(40), <1>2 DEF Running
    <3>2. path \in Seq(Graph)
      BY Zenon, <1>2
    <3>3. /\ Append(path, edited) \in Seq(Graph) /\ Len(Append(path, edited)) = Len(path) + 1
          /\ Append(path, edited)[Len(path) + 1] = edited
      BY ZenonT(40), <1>4, <3>2, AppendProperties
    <3>4. ASSUME NEW i \in 1..Len(path) PROVE Append(path, edited)[i] = path[i]
      BY SMTT(40), <1>4, <3>2, AppendProperties
    <3>. QED BY ZenonT(40), <2>1, <3>1, <3>3, <3>4
  <2>3. TypeOK'
    <3>1. graph' \in Graph
      BY Zenon, <1>4, <2>1
    <3>2. next_op' \in Nat \ {0}
      BY <1>2, <2>1
    <3>. QED BY ZenonT(40), <1>0, <1>1, <2>1, <2>2, <3>1, <3>2 DEF TypeOK
  <2>4. QueueOK'
    BY SMTT(40), <1>0, <1>1, <2>1, HolderLeavesQueue
  <2>5. Running(request[a])'
    <3>1. path[1] = rollback /\ path[next_op] = graph
      BY Zenon, <1>2 DEF Running
    <3>2. path'[1] = rollback' /\ path'[next_op'] = graph' /\ Len(path') = next_op'
      BY <1>2, <2>1, <2>2, <3>1
    <3>3. next_op' <= Len(ops) + 1
      BY SMTT(40), <1>0, <1>2, <2>1
    <3>4. ASSUME NEW i \in 1..(next_op' - 1)
          PROVE  path'[i + 1] = apply_payload(ops[i], path'[i]) /\ validate(path'[i + 1])
      <4>1. CASE i = next_op
        BY SMTT(40), <1>6, <2>1, <2>2, <3>1, <4>1, <1>2 DEF edited
      <4>2. CASE i \in 1..(next_op - 1)
        <5>1. path'[i] = path[i] /\ path'[i + 1] = path[i + 1]
          BY <1>2, <2>2, <4>2
        <5>2. path[i + 1] = apply_payload(ops[i], path[i]) /\ validate(path[i + 1])
          BY Zenon, <1>2, <4>2 DEF Running
        <5>. QED BY Zenon, <5>1, <5>2
      <4>3. i = next_op \/ i \in 1..(next_op - 1)
        BY SMTT(40), <1>2, <2>1
      <4>. QED BY ZenonT(40), <4>1, <4>2, <4>3
    <3>. QED BY ZenonT(40), <1>0, <1>1, <1>2, <2>1, <3>2, <3>3, <3>4 DEF Running, PreconditionsHold
  <2>6. ApplyOK'
    BY <1>0, <1>1, <1>2, <2>1, <2>5, NoneAssumption DEF ApplyOK, Waiting
  <2>. QED BY ZenonT(40), <2>3, <2>4, <1>5, <2>6 DEF Inv
<1>7. CASE ~validate(edited)
  <2>1. /\ graph' = rollback /\ holder' = None /\ rollback' = None /\ next_op' = 1 /\ path' = <<>>
        /\ reply' = [reply EXCEPT ![a] = FailedAnswer(request[a])]
    BY <1>7 DEF ApplyOp, Restore, Release, Answer
  <2>2. reply' \in [Agents -> Replies \cup {None}] /\ \A b \in Agents \ {a} : reply'[b] = reply[b]
    <3>1. FailedAnswer(request[a]) \in Replies
      BY Zenon, FailedReply
    <3>. QED BY <1>0, <2>1, <3>1 DEF TypeOK
  <2>3. TypeOK'
    BY SMTT(40), <1>0, <1>1, <1>2, <2>1, <2>2 DEF TypeOK
  <2>4. QueueOK'
    BY SMTT(40), <1>0, <1>1, <2>1, <2>2, HolderLeavesQueue
  <2>5. ApplyOK'
    BY <1>2, <2>1 DEF ApplyOK
  <2>. QED BY SMTT(40), <2>3, <2>4, <1>5, <2>5 DEF Inv
<1>. QED
  BY ZenonT(40), <1>6, <1>7

(* A commit keeps the invariant: the graph it leaves is valid, and the       *)
(* window is that of the new last commit.                                    *)
LEMMA CommitInv ==
  ASSUME Inv, NEW a \in Agents, Commit(a)
  PROVE  Inv'
<1> DEFINE ops == request[a].cs.ops
           entry == [ticket |-> ticket[a], base |-> request[a].base,
                     cs |-> request[a].cs, path |-> path]
           ans == [kind |-> IF request[a].base = live THEN "Applied" ELSE "RebaseApplied",
                   id |-> live + 1]
<1>0. TypeOK /\ QueueOK /\ holder = a
  BY SMTT(40) DEF Inv, Commit
<1>1. /\ live' = live + 1 /\ committed_diff' = touched_nodes(ops)
      /\ committed_removes' = extract_removed_nodes(ops) /\ log' = Append(log, entry)
      /\ reply' = [reply EXCEPT ![a] = ans]
      /\ holder' = None /\ rollback' = None /\ next_op' = 1 /\ path' = <<>>
      /\ UNCHANGED <<graph, bundle_store, waiters, request, ticket, issued>>
  BY SMTT(40) DEF Commit, Remember, CommitAnswer, Release, Answer
<1>2. /\ ops \in Seq(Payload) /\ graph \in Graph /\ validate(graph)
      /\ request[a].cs \in ChangeSets /\ request[a].base \in Nat /\ path \in Seq(Graph)
  BY ZenonT(40), <1>0, HolderFacts
<1>3. entry \in Entries /\ entry.cs = request[a].cs
  BY <1>0, <1>2 DEF TypeOK, Entries
<1>4. ans \in Replies
  <2>1. live + 1 \in Nat
    BY <1>0 DEF TypeOK
  <2>2. ans \in [kind : {"Applied", "RebaseApplied"}, id : Nat]
    BY <2>1
  <2> HIDE DEF ans
  <2>. QED BY <2>2 DEF Replies
<1> HIDE DEF entry, ans
<1>5. /\ log' \in Seq(Entries) /\ Len(log') = Len(log) + 1 /\ log'[Len(log')] = entry
      /\ log' # <<>>
  <2>1. log \in Seq(Entries)
    BY SMTT(40), <1>0 DEF TypeOK
  <2>2. Append(log, entry) \in Seq(Entries) /\ Len(Append(log, entry)) = Len(log) + 1
        /\ Append(log, entry)[Len(log) + 1] = entry /\ Len(log) \in Nat
    <3>1. Append(log, entry) \in Seq(Entries) /\ Len(Append(log, entry)) = Len(log) + 1
          /\ Append(log, entry)[Len(log) + 1] = entry
      BY ZenonT(40), <1>3, <2>1, AppendProperties
    <3>2. Len(log) \in Nat
      BY Zenon, <2>1, LenProperties
    <3>. QED BY Zenon, <3>1, <3>2
  <2>3. Append(log, entry) # <<>>
    BY SMTT(40), <1>3, <2>1, AppendProperties
  <2>. QED BY <1>1, <2>2, <2>3
<1>6. reply' \in [Agents -> Replies \cup {None}] /\ \A b \in Agents \ {a} : reply'[b] = reply[b]
  BY ZenonT(40), <1>0, <1>1, <1>4 DEF TypeOK
<1>7. TypeOK'
  <2>1. committed_diff' \subseteq NodeRef /\ committed_removes' \subseteq NodeRef
    BY <1>1, <1>2, TouchedTyping
  <2>2. live' \in Nat /\ next_op' \in Nat \ {0}
    <3>1. live \in Nat /\ live' = live + 1 /\ next_op' = 1
      BY Zenon, <1>0, <1>1 DEF TypeOK
    <3>. QED BY <3>1
  <2>3. path' \in Seq(Graph)
    <3>1. path' = <<>>
      BY Zenon, <1>1
    <3>. QED BY <3>1
  <2>4. holder' \in Agents \cup {None} /\ rollback' \in Graph \cup {None}
    BY Zenon, <1>1
  <2>. QED BY ZenonT(40), <1>0, <1>1, <1>5, <1>6, <2>1, <2>2, <2>3, <2>4 DEF TypeOK
<1>8. QueueOK'
  BY ZenonT(40), <1>0, <1>1, <1>6, HolderLeavesQueue
<1>9. WindowIsLastCommit'
  BY ZenonT(40), <1>1, <1>3, <1>5 DEF WindowIsLastCommit
<1>10. ApplyOK'
  BY <1>1, <1>2 DEF ApplyOK
<1>. QED
  BY SMTT(40), <1>7, <1>8, <1>9, <1>10 DEF Inv

(* Every step of the Coordinator keeps the invariant.                        *)
LEMMA NextInv == Inv /\ [Next]_vars => Inv'
<1> SUFFICES ASSUME Inv, [Next]_vars PROVE Inv'
  BY SMTT(40)
<1>1. CASE UNCHANGED vars
  BY Zenon, <1>1 DEF vars, mutex, live_ids, locals, Inv, TypeOK, QueueOK, WindowIsLastCommit,
              ApplyOK, Waiting, Running
<1>2. ASSUME NEW a \in Agents, Serve(a) PROVE Inv'
  BY <1>2, BundleInv, ConflictInv, EnterApplyInv, ApplyOpInv, CommitInv DEF Serve
<1>3. ASSUME NEW a \in Agents, NEW r \in Requests, Receive(a, r) PROVE Inv'
  BY <1>3, ReceiveInv
<1>. QED
  BY <1>1, <1>2, <1>3 DEF Next

(* The invariant of the Coordinator holds throughout.                        *)
THEOREM CoordinatorInvariant == Spec => []Inv
BY InitInv, NextInv, PTL DEF Spec

(* The refinement mapping: what the agents may rely on.                      *)
LEMMA AuthorityInit == Init => Authority!Init
BY ZenonT(40) DEF Init, Authority!Init

(* A commit is one step of the Serializer.                                   *)
LEMMA AuthorityCommit ==
  ASSUME Inv, NEW a \in Agents, Commit(a)
  PROVE  Authority!Commit
<1> DEFINE ops == request[a].cs.ops
           entry == [ticket |-> ticket[a], base |-> request[a].base,
                     cs |-> request[a].cs, path |-> path]
<1>1. /\ holder = a /\ a # None /\ holder' = None /\ live' = live + 1 /\ graph' = graph
      /\ log' = Append(log, entry) /\ next_op > Len(ops)
  BY SMTT(40), NoneAssumption DEF Commit, Release
<1>2. /\ Running(request[a]) /\ ops \in Seq(Payload) /\ next_op \in Nat \ {0}
      /\ request[a].cs \in ChangeSets /\ request[a].base \in Nat /\ path \in Seq(Graph)
  BY ZenonT(40), <1>1, HolderFacts
<1>3. entry \in Entries /\ entry.cs = request[a].cs /\ entry.path = path /\ entry.base = request[a].base
  BY Zenon, <1>2 DEF Inv, TypeOK, Entries
<1> HIDE DEF entry
<1>4. log \in Seq(Entries)
  BY DEF Inv, TypeOK
<1>5. Len(log') = Len(log) + 1 /\ log'[Len(log) + 1] = entry
  BY SMTT(40), <1>1, <1>3, <1>4, AppendProperties
<1>6. next_op = Len(ops) + 1
  <2>1. next_op <= Len(ops) + 1
    BY <1>2 DEF Running
  <2>2. Len(ops) \in Nat
    BY <1>2, LenProperties
  <2>3. next_op > Len(ops) /\ next_op \in Nat
    BY ZenonT(40), <1>1, <1>2
  <2> HIDE DEF ops
  <2>. QED BY SMTT(40), <2>1, <2>2, <2>3
<1>7. \A i \in DOMAIN entry.cs.pre : evaluate_precondition(entry.cs.pre[i], rollback)
  BY <1>2, <1>3 DEF Running, PreconditionsHold
<1>8. Authority!MayLand(entry)
  <2>1. request[a].base = live \/ touched_nodes(ops) \cap committed_diff = {}
    BY <1>2 DEF Running, rebase_succeeds
  <2>2. log # <<>> => committed_diff = touched_nodes(log[Len(log)].cs.ops)
    BY SMTT(40) DEF Inv, WindowIsLastCommit
  <2>. QED BY ZenonT(40), <1>3, <2>1, <2>2 DEF Authority!MayLand
<1>9. Authority!IsRun(path, ops, rollback)
  <2>1. DOMAIN ops = 1..(next_op - 1)
    BY <1>2, <1>6, LenProperties
  <2>2. Len(path) = next_op /\ path[1] = rollback
    BY Zenon, <1>2 DEF Running
  <2>3. \A i \in 1..(next_op - 1) :
          path[i + 1] = apply_payload(ops[i], path[i]) /\ validate(path[i + 1])
    BY ZenonT(40), <1>2 DEF Running
  <2> HIDE DEF ops
  <2>. QED BY SMTT(40), <1>6, <2>1, <2>2, <2>3 DEF Authority!IsRun
<1>10. graph = path[Len(path)]
  BY <1>2 DEF Running
<1>. QED
  BY SMTT(40), <1>1, <1>3, <1>5, <1>7, <1>8, <1>9, <1>10 DEF Authority!Commit

(* Every other step leaves the graph, its id and the history that agents     *)
(* rely on as they were.                                                     *)
LEMMA AuthorityNext ==
  ASSUME Inv, [Next]_vars
  PROVE  Authority!Commit \/ UNCHANGED <<IF holder = None THEN graph ELSE rollback, live, log>>
<1>1. CASE UNCHANGED vars
  BY SMTT(40), <1>1 DEF vars, mutex, live_ids, locals
<1>2. ASSUME NEW a \in Agents, put_bundle(a) \/ get_bundle(a) \/ Conflict(a)
      PROVE  UNCHANGED <<IF holder = None THEN graph ELSE rollback, live, log>>
  BY Zenon, <1>2 DEF put_bundle, get_bundle, Conflict, live_ids, locals
<1>3. ASSUME NEW a \in Agents, EnterApply(a)
      PROVE  UNCHANGED <<IF holder = None THEN graph ELSE rollback, live, log>>
  BY ZenonT(40), <1>3, NoneAssumption DEF EnterApply, StartLoop, CanLock, live_ids, locals
<1>4. ASSUME NEW a \in Agents, ApplyOp(a)
      PROVE  UNCHANGED <<IF holder = None THEN graph ELSE rollback, live, log>>
  BY <1>4, NoneAssumption DEF ApplyOp, Restore, Release, live_ids
<1>5. ASSUME NEW a \in Agents, NEW r \in Requests, Receive(a, r)
      PROVE  UNCHANGED <<IF holder = None THEN graph ELSE rollback, live, log>>
  BY <1>5 DEF Receive, live_ids, locals
<1>. QED
  BY SMTT(40), <1>1, <1>2, <1>3, <1>4, <1>5, AuthorityCommit DEF Next, Serve

(* The Coordinator implements the Serializer.                                *)
THEOREM CoordinatorImplementsSerializer == Spec => ImplementsSerializer
<1>1. Inv /\ [Next]_vars
        => [Authority!Commit]_<<IF holder = None THEN graph ELSE rollback, live, log>>
  BY AuthorityNext
<1>. QED
  BY <1>1, AuthorityInit, CoordinatorInvariant, PTL DEF Spec, ImplementsSerializer, Authority!Spec
=============================================================================
