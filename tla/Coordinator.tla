---------------------------- MODULE Coordinator ----------------------------
(* ail-coordinator/src/coordinator.rs: the authority that serialises the     *)
(* ChangeSets of concurrent agents.  A request is checked before the lock    *)
(* (signature and signer policy, or bundle integrity), waits its turn on the *)
(* tokio mutex, and is served while the mutex is held.  apply() edits the    *)
(* live graph in place, one operation per step, and restores the copy it     *)
(* took when an operation leaves the graph invalid.                          *)
EXTENDS Rebase

CONSTANTS
    Agents,         \* tasks that share the Coordinator
    ChangeSets,     \* [pre, ops]: what an agent may submit
    Bases,          \* base snapshot ids an agent may submit against
    Signers,        \* public keys
    AllowedSigners, \* the keys of the RemoteSignerPolicy
    Bundles,        \* object bundles an agent may push
    Roots,          \* object ids of bundle roots
    InitialGraph, InitialId,
    MaxRequests     \* bound: requests issued in a behaviour

ASSUME IdsAssumption == InitialId \in Nat /\ Bases \subseteq Nat
ASSUME BoundAssumption == MaxRequests \in Nat
\* Coordinator::new takes any graph: it is for its caller to give a valid one.
ASSUME GraphAssumption == InitialGraph \in Graph /\ validate(InitialGraph)
ASSUME ChangeSetAssumption ==
    ChangeSets \subseteq [pre : Seq(Precondition), ops : Seq(Payload)]
ASSUME BundleAssumption ==
    Bundles \subseteq [root : Roots, keys : SUBSET Roots,
                       corrupt : SUBSET Roots, deps : SUBSET Roots]

Requests ==
    [kind : {"submit"}, cs : ChangeSets, base : Bases]
    \cup [kind : {"remote"}, cs : ChangeSets, base : Bases,
          signer : Signers, authentic : BOOLEAN]
    \cup [kind : {"push"}, bundle : Bundles]
    \cup [kind : {"pull"}, root : Roots]

ASSUME NoneAssumption == None \notin Agents /\ None \notin Requests

IsSubmission(r) == r.kind \in {"submit", "remote"}

VARIABLES
    graph, live,                          \* CoordinatorState: graph, bridge
    committed_diff, committed_removes,    \* ... of the last committed ChangeSet
    bundle_store,                         \* ... root -> bundle
    waiters, holder,                      \* the tokio mutex: FIFO queue, owner
    request, reply,                       \* per agent: what it asked, what it was told
    rollback, next_op,                    \* locals of apply(): the clone, the loop index
    ticket, issued,                       \* ghost: number of an agent's latest request
    log, path                             \* ghost: commits; graphs of the running apply()

mutex    == <<waiters, holder>>
live_ids == <<live, committed_diff, committed_removes>>
locals   == <<rollback, next_op, path>>
vars     == <<graph, live_ids, bundle_store, mutex, request, reply, locals,
              ticket, issued, log>>

Plain == {"StaleBase", "Failed", "BundleAccepted", "BundleMissing",
          "E_SIGNATURE_INVALID", "E_SIGNER_NOT_ALLOWED", "E_BUNDLE_INVALID",
          "E_COORDINATOR_FAILED"}

Replies ==
    [kind : {"Applied", "RebaseApplied"}, id : Nat]
    \cup [kind : {"ConflictIrresolvable"},
          reason : {"NodeDeletedWhileModified", "SameNodeModifiedIncompatibly"}]
    \cup [kind : Plain]
    \cup [kind : {"Bundle"}, bundle : Bundles]

(* The serving agent holds the mutex and its request and locals stay put     *)
(* until it answers.                                                         *)
Waiting(a) == request[a] # None /\ reply[a] = None

Init ==
    /\ graph = InitialGraph /\ live = InitialId
    /\ committed_diff = {} /\ committed_removes = {}
    /\ bundle_store = [r \in Roots |-> None]
    /\ waiters = <<>> /\ holder = None
    /\ request = [a \in Agents |-> None] /\ reply = [a \in Agents |-> None]
    /\ rollback = None /\ next_op = 1 /\ path = <<>>
    /\ ticket = [a \in Agents |-> 0] /\ issued = 0 /\ log = <<>>

-----------------------------------------------------------------------------
(* Checks made before the lock.                                              *)

(* ObjectBundle::verify_integrity: the root is present, every key is the     *)
(* hash of its bytes, and so are the dependencies a snapshot root declares.  *)
verify_integrity(b) ==
    /\ b.root \in b.keys
    /\ b.corrupt \cap b.keys = {}
    /\ b.deps \ {b.root} \subseteq b.keys

check_identity(signer) == signer \in AllowedSigners

(* A handler that stores bundles without checking them.                      *)
RejectionNoIntegrity(r) ==
    CASE r.kind = "remote" /\ ~r.authentic -> "E_SIGNATURE_INVALID"
      [] r.kind = "remote" /\ r.authentic /\ ~check_identity(r.signer) -> "E_SIGNER_NOT_ALLOWED"
      [] OTHER -> None

(* A handler that checks signatures and not signers.                         *)
RejectionNoPolicy(r) ==
    CASE r.kind = "remote" /\ ~r.authentic -> "E_SIGNATURE_INVALID"
      [] r.kind = "push" /\ ~verify_integrity(r.bundle) -> "E_BUNDLE_INVALID"
      [] OTHER -> None

(* verify_remote_submission and handle_remote_exchange up to the lock: the   *)
(* code of the error reply, or None.                                         *)
Rejection(r) ==
    CASE r.kind = "remote" /\ ~r.authentic -> "E_SIGNATURE_INVALID"
      [] r.kind = "remote" /\ r.authentic /\ ~check_identity(r.signer) -> "E_SIGNER_NOT_ALLOWED"
      [] r.kind = "push" /\ ~verify_integrity(r.bundle) -> "E_BUNDLE_INVALID"
      [] OTHER -> None

(* tokio::sync::Mutex::lock joins a fair queue.  Two that are not: the last  *)
(* to come is the first served; a waiter that finds the mutex held is lost.  *)
EnqueueFirst(a) == waiters' = <<a>> \o waiters

EnqueueLossy(a) == waiters' = IF holder = None THEN Append(waiters, a) ELSE waiters

Enqueue(a) == waiters' = Append(waiters, a)

(* An agent calls submit or handle_remote_exchange.                          *)
Receive(a, r) ==
    /\ ~Waiting(a) /\ issued < MaxRequests
    /\ issued' = issued + 1
    /\ ticket' = [ticket EXCEPT ![a] = issued']
    /\ request' = [request EXCEPT ![a] = r]
    /\ IF Rejection(r) = None
         THEN /\ Enqueue(a)
              /\ reply' = [reply EXCEPT ![a] = None]
         ELSE /\ reply' = [reply EXCEPT ![a] = [kind |-> Rejection(r)]]
              /\ UNCHANGED waiters
    /\ UNCHANGED <<graph, live_ids, bundle_store, holder, locals, log>>

-----------------------------------------------------------------------------
(* The mutex wakes its waiters in order.                                     *)
CanLock(a) == holder = None /\ waiters # <<>> /\ Head(waiters) = a

Answer(a, answer) == reply' = [reply EXCEPT ![a] = answer]

(* submit answers Failed; verify_remote_submission makes an error of it.     *)
FailedAnswer(r) == [kind |-> IF r.kind = "remote" THEN "E_COORDINATOR_FAILED" ELSE "Failed"]

(* PushBundle and PullBundle: lock, one access to the store, unlock.         *)
put_bundle(a) ==
    /\ CanLock(a) /\ request[a].kind = "push"
    /\ waiters' = Tail(waiters)
    /\ bundle_store' = [bundle_store EXCEPT ![request[a].bundle.root] = request[a].bundle]
    /\ Answer(a, [kind |-> "BundleAccepted"])
    /\ UNCHANGED <<graph, live_ids, holder, request, locals, ticket, issued, log>>

get_bundle(a) ==
    /\ CanLock(a) /\ request[a].kind = "pull"
    /\ waiters' = Tail(waiters)
    /\ LET found == bundle_store[request[a].root]
       IN  Answer(a, IF found = None THEN [kind |-> "BundleMissing"]
                                     ELSE [kind |-> "Bundle", bundle |-> found])
    /\ UNCHANGED <<graph, live_ids, bundle_store, holder, request, locals, ticket, issued, log>>

(* submit with the lock held: whether the base is the live snapshot or the   *)
(* ChangeSet can be rebased, and so what apply() is given as its base.       *)
CanRebase(a) == rebase_succeeds(request[a].cs.ops, committed_diff)

EffectiveBase(a) ==
    IF request[a].base # live /\ CanRebase(a) THEN live ELSE request[a].base

(* rebase returned Conflict: refuse without touching the graph.              *)
Conflict(a) ==
    /\ CanLock(a) /\ IsSubmission(request[a])
    /\ request[a].base # live /\ ~CanRebase(a)
    /\ waiters' = Tail(waiters)
    /\ Answer(a, [kind |-> "ConflictIrresolvable",
                  reason |-> classify_conflict(
                      touched_nodes(request[a].cs.ops) \cap committed_diff, committed_removes)])
    /\ UNCHANGED <<graph, live_ids, bundle_store, holder, request, locals, ticket, issued, log>>

(* Preconditions that are parsed and never evaluated.                        *)
PreconditionsIgnored(cs, g) == TRUE

PreconditionsHold(cs, g) == \A i \in DOMAIN cs.pre : evaluate_precondition(cs.pre[i], g)

(* An apply() that keeps no copy to restore.                                 *)
StartLoopNoClone(a) ==
    holder' = a /\ rollback' = None /\ next_op' = 1 /\ path' = <<graph>>

StartLoop(a) ==
    holder' = a /\ rollback' = graph /\ next_op' = 1 /\ path' = <<graph>>

(* apply() up to its loop: the snapshot guard, the clone, the preconditions. *)
EnterApply(a) ==
    /\ CanLock(a) /\ IsSubmission(request[a])
    /\ request[a].base = live \/ CanRebase(a)
    /\ waiters' = Tail(waiters)
    /\ CASE EffectiveBase(a) # live ->
              /\ Answer(a, [kind |-> "StaleBase"])
              /\ UNCHANGED <<holder, locals>>
         [] EffectiveBase(a) = live /\ ~PreconditionsHold(request[a].cs, graph) ->
              /\ Answer(a, FailedAnswer(request[a]))
              /\ UNCHANGED <<holder, locals>>
         [] OTHER ->
              /\ StartLoop(a)
              /\ UNCHANGED reply
    /\ UNCHANGED <<graph, live_ids, bundle_store, request, ticket, issued, log>>

Release ==
    holder' = None /\ rollback' = None /\ next_op' = 1 /\ path' = <<>>

(* A failure that leaves the operations done so far in the graph.            *)
RestoreNothing == UNCHANGED graph

Restore == graph' = rollback

(* One turn of the loop: the operation, the validation, the roll back.       *)
ApplyOp(a) ==
    /\ holder = a /\ next_op <= Len(request[a].cs.ops)
    /\ LET edited == apply_payload(request[a].cs.ops[next_op], graph)
       IN  IF validate(edited)
             THEN /\ graph' = edited
                  /\ next_op' = next_op + 1 /\ path' = Append(path, edited)
                  /\ UNCHANGED <<holder, rollback, reply>>
             ELSE /\ Restore
                  /\ Release
                  /\ Answer(a, FailedAnswer(request[a]))
    /\ UNCHANGED <<live_ids, bundle_store, waiters, request, ticket, issued, log>>

(* Removals that pile up over commits instead of being replaced.             *)
RememberAllRemoves(ops) ==
    /\ committed_diff' = touched_nodes(ops)
    /\ committed_removes' = committed_removes \cup extract_removed_nodes(ops)

Remember(ops) ==
    /\ committed_diff' = touched_nodes(ops)
    /\ committed_removes' = extract_removed_nodes(ops)

(* An answer with the id the ChangeSet was applied to, not the new one.      *)
CommitAnswerOld(a) ==
    [kind |-> IF request[a].base = live THEN "Applied" ELSE "RebaseApplied", id |-> live]

CommitAnswer(a) ==
    [kind |-> IF request[a].base = live THEN "Applied" ELSE "RebaseApplied", id |-> live + 1]

(* apply() returned Applied: advance the snapshot id and remember what the   *)
(* ChangeSet touched.                                                        *)
Commit(a) ==
    /\ holder = a /\ next_op > Len(request[a].cs.ops)
    /\ live' = live + 1
    /\ Remember(request[a].cs.ops)
    /\ log' = Append(log, [ticket |-> ticket[a], base |-> request[a].base,
                           cs |-> request[a].cs, path |-> path])
    /\ Answer(a, CommitAnswer(a))
    /\ Release
    /\ UNCHANGED <<graph, bundle_store, waiters, request, ticket, issued>>

Serve(a) ==
    put_bundle(a) \/ get_bundle(a) \/ Conflict(a) \/ EnterApply(a) \/ ApplyOp(a) \/ Commit(a)

Next == \E a \in Agents : Serve(a) \/ \E r \in Requests : Receive(a, r)

(* A task that owns the lock, or is next to own it, is polled until it is    *)
(* done; nothing obliges an agent to make a request.                         *)
Fairness == \A a \in Agents : WF_vars(Serve(a))

Spec == Init /\ [][Next]_vars /\ Fairness

-----------------------------------------------------------------------------
(* The fields have the types of CoordinatorState, of the mutex and of the    *)
(* locals of apply().                                                        *)
Entries == [ticket : Nat, base : Nat, cs : ChangeSets, path : Seq(Graph)]

TypeOK ==
    /\ graph \in Graph /\ live \in Nat
    /\ committed_diff \subseteq NodeRef /\ committed_removes \subseteq NodeRef
    /\ bundle_store \in [Roots -> Bundles \cup {None}]
    /\ waiters \in Seq(Agents) /\ holder \in Agents \cup {None}
    /\ request \in [Agents -> Requests \cup {None}]
    /\ reply \in [Agents -> Replies \cup {None}]
    /\ rollback \in Graph \cup {None} /\ next_op \in Nat \ {0} /\ path \in Seq(Graph)
    /\ ticket \in [Agents -> Nat] /\ issued \in Nat /\ log \in Seq(Entries)

(* The Coordinator implements the Serializer: while apply() is editing the   *)
(* graph in place, the authoritative graph is the copy it would restore.     *)
Authority == INSTANCE Serializer WITH
    Apply <- apply_payload, Valid <- validate,
    Holds <- evaluate_precondition, Touches <- touched_nodes,
    accepted <- IF holder = None THEN graph ELSE rollback,
    snapshot <- live,
    history  <- log

(* Every failed, refused or unfinished apply() is invisible, every commit is *)
(* one whole ChangeSet from a valid graph to a valid graph.                  *)
ImplementsSerializer == Authority!Spec

(* The conflict window is the last commit: committed_diff and                *)
(* committed_removes always come from the same, latest, commit, however many *)
(* submissions failed or were refused in between.                            *)
WindowIsLastCommit ==
    LET ops == IF log = <<>> THEN <<>> ELSE log[Len(log)].cs.ops
    IN  /\ committed_diff = touched_nodes(ops)
        /\ committed_removes = extract_removed_nodes(ops)

(* Why the roll back and the commit are right: the agents queued on the      *)
(* mutex are distinct and unanswered; the graph is valid whenever the mutex  *)
(* is free; and while apply() runs, its clone is the valid graph it started  *)
(* from, the preconditions hold of it, and the graph is the result of the    *)
(* operations done so far.                                                   *)
QueueOK ==
    /\ \A i \in DOMAIN waiters : Waiting(waiters[i]) /\ waiters[i] # holder
    /\ \A i, j \in DOMAIN waiters : waiters[i] = waiters[j] => i = j

Running(r) ==
    /\ IsSubmission(r)
    /\ r.base = live \/ rebase_succeeds(r.cs.ops, committed_diff)
    /\ rollback \in Graph /\ validate(rollback) /\ PreconditionsHold(r.cs, rollback)
    /\ next_op <= Len(r.cs.ops) + 1
    /\ Len(path) = next_op /\ path[1] = rollback /\ path[next_op] = graph
    /\ \A i \in 1..(next_op - 1) :
          path[i + 1] = apply_payload(r.cs.ops[i], path[i]) /\ validate(path[i + 1])

ApplyOK ==
    IF holder = None THEN validate(graph)
                     ELSE Waiting(holder) /\ Running(request[holder])

Inv == TypeOK /\ QueueOK /\ WindowIsLastCommit /\ ApplyOK

(* What an agent is told is what happened to that request: Applied{id} or    *)
(* RebaseApplied{id} names the commit its ChangeSet became, and any other    *)
(* answer means that it became none (Coordinator::submit never answers       *)
(* StaleBase: "should not happen under mutex").                              *)
AnswerIsTrue(a) ==
    LET mine == {i \in DOMAIN log : log[i].ticket = ticket[a]}
    IN  IF reply[a].kind \in {"Applied", "RebaseApplied"}
          THEN /\ mine = {reply[a].id - InitialId}
               /\ log[reply[a].id - InitialId].cs = request[a].cs
               /\ reply[a].kind = "Applied" <=> request[a].base = reply[a].id - 1
          ELSE mine = {} /\ reply[a].kind # "StaleBase"

AnswersAreTrue == \A a \in Agents : reply[a] # None => AnswerIsTrue(a)

(* PushBundle and PullBundle are linearised by the mutex in the order of     *)
(* their arrival: a pull yields an intact bundle with the root it asked for, *)
(* and misses it only if every accepted push of that root came after it.     *)
PullsSeeEarlierPushes ==
    \A a \in Agents : reply[a] # None =>
        /\ reply[a].kind = "Bundle" =>
              verify_integrity(reply[a].bundle) /\ reply[a].bundle.root = request[a].root
        /\ reply[a].kind = "BundleMissing" =>
              \A b \in Agents :
                  /\ reply[b] # None /\ reply[b].kind = "BundleAccepted"
                  /\ request[b].bundle.root = request[a].root
                  => ticket[a] < ticket[b]

(* A remote ChangeSet is committed only when its signature is valid and its  *)
(* signer is on the allowlist (verify_remote_submission).                    *)
RemoteCommitsAreAuthorised ==
    \A a \in Agents :
        /\ reply[a] # None /\ reply[a].kind \in {"Applied", "RebaseApplied"}
        /\ request[a].kind = "remote"
        => request[a].authentic /\ request[a].signer \in AllowedSigners

(* ChangeSets become commits in the order in which they reached the mutex.   *)
CommitsInArrivalOrder ==
    \A i, j \in DOMAIN log : i < j => log[i].ticket < log[j].ticket

(* submit and handle_remote_exchange always answer: nothing that fails while *)
(* the mutex is held keeps it, and no waiter is overtaken for ever.          *)
EveryRequestIsAnswered == \A a \in Agents : Waiting(a) ~> ~Waiting(a)
=============================================================================
