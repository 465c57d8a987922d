# A TLA+ model of the AIL toolchain

AIL keeps a program as a *semantic graph* that is changed by *ChangeSets*. This directory holds
TLA+ modules for the parts of the toolchain where state changes under concurrency, crashes and
limits, the TLC configurations that check them on small instances, and TLAPS proofs of the
invariants that matter most. `PROJECT.json` lists for every definition the source lines it stands
for. Paths below are relative to `src/crates/`.

    tlc -workers 4 -config MCCoordinator.cfg MCCoordinator     # a run
    tlapm CoordinatorProofs.tla                                # a proof

## 1. The system and its parts

| part | state | operations | how it meets the others | what is hard |
|---|---|---|---|---|
| Semantic graph, ChangeSet application (`ail-core`, `ail-change`) | nodes, edges | some twenty payloads, preconditions, `validate`, `apply` with roll back | called by the Coordinator and by the commands | an operation in the middle fails after others have edited the graph in place |
| Coordinator, remote collaboration (`ail-coordinator`, `ail-remote`) | live graph and snapshot id, last diff, bundle store, mutex | `submit`, `handle_remote_exchange` (submit, push, pull) | agents share one Coordinator | stale bases, rebase, order of answers, checks made before the lock |
| Project store, change workflow (`ail-cli`) | `.ail/`: objects, `HEAD`, branches, snapshot index, report sidecars | init, change, verify, apply, rollback, merge, rebase, gc, remote pull, package | one process per command, no lock | interleaved commands, crashes between two files, stale reports, gc |
| Runtime host (`ail-runtime`) | profiles, counters, rate windows, revocations, audit log, transaction groups | instantiate, invoke, three call paths, revoke, `execute_with_rollback` | instances share registry, clock and log with the host | many early exits, limits at their edges, revocation between calls |
| Storage library (`ail-storage`) | snapshots, holds, tags, tombstones, objects | retention, `run_gc`, `gc_unreferenced`, `compact_snapshots`, migrations | traits over memory, files and Postgres | collection beside writers, an abort midway |
| Artifact store (`ail-cli`) | artifact files and two indexes | save, load, list | beside the project store | several files, one index, no lock |
| Packages (`ail-package`, `ail-cli`) | registry, lockfile, yanks, advisories | publish, yank, resolve, install | HTTP and file registries | republished versions, files written in place |
| Context server (`ail-context`) | snapshot, audit log | query, serve | reads the project's snapshots | answers that are stale when sent, slow peers |
| Verification (`ail-verify`) | none; a report | a fixed sequence of stages, policy | its verdict gates verify and apply | how results, waivers and policy combine |
| Compiler (`ail-compiler`) | artifact cache, node hashes | lower, optimise, emit, `compile_incremental` | after verification | a clean node that depends on a changed one |
| Standard library, language front end, language server, other commands, test kit | none that is shared | pure functions, readers | | |

`PROJECT.json` ("components") lists them with their status, and ("hazards") what can go wrong, at
its line, with the properties that would catch it.

## 2. Modules

    SemanticGraph --- Rebase --- Coordinator ---(refines)--- Serializer
                                     |-- MCCoordinator
                     GraphTheorems --+-- CoordinatorProofs
    ProjectStore -- MCProjectStore, StoreProofs, GateProofs      AtomicWrite
    RuntimeHost  -- MCRuntimeHost, RuntimeProofs, RateProofs, GroupProofs

**SemanticGraph** has the graph, `validate` and `apply_payload` with all payloads by id and by name
and the preconditions (`ail-change/src/apply.rs`). An edit returns the new graph; what `validate`
refuses is the caller's affair, as in the code. **Rebase** has the conflict rules of `rebase.rs`.

**Coordinator** is `coordinator.rs`. `Receive` is a call up to the lock: signature, signer and
bundle integrity are checked there. `CanLock` is tokio's fair mutex. `Conflict`, `EnterApply`,
`ApplyOp` and `Commit` are `submit` with the lock held, one ChangeSet operation per step on the live
graph; `put_bundle` and `get_bundle` are the bundle exchange. A signature is authentic or not; a
bundle is its root, its keys, the corrupt ones and the declared dependencies. A submission that
fails is answered `Failed` when it was local and `E_COORDINATOR_FAILED` when it was remote.
**Serializer** is what the Coordinator promises: valid graphs, one whole ChangeSet per step. The
refinement mapping takes the live graph when the mutex is free and the copy kept for the roll back
while `apply` is editing.

**ProjectStore** is the `.ail` directory and the commands init, change, verify, apply, rollback,
merge, rebase and gc; `ail remote pull` and `ail package` also put objects there and are left out,
and so is the log of ChangeSets, which none of these commands reads. A command is a job with a
program counter. Each file that it replaces or removes is a step (gc removes one object per step and
may stop after any), and a process may die between any two. What a command reads before its first
write is one step, except for apply: its parent, the gate, the head, the graph and the parent chain
are read in steps of their own. Objects are named by the hash of their bytes, so an object stands
for its own name. Envelopes are found by scanning the directory for an id, and two may share one:
`found` holds the one that is met first, and keeps it until a new one comes before it or it is
removed, since the order of a directory does not change by itself. A graph is the set of its node
names; the verification pipeline is the constant `Rejected`, the graphs with a Failed or Unsafe
report. **AtomicWrite** looks into the one step in which ProjectStore replaces a file: temporary
file, write, rename, with inodes; either call may fail, and the writer may die.

**RuntimeHost** has the host and its instances as *callers*, each with its own counters and rate
windows, and the revocation registry, clock and audit log that they share. A call is checked in one
step (`Refuse`, `RefuseCharged`, `Bounce`, `RunHandler`: before the rate limits are charged, after,
before the handler, in flight) and ends in another, while other callers go on. The three paths
(`call_capability`, `dispatch_host_call`, `dispatch_host_call_write`) differ in what they check and
in the order in which they look the handler up and count the call, and the model keeps that. `Exits`
are the places where a call leaves after its handler: one on two of the paths, six in
`dispatch_host_call_write`, each with its own decrement of the counters (`AtExit`). The denials
before the handler are one action per stage, whatever their reason. A transaction group is settled
when the closure of `execute_with_rollback` ends, groups nest, and its owner may call `commit` or
`rollback` on it directly. Of the checks only the registry is shared, so making them one step loses
no interleaving. A call that cannot be read from the module's memory leaves a diagnostic and no
event in the code, and is no call in the model.

Operators whose comment starts "Mutant:" or describes a fault, and which no action uses, are
faulty variants of the definition they precede. Each property has one that violates it.

## 3. Runs

| run | instance | what it shows |
|---|---|---|
| `coordinator_by_id` | 2 agents, 3 requests, id-based ChangeSets, bases 0-2 | inductive invariant, true answers, arrival order, a rebased ChangeSet commutes with the commit it is moved over, refinement of Serializer, every request is answered |
| `coordinator_remote` | 2 agents, 3 requests, by-name ChangeSets with preconditions, 2 signers, bundles | the same refinement and liveness for operations the conflict rule cannot see; only authorised remote commits; pulls see earlier pushes, intact |
| `rebase_over_two_commits` (violation) | single operations | only the last commit is in the conflict window |
| `store_file_replaced` | 1 writer, 4 writes, crashes and errors anywhere | readers see whole writes; after Ok the file is the new one, after an error the old one |
| `store_concurrent` | 2 processes, 6 commands of change, verify, apply, 1 crash | nothing dangles; an applied ChangeSet has an accepted report |
| `store_sequential` | 1 process, 7 commands of change, verify, apply, gc, 1 crash | apply builds on its parent and refuses a stale base; applies only add to history; gc leaves what the branch leads to, reports included |
| `store_commands` | all modelled commands, 2 branches, 1 ChangeSet, 3 commands, 1 crash | types; the index is ordered; branches stay whole under gc |
| `store_lost_update` (violation) | 2 processes, rival ChangeSets | both applies pass the guard, one is lost |
| `store_rollback_twice` (violation) | 2 rollbacks | the second is its own parent |
| `store_gc_races_apply` (violation) | 2 processes | gc removes objects of a snapshot the branch was moved to after the collection |
| `store_stale_report` (violation) | 1 process, 6 commands | a report made while the ChangeSet was missing passes the gate |
| `runtime_host` | host (1 call) and 1 instance (5 calls), 3 capabilities, 3 profiles, window of 2 ticks, clock to 2, 2 groups used 3 times | slots come back on every exit, one event per call, budgets, rates, revocation, transaction groups |

A violation run states what a doc or a comment says and finds it false of the code; `findings` quotes
the line.

**Bounds.** Three requests are the fewest in which a submission meets a commit that came after a
commit; two agents are the fewest that race. Six commands in two processes let each change, verify
and apply; seven in one let a chain of two snapshots form and a rival come late, or gc run after an
apply. Three commands of all kinds pair every command with every other that can run so early, and
reach gc after a crash; an apply needs a change and a verify before it, so gc after an apply is left
to the sequential run. With a limit of two, a window of 2 ticks and a clock that reaches 2, four
calls are the fewest that straddle two windows and reach the bound of three in one window's length,
and the fifth is refused. Groups are used only beside calls within `MaxMixed` (one of the host, none
of the instance): a group shares no state with a call, and only the host's calls bear on when a
closure may end. Three uses of two groups nest one in the other and use one again. Processes are
interchangeable in `store_concurrent`, which checks invariants only, and its two processes are a
symmetry set; the other runs use none. Deadlock is not checked because the bounds on requests,
commands and calls end every behaviour.

**Fairness.** `Coordinator` assumes weak fairness of `Serve(a)`: the task that owns the mutex or is
first in its queue is polled until it is done, which is tokio's promise for a fair queue; no agent is
obliged to ask. `ProjectStore` has weak fairness of the steps of a running command, because the
operating system runs its process; no property of the runs depends on it, and a crash ends the
obligation. AtomicWrite and RuntimeHost have none.

## 4. Proofs

For every value of the constants that satisfies the named assumptions (the types of the constants,
`None` different from what it is an alternative to, a valid initial graph, which `Coordinator::new`
does not check and leaves to its caller):

- **`CoordinatorInvariant`** (`Spec => []Inv`). `Inv` is inductive as it stands: types; waiters are
  distinct and unanswered; the conflict window is the last commit; and `ApplyOK`, which says while
  `apply` runs that its copy is valid, that the preconditions hold of it, and that the graph is reached
  from it by the operations done so far. Without the last part a commit could not be shown to be a
  whole ChangeSet. `GraphTheorems` proves that every payload maps graphs to graphs.
- **`CoordinatorImplementsSerializer`**. From `Inv`: `Commit` is a Serializer step and all else a
  stutter; `Restore` is one because the mapping showed the copy all along.
- **`StoreInvariant`** (no `ail gc`). `NothingDangles` is not inductive: a job carries ids, reports and
  index entries that it has yet to write. `StoreInv` adds `Backed`: what a job will write is stored, or
  is written first. It covers every interleaving and crash of the other modelled
  commands.
- **`AppliedSnapshotsWereAccepted`** (no `ail change --apply`, gc allowed). `AcceptedInv` carries
  the acceptance from the gate through the job to the envelope.
- **`RuntimeInvariant`**. `RuntimeInv` is not inductive: `preflight` gives an instance new counters.
  `HostInv` adds types and that an idle instance has no call in flight.
- **`RevokedCallsAreRefused`**. An action property: `RunHandler` is the only way into flight, and
  it reads the registry.
- **`RatesStayBounded`** (`RateProofs`). `RateIsFair` keeps for each caller and limit: the calls
  since the current window opened are no more than it counted, nor than max; those after its first
  tick are one fewer; and what passed in the ticks before it, within a window's length, is short of
  max by the call that opened the window before. A stretch as long as a window then meets at most two
  windows, and not both in full.
- **`FirstOutcomeStands`** (`GroupProofs`). `GroupInv` adds types of the history and of the stack of
  open groups; a settlement is either the first of its group or meets a status that is not pending.

Model-checked only: liveness (`EveryRequestIsAnswered`), `AnswersAreTrue`, `CommitsInArrivalOrder`,
`RebaseCommutesWithLastCommit`, the bundle and signer properties, `IndexIsOrdered`, the properties of
the store that walk parent chains (`BranchesStayWhole`, `HistoryIsAppendOnly`,
`AppliedBuildsOnParent`, `ApplyRefusesStaleBase`: induction over data), and AtomicWrite.

## 5. Where the code and what is said of it differ

Kept as runs: the five violations of section 3. Met on the way and not kept as runs:

- A crash between the branch and the index leaves a head that is not listed ("apply is atomic",
  `docs/tooling.md:247`). `store_sequential` has the step and shows that an apply after it keeps the
  history, since it asks the branch first; rollback and `change --apply` take their parent from the
  index and are not in that run.
- `ail gc` after repeated rollbacks removes envelopes that the index lists, and pending drafts.
- `ail merge --into` moves the current branch (`ail-cli/src/branch_commands.rs:763`).
- `ail change --apply` builds on an empty graph and passes no gate (`project_commands.rs:104`),
  though a comment calls it equivalent to change and apply (`project_commands.rs:46`); the properties
  of applied ChangeSets are checked without it.
- With two processes `AppliedBuildsOnParent` is false: the branch may move between the read of the
  parent and that of the graph (`workflow_commands/apply.rs:33` and `:157`).
- Two writers of one file share the temporary name (`store_file.rs:182`): with two writers AtomicWrite
  violates `ReadersSeeWholeWrites`.
- The policy for calls in flight at a revocation is stored and not enforced, as `docs/runtime.md`
  says itself.

## 6. What is not modelled, and the plan

Out of reach: cryptography, CBOR and hash functions (ideal), the type, effect and contract checkers,
SMT solving, lowering and code generation (semantics of languages), fuel and memory (Wasmtime's),
handlers that panic, ids and counters at 2^64, a system clock that goes back.

Next, in this order:

1. **Retention** (`ail-storage`): snapshots, index, holds, tags and objects; `save_snapshot` in two
   steps beside `run_gc`, `gc_unreferenced` with an error midway, `compact_snapshots`. Abstract
   specification: a set of snapshots of which the held ones never go. To prove: held snapshots stay.
2. **Incremental compilation**: dirty set and cache over a sequence of edits, refining a full
   compilation.
3. **Packages**: resolution as a function against a reference definition on small registries;
   publish, yank, install, lock as a protocol. To prove: a lockfile that validates names what was
   resolved.
4. **Verification and policy**: how stages, waivers and policies make a verdict, and approvals;
   composed with ProjectStore in place of `Rejected`.
5. **Artifact store**, as further steps of ProjectStore; **Context server and transport**: threads,
   freshness, audit sequence, time-outs.
6. **Replay and secrets**: a handler of RuntimeHost that answers from a recording.
7. **Merge over node ids** (`merge_graphs_additive`, saturating numbers) and **canonicalisation of
   ChangeSets** as pure functions.
8. Proofs of `AnswersAreTrue`, `CommitsInArrivalOrder` and `IndexIsOrdered`.
