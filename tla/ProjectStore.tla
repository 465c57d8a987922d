---------------------------- MODULE ProjectStore ----------------------------
(* ail-cli: the .ail/ directory of a project, and the commands that read and *)
(* write it.  Every command is a process of its own and the directory has no *)
(* lock: commands interleave between the files they write, and one may die   *)
(* between two of them.  Replacing or removing one file is a step            *)
(* (AtomicWrite looks into the first).  What a command reads before its      *)
(* first write is one step, but for `ail apply`, whose reads are steps too.  *)
(* Objects are named by the hash of their bytes: here an object is its own   *)
(* name.  A graph is the set of its nodes.                                   *)
EXTENDS Integers, Sequences, FiniteSets

CONSTANTS
    Procs,          \* processes running an `ail` command
    Branches, main, \* branch names, and the one `ail init` was given
    Names,          \* node names
    Changes,        \* [base : Nat, adds : SUBSET Names]: canonical ChangeSets
    Profiles,       \* verification profiles; "prod" needs --yes
    Rejected,       \* graphs whose verification report is Failed or Unsafe
    Fallback,       \* the built-in graph of current_graph_for_cli
    Commands,       \* the commands that are run
    None,
    MaxCommands, MaxCrashes \* bounds

ASSUME BranchAssumption == main \in Branches
ASSUME ChangeAssumption == Changes \subseteq [base : Nat, adds : SUBSET Names]
ASSUME GraphAssumption  == Rejected \subseteq SUBSET Names /\ Fallback \subseteq Names
ASSUME BoundAssumption  == MaxCommands \in Nat /\ MaxCrashes \in Nat

VARIABLES
    envelopes,  \* store/objects: SnapshotEnvelopes
    found,      \* of these, the one of each id that a scan of the directory meets first
    graphs,     \* store/objects: graphs
    drafts,     \* store/objects: ChangeSet payloads
    reports,    \* store/objects: VerificationReports
    HEAD,       \* HEAD: the current branch
    refs,       \* refs/branches/<b>: a snapshot id, or None
    index,      \* index/snapshots.cbor: [id, created], sorted by created
    sidecar,    \* reports/<change-id>: a report and its profile, or None
    job,        \* per process: the command it runs and its locals, or None
    now,        \* unix_ms_now
    started, crashes

objects == <<envelopes, found, graphs, drafts, reports>>
files   == <<HEAD, refs, index, sidecar>>
vars    == <<objects, files, job, now, started, crashes>>

SnapshotEnvelope(id, graph, parent, change, report, created) ==
    [id |-> id, graph |-> graph, parent |-> parent,
     change |-> change, report |-> report, created |-> created]

Genesis == SnapshotEnvelope(<<"genesis">>, {}, None, None, None, 0)

(* After `ail init`.                                                         *)
Init ==
    /\ envelopes = {Genesis} /\ found = {Genesis}
    /\ graphs = {{}} /\ drafts = {} /\ reports = {}
    /\ HEAD = main
    /\ refs = [b \in Branches |-> IF b = main THEN Genesis.id ELSE None]
    /\ index = <<[id |-> Genesis.id, created |-> 0]>>
    /\ sidecar = [c \in Changes |-> None]
    /\ job = [p \in Procs |-> None]
    /\ now = 0 /\ started = 0 /\ crashes = 0

-----------------------------------------------------------------------------
(* Reading the store.                                                        *)

Ids(S) == {e.id : e \in S}

(* find_snapshot scans the objects in directory order and takes the first    *)
(* envelope with the id it looks for.  A view holds the one found for each   *)
(* id: there is a choice only where two envelopes share an id.               *)
Views ==
    {S \in SUBSET envelopes :
        Ids(S) = Ids(envelopes) /\ \A d, e \in S : d.id = e.id => d = e}

(* The order is stable: a new envelope may come before the one that was      *)
(* found, an old one does only when that is gone.                            *)
Rescan ==
    found' \in {S \in Views' :
                   \A e \in S \ found :
                       e \in envelopes => ~\E d \in found \cap envelopes' : d.id = e.id}

Find(S, id) == CHOOSE e \in S : e.id = id

(* list_snapshots_from_index fails if an indexed snapshot has no envelope.   *)
CanList == \A i \in DOMAIN index : index[i].id \in Ids(envelopes)

list_snapshots(S) == [i \in DOMAIN index |-> Find(S, index[i].id)]

(* max_by_key: the last of the newest.                                       *)
latest_snapshot(L) ==
    IF L = <<>> THEN None
    ELSE L[CHOOSE i \in DOMAIN L :
               \A j \in DOMAIN L :
                   L[j].created <= L[i].created /\ (L[j].created = L[i].created => j <= i)]

branch_head(S, b) == IF refs[b] \in Ids(S) THEN Find(S, refs[b]) ELSE None

Current(S) ==
    IF branch_head(S, HEAD) # None THEN branch_head(S, HEAD)
                                   ELSE latest_snapshot(list_snapshots(S))

IdOf(e) == IF e = None THEN None ELSE e.id

(* Mutant: the graph is left empty, as `ail change --apply` leaves it.       *)
LoadNothing(e) == {}

load_current_graph(e) ==
    IF e = None THEN {} ELSE IF e.graph \in graphs THEN e.graph ELSE Fallback

(* The ids met on the way from a snapshot to the root, itself included.      *)
Walk(S, id) ==
    LET w[n \in 0..Cardinality(S)] ==
            IF n = 0 THEN id
            ELSE IF w[n - 1] \in Ids(S) THEN Find(S, w[n - 1]).parent ELSE None
    IN  w

Ancestry(S, id) == {Walk(S, id)[n] : n \in 0..Cardinality(S)} \ {None}

(* snapshot_id_from_parent_chain: the walk from a snapshot's parent must end *)
(* (no cycle, no missing parent); its length is the snapshot id that         *)
(* ChangeSets are based on.                                                  *)
ChainEnds(S, e) ==
    e = None \/ /\ Ancestry(S, e.parent) \subseteq Ids(S) \ {e.id}
                /\ Walk(S, e.parent)[Cardinality(S)] = None

Depth(S, e) == IF e = None THEN 0 ELSE Cardinality(Ancestry(S, e.parent))

CanLoad(S) == CanList /\ ChainEnds(S, Current(S))

(* Mutant: the snapshot guard is dropped.                                    *)
ApplyUnguarded(c, g, depth) ==
    IF c.adds \cap g # {} THEN [outcome |-> "Failed", graph |-> {}]
                          ELSE [outcome |-> "Applied", graph |-> g \cup c.adds]

(* ail_change::apply on a working copy: the snapshot guard, then the         *)
(* operations, here the creation of nodes.                                   *)
apply(c, g, depth) ==
    CASE c.base # depth        -> [outcome |-> "RebaseRequired", graph |-> {}]
      [] c.base = depth /\ c.adds \cap g # {} -> [outcome |-> "Failed", graph |-> {}]
      [] OTHER                 -> [outcome |-> "Applied", graph |-> g \cup c.adds]

-----------------------------------------------------------------------------
(* Commands.  A command that fails before it has written anything is not a   *)
(* step.                                                                     *)
Start(p, cmd) ==
    /\ cmd \in Commands
    /\ job[p] = None /\ started < MaxCommands
    /\ started' = started + 1

At(p, step) == job[p] # None /\ job[p].step = step

Goto(p, j) == job' = [job EXCEPT ![p] = j]

(* A process that stops with an error where it is.                           *)
Fail(p) == Goto(p, None) /\ UNCHANGED <<objects, files, now, started, crashes>>

(* What save_graph and save_snapshot will be given; fresh: the graph itself  *)
(* has to be stored first; branch: None stands for the one HEAD names.       *)
Saving(cmd, env, fresh, branch) ==
    [step |-> "graph", cmd |-> cmd, env |-> env, fresh |-> fresh, branch |-> branch]

After(c, graph, parent, report) ==
    SnapshotEnvelope(<<"snapshot-after", c>>, graph, parent, c, report, 0)

Plain(id, graph, parent) == SnapshotEnvelope(id, graph, parent, None, None, 0)

(* ail init --branch b, in a project that exists: moves HEAD only.           *)
cmd_init(p, b) ==
    /\ Start(p, "init")
    /\ HEAD' = b
    /\ UNCHANGED <<objects, refs, index, sidecar, job, now, crashes>>

(* ail change: stores the payload; the log of ChangeSets that it also        *)
(* appends to is read by none of these commands.  With --apply it goes on to *)
(* apply the ChangeSet to an empty graph, at whatever base it names.         *)
cmd_change(p, c) ==
    /\ Start(p, "change")
    /\ drafts' = drafts \cup {c}
    /\ UNCHANGED <<envelopes, found, graphs, reports, files, job, now, crashes>>

cmd_change_apply(p, c, b) ==
    /\ Start(p, "change_apply")
    /\ drafts' = drafts \cup {c}
    /\ Goto(p, [step |-> "list", cmd |-> "change_apply", c |-> c, branch |-> b])
    /\ UNCHANGED <<envelopes, found, graphs, reports, files, now, crashes>>

ChangeApplyList(p) ==
    /\ At(p, "list")
    /\ IF ~CanList THEN Fail(p)
       ELSE /\ LET c == job[p].c
                   parent == IdOf(latest_snapshot(list_snapshots(found)))
               IN  Goto(p, Saving("change_apply", After(c, apply(c, {}, c.base).graph, parent, None),
                                  TRUE, job[p].branch))
            /\ UNCHANGED <<objects, files, now, started, crashes>>

(* ail verify: verifies the graph the ChangeSet leads to, or the empty graph *)
(* when the payload is missing or cannot be applied, and keeps the report.   *)
Verified(S, c) ==
    IF c \in drafts THEN apply(c, load_current_graph(Current(S)), Depth(S, Current(S))).graph
                    ELSE {}

cmd_verify(p, c, profile) ==
    /\ Start(p, "verify")
    /\ c \in drafts => CanLoad(found)
    /\ Goto(p, [step |-> "report", cmd |-> "verify",
                report |-> [change |-> c, profile |-> profile, graph |-> Verified(found, c),
                            ok |-> Verified(found, c) \notin Rejected]])
    /\ UNCHANGED <<objects, files, now, crashes>>

SaveReport(p) ==
    /\ At(p, "report")
    /\ reports' = reports \cup {job[p].report}
    /\ Goto(p, [step |-> "sidecar", cmd |-> "verify", report |-> job[p].report])
    /\ UNCHANGED <<envelopes, found, graphs, drafts, files, now, started, crashes>>

WriteSidecar(p) ==
    /\ At(p, "sidecar")
    /\ sidecar' = [sidecar EXCEPT ![job[p].report.change] = job[p].report]
    /\ Goto(p, None)
    /\ UNCHANGED <<objects, HEAD, refs, index, now, started, crashes>>

(* Mutant: the head is not looked up, only the index is.                     *)
ApplyOnLatest(p, c, profile, yes) ==
    /\ Start(p, "apply") /\ CanList
    /\ profile = "prod" => yes
    /\ Goto(p, [step |-> "gate", cmd |-> "apply", c |-> c, profile |-> profile,
                parent |-> IdOf(latest_snapshot(list_snapshots(found)))])
    /\ UNCHANGED <<objects, files, now, crashes>>

(* ail apply: the parent is read first; then comes the verification gate;    *)
(* then the graph and its snapshot id are read, the ChangeSet applied.       *)
cmd_apply(p, c, profile, yes) ==
    /\ Start(p, "apply") /\ CanList
    /\ profile = "prod" => yes
    /\ Goto(p, [step |-> "gate", cmd |-> "apply", c |-> c, profile |-> profile,
                parent |-> IdOf(Current(found))])
    /\ UNCHANGED <<objects, files, now, crashes>>

(* Mutant: a report that exists is good enough.                              *)
GateIgnoresSummary(c, profile) ==
    /\ sidecar[c] # None /\ sidecar[c] \in reports
    /\ sidecar[c].profile = profile

GatePasses(c, profile) ==
    /\ sidecar[c] # None /\ sidecar[c] \in reports
    /\ sidecar[c].profile = profile
    /\ sidecar[c].ok

Gate(p) ==
    /\ At(p, "gate")
    /\ IF GatePasses(job[p].c, job[p].profile)
         THEN /\ Goto(p, [step |-> "load", cmd |-> "apply", c |-> job[p].c,
                          parent |-> job[p].parent, report |-> sidecar[job[p].c]])
              /\ UNCHANGED <<objects, files, now, started, crashes>>
         ELSE Fail(p)

LoadHead(p) ==
    /\ At(p, "load")
    /\ IF ~CanList THEN Fail(p)
       ELSE /\ Goto(p, [step |-> "base", cmd |-> "apply", c |-> job[p].c, parent |-> job[p].parent,
                        report |-> job[p].report, head |-> Current(found)])
            /\ UNCHANGED <<objects, files, now, started, crashes>>

LoadGraph(p) ==
    /\ At(p, "base")
    /\ Goto(p, [step |-> "chain", cmd |-> "apply", c |-> job[p].c, parent |-> job[p].parent,
                report |-> job[p].report, head |-> job[p].head,
                graph |-> load_current_graph(job[p].head)])
    /\ UNCHANGED <<objects, files, now, started, crashes>>

(* The parent chain and the payload are read, and the ChangeSet is applied.  *)
ApplyChange(p) ==
    /\ At(p, "chain")
    /\ LET c      == job[p].c
           result == apply(c, job[p].graph, Depth(found, job[p].head))
       IN  IF ChainEnds(found, job[p].head) /\ c \in drafts /\ result.outcome = "Applied"
             THEN /\ Goto(p, Saving("apply", After(c, result.graph, job[p].parent, job[p].report),
                                     TRUE, None))
                  /\ UNCHANGED <<objects, files, now, started, crashes>>
             ELSE Fail(p)

(* ail rollback: the new snapshot's parent is the last one of the index, on  *)
(* whatever branch.  An unknown target stands for the empty graph.           *)
LastListed(S) == IF index = <<>> THEN None ELSE list_snapshots(S)[Len(index)].id

cmd_rollback_to(p, id) ==
    /\ Start(p, "rollback_to") /\ CanList
    /\ LET known == id \in Ids(found)
           graph == IF known THEN Find(found, id).graph ELSE {}
       IN  Goto(p, Saving("rollback", Plain(<<"rollback-to", id>>, graph, LastListed(found)),
                          ~known, None))
    /\ UNCHANGED <<objects, files, now, crashes>>

(* The newest listed snapshot that some other change produced, or the first. *)
BeforeChange(L, c) ==
    LET others == {i \in DOMAIN L : L[i].change # c}
    IN  IF others = {} THEN L[1] ELSE L[CHOOSE i \in others : \A j \in others : j <= i]

cmd_rollback_change(p, c) ==
    /\ Start(p, "rollback") /\ CanList /\ index # <<>>
    /\ LET graph == BeforeChange(list_snapshots(found), c).graph
       IN  Goto(p, Saving("rollback", Plain(<<"rollback-change", c>>, graph, LastListed(found)),
                          FALSE, None))
    /\ UNCHANGED <<objects, files, now, crashes>>

(* merge_graphs_additive: nodes only the source has are added.  Conflicting  *)
(* nodes are reported and the target's are kept.                             *)
merge_graphs_additive(target, source) == target \cup source

load_graph(e) == IF e.graph \in graphs THEN e.graph ELSE {}

(* ail merge b --into t: the result is saved on the current branch.          *)
cmd_merge(p, b, t) ==
    /\ Start(p, "merge")
    /\ LET source == branch_head(found, b)
           target == IF branch_head(found, t) # None THEN branch_head(found, t)
                                                     ELSE branch_head(found, HEAD)
           merged == merge_graphs_additive(load_graph(target),
                         load_graph(IF source = None THEN target ELSE source))
       IN  /\ target # None
           /\ Goto(p, Saving("merge", Plain(<<"merge", b, t>>, merged, target.id), TRUE, None))
    /\ UNCHANGED <<objects, files, now, crashes>>

(* ail rebase b: the parent is the head found after the graph was stored.    *)
cmd_rebase(p, b) ==
    /\ Start(p, "rebase") /\ CanList
    /\ branch_head(found, b) # None
    /\ LET rebased == merge_graphs_additive(load_graph(branch_head(found, b)),
                                            load_current_graph(Current(found)))
       IN  Goto(p, Saving("rebase", Plain(<<"rebase-onto", b, rebased>>, rebased, None), TRUE, None))
    /\ UNCHANGED <<objects, files, now, crashes>>

-----------------------------------------------------------------------------
(* save_graph and save_snapshot: store the graph, stamp and store the        *)
(* envelope, move the branch, then read, update and write the index.         *)

Stamp(e, parent, time) ==
    SnapshotEnvelope(e.id, e.graph, parent, e.change, e.report, time)

(* Mutants: the graph is not stored; the stamp is in another unit.           *)
SaveNoGraph(p) ==
    /\ At(p, "graph")
    /\ now' \in {now, now + 1}
    /\ Goto(p, [step |-> "put", cmd |-> job[p].cmd, branch |-> job[p].branch,
                env |-> Stamp(job[p].env, job[p].env.parent, now')])
    /\ UNCHANGED <<objects, files, started, crashes>>

SaveGraphStampedAhead(p) ==
    /\ At(p, "graph")
    /\ graphs' = IF job[p].fresh THEN graphs \cup {job[p].env.graph} ELSE graphs
    /\ now' \in {now, now + 1}
    /\ Goto(p, [step |-> "put", cmd |-> job[p].cmd, branch |-> job[p].branch,
                env |-> Stamp(job[p].env, job[p].env.parent, now' * 1000)])
    /\ UNCHANGED <<envelopes, found, drafts, reports, files, started, crashes>>

SaveGraph(p) ==
    /\ At(p, "graph")
    /\ graphs' = IF job[p].fresh THEN graphs \cup {job[p].env.graph} ELSE graphs
    /\ now' \in {now, now + 1}
    /\ LET parent == IF job[p].cmd = "rebase" THEN IdOf(branch_head(found, HEAD))
                                              ELSE job[p].env.parent
       IN  Goto(p, [step |-> "put", cmd |-> job[p].cmd, branch |-> job[p].branch,
                    env |-> Stamp(job[p].env, parent, now')])
    /\ UNCHANGED <<envelopes, found, drafts, reports, files, started, crashes>>

PutEnvelope(p) ==
    /\ At(p, "put")
    /\ envelopes' = envelopes \cup {job[p].env}
    /\ Rescan
    /\ Goto(p, [step |-> IF job[p].branch = None THEN "head" ELSE "ref", cmd |-> job[p].cmd,
                env |-> job[p].env, branch |-> job[p].branch])
    /\ UNCHANGED <<graphs, drafts, reports, files, now, started, crashes>>

(* current_branch, unless the branch was given.                              *)
ReadHead(p) ==
    /\ At(p, "head")
    /\ Goto(p, [step |-> "ref", cmd |-> job[p].cmd, env |-> job[p].env, branch |-> HEAD])
    /\ UNCHANGED <<objects, files, now, started, crashes>>

WriteRef(p) ==
    /\ At(p, "ref")
    /\ refs' = [refs EXCEPT ![job[p].branch] = job[p].env.id]
    /\ Goto(p, [step |-> "read_index", cmd |-> job[p].cmd, env |-> job[p].env])
    /\ UNCHANGED <<objects, HEAD, index, sidecar, now, started, crashes>>

ReadIndex(p) ==
    /\ At(p, "read_index")
    /\ Goto(p, [step |-> "index", cmd |-> job[p].cmd, env |-> job[p].env, index |-> index])
    /\ UNCHANGED <<objects, files, now, started, crashes>>

(* Mutant: the index is appended to.                                         *)
AppendToIndex(entries, e) == Append(entries, [id |-> e.id, created |-> e.created])

(* The entry with the envelope's id, or a new last one, takes its creation   *)
(* time; the others are in order, so the stable sort only moves that one.    *)
update_snapshot_index(entries, e) ==
    LET same == {i \in DOMAIN entries : entries[i].id = e.id}
        pos  == IF same = {} THEN Len(entries) + 1 ELSE CHOOSE i \in same : TRUE
        rest == SubSeq(entries, 1, pos - 1) \o SubSeq(entries, pos + 1, Len(entries))
        k    == Cardinality({i \in DOMAIN entries \ {pos} :
                               \/ entries[i].created < e.created
                               \/ entries[i].created = e.created /\ i < pos})
    IN  SubSeq(rest, 1, k) \o <<[id |-> e.id, created |-> e.created]>>
                           \o SubSeq(rest, k + 1, Len(rest))

WriteIndex(p) ==
    /\ At(p, "index")
    /\ index' = update_snapshot_index(job[p].index, job[p].env)
    /\ Goto(p, None)
    /\ UNCHANGED <<objects, HEAD, refs, sidecar, now, started, crashes>>

-----------------------------------------------------------------------------
(* Mutant: the parents of a head are not followed.                           *)
ReachableHeads(S) == {Find(S, id) : id \in {refs[b] : b \in Branches} \cap Ids(S)}

(* ail gc: reachable_objects, then the removal of every other object.        *)
Reachable(S) ==
    {Find(S, id) : id \in (UNION {Ancestry(S, refs[b]) : b \in Branches}) \cap Ids(S)}

cmd_gc(p) ==
    /\ Start(p, "gc")
    /\ Goto(p, [step |-> "sweep", cmd |-> "gc", keep |-> Reachable(found)])
    /\ UNCHANGED <<objects, files, now, crashes>>

(* Mutant: the report that an envelope names is not followed.                *)
ReportsForgotten(keep) == {}

ReportsOf(keep) == {e.report : e \in keep}

(* One object that is not reachable is removed; read_dir may or may not show *)
(* those that were put since it was called.                                  *)
Sweep(p) ==
    /\ At(p, "sweep")
    /\ LET keep == job[p].keep
       IN  \/ /\ \E e \in envelopes \ keep : envelopes' = envelopes \ {e}
              /\ Rescan
              /\ UNCHANGED <<graphs, drafts, reports>>
           \/ /\ \E g \in graphs \ {e.graph : e \in keep} : graphs' = graphs \ {g}
              /\ UNCHANGED <<envelopes, found, drafts, reports>>
           \/ /\ \E c \in drafts \ {e.change : e \in keep} : drafts' = drafts \ {c}
              /\ UNCHANGED <<envelopes, found, graphs, reports>>
           \/ /\ \E r \in reports \ ReportsOf(keep) : reports' = reports \ {r}
              /\ UNCHANGED <<envelopes, found, graphs, drafts>>
    /\ UNCHANGED <<files, job, now, started, crashes>>

(* The directory is at its end, or a removal fails and gc stops where it is. *)
SweepEnds(p) == At(p, "sweep") /\ Fail(p)

(* The process is killed, or the machine stops.                              *)
Crash(p) ==
    /\ job[p] # None /\ crashes < MaxCrashes
    /\ crashes' = crashes + 1
    /\ Goto(p, None)
    /\ UNCHANGED <<objects, files, now, started>>

-----------------------------------------------------------------------------
Command(p) ==
    \/ \E b \in Branches : cmd_init(p, b) \/ cmd_rebase(p, b)
    \/ \E b, t \in Branches : cmd_merge(p, b, t)
    \/ \E c \in Changes :
          \/ cmd_change(p, c) \/ cmd_rollback_change(p, c)
          \/ \E b \in Branches \cup {None} : cmd_change_apply(p, c, b)
          \/ \E profile \in Profiles :
                cmd_verify(p, c, profile) \/ \E yes \in BOOLEAN : cmd_apply(p, c, profile, yes)
    \/ \E id \in Ids(envelopes) \cup {<<"unknown">>} : cmd_rollback_to(p, id)
    \/ cmd_gc(p)

Step(p) ==
    \/ ChangeApplyList(p)
    \/ SaveReport(p) \/ WriteSidecar(p)
    \/ Gate(p) \/ LoadHead(p) \/ LoadGraph(p) \/ ApplyChange(p)
    \/ SaveGraph(p) \/ PutEnvelope(p) \/ ReadHead(p) \/ WriteRef(p)
    \/ ReadIndex(p) \/ WriteIndex(p)
    \/ Sweep(p) \/ SweepEnds(p)

Next == \E p \in Procs : Command(p) \/ Step(p) \/ Crash(p)

(* A process that runs goes on running.                                      *)
Spec == Init /\ [][Next]_vars /\ \A p \in Procs : WF_vars(Step(p))

-----------------------------------------------------------------------------
(* Types; and no snapshot is stamped later than the clock.                   *)
TypeOK ==
    /\ graphs \subseteq SUBSET Names /\ drafts \subseteq Changes
    /\ reports \subseteq [change : Changes, profile : Profiles, graph : SUBSET Names, ok : BOOLEAN]
    /\ \A e \in envelopes : /\ e.graph \subseteq Names
                            /\ e.change \in Changes \cup {None}
                            /\ e.created \in 0..now
    /\ HEAD \in Branches /\ DOMAIN refs = Branches /\ DOMAIN sidecar = Changes
    /\ \A i \in 1..Len(index) : index[i].created \in 0..now
    /\ DOMAIN job = Procs
    /\ now \in Nat /\ started \in 0..MaxCommands /\ crashes \in 0..MaxCrashes

(* The index lists a snapshot once, oldest first (rollback and               *)
(* latest_snapshot rely on the order).                                       *)
IndexIsOrdered ==
    \A i, j \in DOMAIN index : i < j =>
        index[i].id # index[j].id /\ index[i].created <= index[j].created

(* The graph, the parent, the ChangeSet and the report that an envelope      *)
(* names are stored.                                                         *)
Closed(e) ==
    /\ e.graph \in graphs
    /\ e.parent \in Ids(envelopes) \cup {None}
    /\ e.change \in drafts \cup {None}
    /\ e.report \in reports \cup {None}

(* Without `ail gc`, whatever order commands run, interleave and die in, the *)
(* store is closed: refs, index and sidecars lead to stored objects, and     *)
(* these to others (save_snapshot writes an object before what names it).    *)
NothingDangles ==
    /\ \A b \in Branches : refs[b] \in Ids(envelopes) \cup {None}
    /\ CanList
    /\ \A e \in envelopes : Closed(e)
    /\ \A c \in Changes : sidecar[c] \in reports \cup {None}

(* Why: what a running command is about to write is stored, or is written    *)
(* first.  A command keeps ids, reports and index entries that it has read,  *)
(* and without `ail gc` they do not go away.                                 *)
Known == Ids(envelopes) \cup {None}

Entry == [id : Ids(envelopes), created : Nat]

JobIsBacked(j) ==
    CASE j.step = "list"       -> j.c \in drafts
      [] j.step = "report"     -> TRUE
      [] j.step = "sidecar"    -> j.report \in reports
      [] j.step = "gate"       -> j.parent \in Known
      [] j.step \in {"load", "base", "chain"} -> j.parent \in Known /\ j.report \in reports
      [] j.step = "graph"      -> /\ j.fresh \/ j.env.graph \in graphs
                                  /\ j.env.parent \in Known
                                  /\ j.env.change \in drafts \cup {None}
                                  /\ j.env.report \in reports \cup {None}
      [] j.step = "put"        -> Closed(j.env) /\ j.env.created \in 0..now
      [] j.step \in {"head", "ref", "read_index"} -> j.env \in envelopes
      [] j.step = "index"      -> j.env \in envelopes /\ j.index \in Seq(Entry)
      [] OTHER                 -> FALSE

Backed ==
    /\ found \in Views
    /\ now \in Nat /\ \A e \in envelopes : e.created \in 0..now
    /\ index \in Seq(Entry)
    /\ refs = [b \in Branches |-> refs[b]]
    /\ sidecar = [c \in Changes |-> sidecar[c]]
    /\ job = [p \in Procs |-> job[p]]
    /\ \A p \in Procs : job[p] # None => JobIsBacked(job[p])

StoreInv == NothingDangles /\ Backed

(* All that branch b descends from is stored.                                *)
Whole(b) ==
    /\ Ancestry(found, refs[b]) \subseteq Ids(found)
    /\ \A id \in Ancestry(found, refs[b]) : Closed(Find(found, id))

(* "gc only removes objects unreachable from branch tips": a branch that is  *)
(* whole stays whole until it is moved, also when gc is stopped half way.    *)
BranchesStayWhole == [][\A b \in Branches : Whole(b) /\ refs'[b] = refs[b] => Whole(b)']_vars

(* "apply requires accepted verification report": the snapshot of an applied *)
(* ChangeSet names a report on that ChangeSet, neither Failed nor Unsafe.    *)
AppliedWasAccepted ==
    \A e \in envelopes : e.change # None =>
        e.report # None /\ e.report.change = e.change /\ e.report.ok

(* apply "needs an accepted verification report", which "protects the        *)
(* Semantic Graph from stale or unverified AI-authored changes": the graph   *)
(* that was verified is the graph that is saved.                             *)
AppliedWasVerified ==
    \A e \in envelopes : e.change # None /\ e.report # None => e.report.graph = e.graph

(* An applied ChangeSet adds its nodes to its parent's graph, and nothing    *)
(* else, and is based on its parent.                                         *)
AppliedBuildsOnParent ==
    \A e \in envelopes : e.change # None /\ e.parent \in Ids(found) =>
        LET parent == Find(found, e.parent)
        IN  e.graph = parent.graph \cup e.change.adds /\ e.change.base = Depth(found, parent)

(* "history is not deleted": what a branch descended from it descends from.  *)
BranchKeepsHistory ==
    \A b \in Branches : Ancestry(found, refs[b]) \subseteq Ancestry(found', refs'[b])

HistoryIsAppendOnly == [][BranchKeepsHistory]_vars

(* Process p has just moved a branch to the snapshot it made.                *)
MovesBranch(p) ==
    /\ At(p, "ref") /\ job'[p] # None /\ job'[p].step = "read_index"

(* "apply refuses stale base": the head that `ail apply` replaces is at the  *)
(* snapshot id that the ChangeSet is based on.                               *)
ReplacesItsBase ==
    \A p \in Procs : MovesBranch(p) /\ job[p].cmd = "apply" =>
        job[p].env.change.base = Depth(found, branch_head(found, job[p].branch))

ApplyRefusesStaleBase == [][ReplacesItsBase]_vars
=============================================================================
