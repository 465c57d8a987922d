------------------------------ MODULE GateProofs ------------------------------
(* Only the verification gate lets a ChangeSet be saved: a sidecar holds a   *)
(* report on its own ChangeSet, and what the gate let through is carried to  *)
(* the envelope.                                                             *)
EXTENDS ProjectStore, TLAPS

Accepted(c, r) == c # None => r # None /\ r.change = c /\ r.ok

JobIsAccepted(j) ==
    /\ j.step # "list"
    /\ j.step \in {"load", "base", "chain"} => Accepted(j.c, j.report)
    /\ j.step \in {"graph", "put"} => Accepted(j.env.change, j.env.report)

AcceptedInv ==
    /\ \A e \in envelopes : Accepted(e.change, e.report)
    /\ sidecar = [c \in Changes |-> sidecar[c]]
    /\ \A c \in Changes : sidecar[c] # None => sidecar[c].change = c
    /\ job = [p \in Procs |-> job[p]]
    /\ \A p \in Procs : job[p] # None =>
          JobIsAccepted(job[p]) /\ (job[p].step = "gate" => job[p].c \in Changes)

(* A step that leaves the sidecars alone and stores no envelope but p's.     *)
LEMMA AcceptedStays ==
  ASSUME AcceptedInv, NEW p \in Procs, sidecar' = sidecar,
         \A e \in envelopes' \ envelopes : Accepted(e.change, e.report),
         job' = [job EXCEPT ![p] = job'[p]],
         job'[p] # None =>
            JobIsAccepted(job'[p]) /\ (job'[p].step = "gate" => job'[p].c \in Changes)
  PROVE  AcceptedInv'
<1>1. job = [q \in Procs |-> job[q]] /\ sidecar = [c \in Changes |-> sidecar[c]]
  BY DEF AcceptedInv
<1>2. job' = [q \in Procs |-> job'[q]] /\ \A q \in Procs : q # p => job'[q] = job[q]
  BY SMTT(40), <1>1
<1>3. \A e \in envelopes' : Accepted(e.change, e.report)
  BY SMTT(40) DEF AcceptedInv
<1>4. \A q \in Procs : job'[q] # None =>
          JobIsAccepted(job'[q]) /\ (job'[q].step = "gate" => job'[q].c \in Changes)
  BY <1>2 DEF AcceptedInv
<1>5. \A c \in Changes : sidecar'[c] # None => sidecar'[c].change = c
  BY DEF AcceptedInv
<1>6. sidecar' = [c \in Changes |-> sidecar'[c]]
  BY <1>1
<1>. QED
  BY ZenonT(40), <1>2, <1>3, <1>4, <1>5, <1>6 DEF AcceptedInv

LEMMA AcceptedGoes ==
  ASSUME AcceptedInv, NEW p \in Procs, NEW j, Goto(p, j)
  PROVE  job'[p] = j /\ job' = [job EXCEPT ![p] = job'[p]]
<1>1. job = [q \in Procs |-> job[q]]
  BY DEF AcceptedInv
<1>. QED
  BY <1>1 DEF Goto

LEMMA NextStepIsAccepted ==
  ASSUME AcceptedInv, NEW p \in Procs, sidecar' = sidecar, envelopes' \subseteq envelopes,
         NEW j, Goto(p, j),
         j # None => JobIsAccepted(j) /\ (j.step = "gate" => j.c \in Changes)
  PROVE  AcceptedInv'
<1>1. job'[p] = j /\ job' = [job EXCEPT ![p] = job'[p]]
  BY AcceptedGoes
<1>. QED
  BY ZenonT(40), <1>1, AcceptedStays

LEMMA SavingIsAccepted ==
  ASSUME AcceptedInv, NEW p \in Procs, sidecar' = sidecar, envelopes' \subseteq envelopes,
         NEW cmd, NEW e, NEW fresh, NEW branch,
         Goto(p, Saving(cmd, e, fresh, branch)), Accepted(e.change, e.report)
  PROVE  AcceptedInv'
<1> DEFINE j == Saving(cmd, e, fresh, branch)
<1>1. j.step = "graph" /\ j.env = e
  BY ZenonT(40) DEF Saving
<1>2. JobIsAccepted(j) /\ j.step # "gate"
  BY <1>1 DEF JobIsAccepted
<1> HIDE DEF j
<1>. QED
  BY SMTT(40), <1>2, NextStepIsAccepted DEF j

LEMMA PlainIsAccepted ==
  ASSUME NEW id, NEW g, NEW parent
  PROVE  Accepted(Plain(id, g, parent).change, Plain(id, g, parent).report)
BY SMTT(40) DEF Accepted, Plain, SnapshotEnvelope

LEMMA CommandIsAccepted ==
  ASSUME AcceptedInv, "change_apply" \notin Commands, NEW p \in Procs, Command(p)
  PROVE  AcceptedInv'
<1>1. ASSUME NEW b \in Branches, cmd_init(p, b) PROVE AcceptedInv'
  BY <1>1 DEF cmd_init, objects, AcceptedInv
<1>2. ASSUME NEW b \in Branches, cmd_rebase(p, b) PROVE AcceptedInv'
  <2>1. PICK g : Goto(p, Saving("rebase", Plain(<<"rebase-onto", b, g>>, g, None), TRUE, None))
    BY Zenon, <1>2 DEF cmd_rebase
  <2>2. sidecar' = sidecar /\ envelopes' \subseteq envelopes
    BY <1>2 DEF cmd_rebase, objects, files
  <2>. QED BY Zenon, <2>1, <2>2, PlainIsAccepted, SavingIsAccepted
<1>3. ASSUME NEW b \in Branches, NEW t \in Branches, cmd_merge(p, b, t) PROVE AcceptedInv'
  <2>1. PICK g, parent : Goto(p, Saving("merge", Plain(<<"merge", b, t>>, g, parent), TRUE, None))
    BY Zenon, <1>3 DEF cmd_merge
  <2>2. sidecar' = sidecar /\ envelopes' \subseteq envelopes
    BY Zenon, <1>3 DEF cmd_merge, objects, files
  <2>. QED BY ZenonT(40), <2>1, <2>2, PlainIsAccepted, SavingIsAccepted
<1>4. ASSUME NEW c \in Changes, cmd_change(p, c) PROVE AcceptedInv'
  BY SMTT(40), <1>4 DEF cmd_change, files, AcceptedInv
<1>5. ASSUME NEW c \in Changes, cmd_rollback_change(p, c) PROVE AcceptedInv'
  <2>1. PICK g, parent : Goto(p, Saving("rollback", Plain(<<"rollback-change", c>>, g, parent),
                                        FALSE, None))
    BY Zenon, <1>5 DEF cmd_rollback_change
  <2>2. sidecar' = sidecar /\ envelopes' \subseteq envelopes
    BY <1>5 DEF cmd_rollback_change, objects, files
  <2>. QED BY Zenon, <2>1, <2>2, PlainIsAccepted, SavingIsAccepted
<1>6. \A c, b : ~cmd_change_apply(p, c, b)
  BY DEF cmd_change_apply, Start
<1>7. ASSUME NEW c \in Changes, NEW profile \in Profiles, cmd_verify(p, c, profile)
      PROVE  AcceptedInv'
  <2>1. PICK r : Goto(p, [step |-> "report", cmd |-> "verify", report |-> r])
    BY ZenonT(40), <1>7 DEF cmd_verify
  <2>2. sidecar' = sidecar /\ envelopes' \subseteq envelopes
    BY <1>7 DEF cmd_verify, objects, files
  <2>3. JobIsAccepted([step |-> "report", cmd |-> "verify", report |-> r])
    BY DEF JobIsAccepted
  <2>. QED BY SMTT(40), <2>1, <2>2, <2>3, NextStepIsAccepted
<1>8. ASSUME NEW c \in Changes, NEW profile \in Profiles, NEW yes \in BOOLEAN,
             cmd_apply(p, c, profile, yes)
      PROVE  AcceptedInv'
  <2>1. PICK parent : Goto(p, [step |-> "gate", cmd |-> "apply", c |-> c, profile |-> profile,
                               parent |-> parent])
    BY ZenonT(40), <1>8 DEF cmd_apply
  <2>2. sidecar' = sidecar /\ envelopes' \subseteq envelopes
    BY ZenonT(40), <1>8 DEF cmd_apply, objects, files
  <2>3. JobIsAccepted([step |-> "gate", cmd |-> "apply", c |-> c, profile |-> profile,
                       parent |-> parent])
    BY DEF JobIsAccepted
  <2>. QED BY ZenonT(40), <2>1, <2>2, <2>3, NextStepIsAccepted
<1>9. ASSUME NEW id, cmd_rollback_to(p, id) PROVE AcceptedInv'
  <2>1. PICK g, parent, fresh :
          Goto(p, Saving("rollback", Plain(<<"rollback-to", id>>, g, parent), fresh, None))
    BY ZenonT(40), <1>9 DEF cmd_rollback_to
  <2>2. sidecar' = sidecar /\ envelopes' \subseteq envelopes
    BY Zenon, <1>9 DEF cmd_rollback_to, objects, files
  <2>. QED BY SMTT(40), <2>1, <2>2, PlainIsAccepted, SavingIsAccepted
<1>10. ASSUME cmd_gc(p) PROVE AcceptedInv'
  <2>1. PICK keep : Goto(p, [step |-> "sweep", cmd |-> "gc", keep |-> keep])
    BY ZenonT(40), <1>10 DEF cmd_gc
  <2>2. sidecar' = sidecar /\ envelopes' \subseteq envelopes
    BY ZenonT(40), <1>10 DEF cmd_gc, objects, files
  <2>3. JobIsAccepted([step |-> "sweep", cmd |-> "gc", keep |-> keep])
    BY DEF JobIsAccepted
  <2>. QED BY SMTT(40), <2>1, <2>2, <2>3, NextStepIsAccepted
<1>. QED
  BY ZenonT(40), <1>1, <1>2, <1>3, <1>4, <1>5, <1>6, <1>7, <1>8, <1>9, <1>10 DEF Command

LEMMA StampKeepsOrigin ==
  ASSUME NEW e, NEW parent, NEW time
  PROVE  Stamp(e, parent, time).change = e.change /\ Stamp(e, parent, time).report = e.report
BY DEF Stamp, SnapshotEnvelope

LEMMA StepIsAccepted ==
  ASSUME AcceptedInv, NEW p \in Procs, Step(p)
  PROVE  AcceptedInv'
<1> DEFINE j == job[p]
<1>1. ASSUME NEW step, At(p, step)
      PROVE  j.step = step /\ JobIsAccepted(j) /\ (step = "gate" => j.c \in Changes)
  BY <1>1 DEF AcceptedInv, At
<1>2. ASSUME Fail(p) PROVE AcceptedInv'
  BY SMTT(40), <1>2, NextStepIsAccepted DEF Fail, objects, files
<1>3. ~ChangeApplyList(p)
  BY ZenonT(40), <1>1 DEF ChangeApplyList, JobIsAccepted
<1>4. CASE SaveReport(p)
  <2>1. PICK r : Goto(p, [step |-> "sidecar", cmd |-> "verify", report |-> r])
    BY ZenonT(40), <1>4 DEF SaveReport
  <2>2. sidecar' = sidecar /\ envelopes' \subseteq envelopes
    BY ZenonT(40), <1>4 DEF SaveReport, files
  <2>3. JobIsAccepted([step |-> "sidecar", cmd |-> "verify", report |-> r])
    BY ZenonT(40) DEF JobIsAccepted
  <2>. QED BY ZenonT(40), <2>1, <2>2, <2>3, NextStepIsAccepted
<1>5. CASE WriteSidecar(p)
  <2>1. /\ envelopes' = envelopes /\ Goto(p, None)
        /\ sidecar' = [sidecar EXCEPT ![j.report.change] = j.report]
    BY SMTT(40), <1>5 DEF WriteSidecar, objects
  <2>2. sidecar = [c \in Changes |-> sidecar[c]] /\ job = [q \in Procs |-> job[q]]
    BY SMTT(40) DEF AcceptedInv
  <2>3. sidecar' = [c \in Changes |-> sidecar'[c]]
    BY ZenonT(40), <2>1, <2>2
  <2>4. \A c \in Changes : sidecar'[c] # None => sidecar'[c].change = c
    BY ZenonT(40), <2>1, <2>2 DEF AcceptedInv
  <2>5. job' = [q \in Procs |-> job'[q]]
        /\ \A q \in Procs : job'[q] = None \/ job'[q] = job[q]
    BY ZenonT(40), <2>1, <2>2 DEF Goto
  <2>6. \A q \in Procs : job'[q] # None =>
          JobIsAccepted(job'[q]) /\ (job'[q].step = "gate" => job'[q].c \in Changes)
    BY ZenonT(40), <2>5 DEF AcceptedInv
  <2>7. \A e \in envelopes' : Accepted(e.change, e.report)
    BY <2>1 DEF AcceptedInv
  <2>. QED BY ZenonT(40), <2>3, <2>4, <2>5, <2>6, <2>7 DEF AcceptedInv
<1>6. CASE Gate(p)
  <2>1. CASE Fail(p)
    BY ZenonT(40), <1>2, <2>1
  <2>2. CASE ~Fail(p)
    <3> DEFINE n == [step |-> "load", cmd |-> "apply", c |-> j.c,
                     parent |-> j.parent, report |-> sidecar[j.c]]
    <3>1. Goto(p, n) /\ sidecar' = sidecar /\ envelopes' \subseteq envelopes
      BY SMTT(40), <1>6, <2>2 DEF Gate, objects, files
    <3>2. sidecar[j.c] # None /\ sidecar[j.c].ok
      BY ZenonT(40), <1>6, <2>2 DEF Gate, GatePasses
    <3>3. j.c \in Changes
      <4>1. At(p, "gate")
        BY Zenon, <1>6 DEF Gate
      <4>. QED BY Zenon, <1>1, <4>1
    <3>4. Accepted(j.c, sidecar[j.c])
      BY ZenonT(40), <3>2, <3>3 DEF AcceptedInv, Accepted
    <3>5. n.step = "load" /\ n.c = j.c /\ n.report = sidecar[j.c]
      BY SMTT(40)
    <3> HIDE DEF n
    <3>6. JobIsAccepted(n)
      BY <3>4, <3>5 DEF JobIsAccepted
    <3>. QED BY ZenonT(40), <3>1, <3>5, <3>6, NextStepIsAccepted
  <2>. QED BY SMTT(40), <2>1, <2>2
<1>7. ASSUME At(p, "load") \/ At(p, "base") \/ At(p, "chain")
      PROVE  Accepted(j.c, j.report)
  <2>1. j.step \in {"load", "base", "chain"} /\ JobIsAccepted(j)
    BY Zenon, <1>1, <1>7
  <2>. QED BY <2>1 DEF JobIsAccepted
<1>8. CASE LoadHead(p)
  <2>1. CASE Fail(p)
    BY SMTT(40), <1>2, <2>1
  <2>2. CASE ~Fail(p)
    <3> DEFINE n == [step |-> "base", cmd |-> "apply", c |-> j.c, parent |-> j.parent,
                     report |-> j.report, head |-> Current(found)]
    <3>1. Goto(p, n) /\ At(p, "load")
      BY Zenon, <1>8, <2>2 DEF LoadHead
    <3>2. sidecar' = sidecar /\ envelopes' \subseteq envelopes
      BY ZenonT(40), <1>8, <2>2 DEF LoadHead, objects, files
    <3>3. n.step = "base" /\ n.c = j.c /\ n.report = j.report
      OBVIOUS
    <3> HIDE DEF n
    <3>4. JobIsAccepted(n)
      BY SMTT(40), <1>7, <3>1, <3>3 DEF JobIsAccepted
    <3>. QED BY ZenonT(40), <3>1, <3>2, <3>3, <3>4, NextStepIsAccepted
  <2>. QED BY SMTT(40), <2>1, <2>2
<1>9. CASE LoadGraph(p)
  <2> DEFINE n == [step |-> "chain", cmd |-> "apply", c |-> j.c, parent |-> j.parent,
                   report |-> j.report, head |-> j.head, graph |-> load_current_graph(j.head)]
  <2>1. Goto(p, n) /\ At(p, "base")
    BY Zenon, <1>9 DEF LoadGraph
  <2>2. sidecar' = sidecar /\ envelopes' \subseteq envelopes
    BY ZenonT(40), <1>9 DEF LoadGraph, objects, files
  <2>3. n.step = "chain" /\ n.c = j.c /\ n.report = j.report
    OBVIOUS
  <2> HIDE DEF n
  <2>4. JobIsAccepted(n)
    BY SMTT(40), <1>7, <2>1, <2>3 DEF JobIsAccepted
  <2>. QED BY ZenonT(40), <2>1, <2>2, <2>3, <2>4, NextStepIsAccepted
<1>10. CASE ApplyChange(p)
  <2>1. CASE Fail(p)
    BY SMTT(40), <1>2, <2>1
  <2>2. CASE ~Fail(p)
    <3>1. PICK g : Goto(p, Saving("apply", After(j.c, g, j.parent, j.report), TRUE, None))
      BY Zenon, <1>10, <2>2 DEF ApplyChange
    <3>2. sidecar' = sidecar /\ envelopes' \subseteq envelopes
      BY ZenonT(40), <1>10, <2>2 DEF ApplyChange, objects, files
    <3>3. Accepted(j.c, j.report)
      BY Zenon, <1>7, <1>10 DEF ApplyChange
    <3> DEFINE e == After(j.c, g, j.parent, j.report)
    <3>4. e.change = j.c /\ e.report = j.report
      BY DEF After, SnapshotEnvelope
    <3> HIDE DEF e
    <3>5. Goto(p, Saving("apply", e, TRUE, None))
      BY ZenonT(40), <3>1 DEF e
    <3>. QED BY Zenon, <3>2, <3>3, <3>4, <3>5, SavingIsAccepted
  <2>. QED BY SMTT(40), <2>1, <2>2
<1>11. CASE SaveGraph(p)
  <2>1. j.step = "graph" /\ JobIsAccepted(j)
    BY Zenon, <1>1, <1>11 DEF SaveGraph
  <2>2. Accepted(j.env.change, j.env.report)
    BY SMTT(40), <2>1 DEF JobIsAccepted
  <2>3. PICK parent : Goto(p, [step |-> "put", cmd |-> j.cmd, branch |-> j.branch,
                               env |-> Stamp(j.env, parent, now')])
    BY ZenonT(40), <1>11 DEF SaveGraph
  <2>4. sidecar' = sidecar /\ envelopes' = envelopes
    BY ZenonT(40), <1>11 DEF SaveGraph, files
  <2> DEFINE next == [step |-> "put", cmd |-> j.cmd, branch |-> j.branch,
                      env |-> Stamp(j.env, parent, now')]
  <2>5. /\ next.step = "put"
        /\ next.env.change = j.env.change /\ next.env.report = j.env.report
    BY SMTT(40), StampKeepsOrigin
  <2>6. Goto(p, next)
    BY ZenonT(40), <2>3
  <2> HIDE DEF next
  <2>7. JobIsAccepted(next) /\ next.step # "gate"
    BY SMTT(40), <2>2, <2>5 DEF JobIsAccepted
  <2>8. envelopes' \subseteq envelopes
    BY Zenon, <2>4
  <2>. QED BY Zenon, <2>4, <2>6, <2>7, <2>8, NextStepIsAccepted
<1>12. CASE PutEnvelope(p)
  <2>1. j.step = "put" /\ JobIsAccepted(j)
    BY ZenonT(40), <1>1, <1>12 DEF PutEnvelope
  <2>2. Accepted(j.env.change, j.env.report)
    BY SMTT(40), <2>1 DEF JobIsAccepted
  <2>3. PICK next \in {"head", "ref"} :
          Goto(p, [step |-> next, cmd |-> j.cmd, env |-> j.env, branch |-> j.branch])
    BY ZenonT(40), <1>12 DEF PutEnvelope
  <2>4. sidecar' = sidecar /\ envelopes' = envelopes \cup {j.env}
    BY ZenonT(40), <1>12 DEF PutEnvelope, files
  <2>5. job'[p].step \in {"head", "ref"} /\ job' = [job EXCEPT ![p] = job'[p]]
    BY SMTT(40), <2>3, AcceptedGoes
  <2>6. JobIsAccepted(job'[p])
    BY SMTT(40), <2>5 DEF JobIsAccepted
  <2>7. \A e \in envelopes' \ envelopes : Accepted(e.change, e.report)
    BY ZenonT(40), <2>2, <2>4
  <2>. QED BY ZenonT(40), <2>4, <2>5, <2>6, <2>7, AcceptedStays
<1>13. CASE ReadHead(p)
  <2>1. Goto(p, [step |-> "ref", cmd |-> j.cmd, env |-> j.env, branch |-> HEAD])
        /\ sidecar' = sidecar /\ envelopes' = envelopes
    BY ZenonT(40), <1>13 DEF ReadHead, objects, files
  <2>2. job'[p].step = "ref" /\ job' = [job EXCEPT ![p] = job'[p]]
    BY SMTT(40), <2>1, AcceptedGoes
  <2>3. JobIsAccepted(job'[p])
    BY ZenonT(40), <2>2 DEF JobIsAccepted
  <2>. QED BY ZenonT(40), <2>1, <2>2, <2>3, AcceptedStays
<1>14. CASE WriteRef(p)
  <2>1. Goto(p, [step |-> "read_index", cmd |-> j.cmd, env |-> j.env])
        /\ sidecar' = sidecar /\ envelopes' = envelopes
    BY ZenonT(40), <1>14 DEF WriteRef, objects
  <2>2. job'[p].step = "read_index" /\ job' = [job EXCEPT ![p] = job'[p]]
    BY SMTT(40), <2>1, AcceptedGoes
  <2>3. JobIsAccepted(job'[p])
    BY ZenonT(40), <2>2 DEF JobIsAccepted
  <2>. QED BY ZenonT(40), <2>1, <2>2, <2>3, AcceptedStays
<1>15. CASE ReadIndex(p)
  <2>1. Goto(p, [step |-> "index", cmd |-> j.cmd, env |-> j.env, index |-> index])
        /\ sidecar' = sidecar /\ envelopes' = envelopes
    BY ZenonT(40), <1>15 DEF ReadIndex, objects, files
  <2>2. job'[p].step = "index" /\ job' = [job EXCEPT ![p] = job'[p]]
    BY SMTT(40), <2>1, AcceptedGoes
  <2>3. JobIsAccepted(job'[p])
    BY <2>2 DEF JobIsAccepted
  <2>. QED BY ZenonT(40), <2>1, <2>2, <2>3, AcceptedStays
<1>16. CASE WriteIndex(p)
  BY ZenonT(40), <1>16, NextStepIsAccepted DEF WriteIndex, objects
<1>17. CASE Sweep(p)
  <2>1. sidecar' = sidecar /\ job' = job /\ envelopes' \subseteq envelopes
    BY SMTT(40), <1>17 DEF Sweep, files
  <2>. QED BY SMTT(40), <2>1 DEF AcceptedInv
<1>18. CASE SweepEnds(p)
  BY Zenon, <1>2, <1>18 DEF SweepEnds
<1>. QED
  BY ZenonT(40), <1>3, <1>4, <1>5, <1>6, <1>8, <1>9, <1>10, <1>11, <1>12, <1>13, <1>14, <1>15,
     <1>16, <1>17, <1>18 DEF Step

(* Where `ail change --apply` is not used, every snapshot of an applied      *)
(* ChangeSet names an accepted report on that ChangeSet: the gate cannot be  *)
(* passed by interleaving `ail verify`, `ail apply` and `ail gc`, or by a    *)
(* command that dies.                                                        *)
THEOREM AppliedSnapshotsWereAccepted ==
  ASSUME "change_apply" \notin Commands
  PROVE  Spec => []AppliedWasAccepted
<1>1. Init => AcceptedInv
  <2>1. Accepted(Genesis.change, Genesis.report)
    BY DEF Genesis, SnapshotEnvelope, Accepted
  <2>. QED BY SMTT(40), <2>1 DEF Init, AcceptedInv
<1>2. AcceptedInv /\ [Next]_vars => AcceptedInv'
  <2> SUFFICES ASSUME AcceptedInv, [Next]_vars PROVE AcceptedInv'
    BY ZenonT(40)
  <2>1. CASE UNCHANGED vars
    BY <2>1 DEF vars, objects, files, AcceptedInv
  <2>2. ASSUME NEW p \in Procs, Command(p) PROVE AcceptedInv'
    BY <2>2, CommandIsAccepted
  <2>3. ASSUME NEW p \in Procs, Step(p) PROVE AcceptedInv'
    BY ZenonT(40), <2>3, StepIsAccepted
  <2>4. ASSUME NEW p \in Procs, Crash(p) PROVE AcceptedInv'
    BY SMTT(40), <2>4, NextStepIsAccepted DEF Crash, objects, files
  <2>. QED BY ZenonT(40), <2>1, <2>2, <2>3, <2>4 DEF Next
<1>3. AcceptedInv => AppliedWasAccepted
  BY DEF AcceptedInv, Accepted, AppliedWasAccepted
<1>. QED
  BY <1>1, <1>2, <1>3, PTL DEF Spec
=============================================================================
