----------------------------- MODULE StoreProofs -----------------------------
(* Proofs about the project store, for every number of processes, commands,  *)
(* crashes, branches and ChangeSets.                                         *)
EXTENDS ProjectStore, FiniteSetTheorems, SequenceTheorems, WellFoundedInduction, TLAPS

(* A set of natural numbers that is not empty has a least element.           *)
LEMMA LeastNumber ==
  ASSUME NEW T \in SUBSET Nat, T # {}
  PROVE  \E x \in T : \A y \in T : x <= y
<1> DEFINE R == {ss \in Nat \X Nat : ss[1] < ss[2]}
<1>1. IsWellFoundedOn(R, Nat)
  BY NatLessThanWellFounded DEF OpToRel
<1>2. PICK x \in T : \A y \in T : <<y, x>> \notin R
  <2> HIDE DEF R
  <2> QED BY Zenon, <1>1, WFMin
<1>3. ASSUME NEW y \in T PROVE x <= y
  <2>1. <<y, x>> \in Nat \X Nat /\ <<y, x>>[1] = y /\ <<y, x>>[2] = x
    OBVIOUS
  <2>2. ~(y < x)
    BY <1>2, <2>1
  <2>. QED BY <2>2
<1>. QED
  BY <1>3

(* One that is bounded has a greatest.                                       *)
LEMMA GreatestNumber ==
  ASSUME NEW T \in SUBSET Nat, T # {}, NEW n \in Nat, \A x \in T : x <= n
  PROVE  \E x \in T : \A y \in T : y <= x
<1> DEFINE D == {k \in Nat : n - k \in T}
<1>1. D \in SUBSET Nat /\ D # {}
  <2>1. PICK x \in T : TRUE
    BY Zenon
  <2>2. n - x \in Nat /\ n - (n - x) = x
    BY <2>1
  <2>. QED BY Zenon, <2>1, <2>2
<1>2. PICK k \in D : \A l \in D : k <= l
  <2> HIDE DEF D
  <2> QED BY <1>1, LeastNumber
<1>3. ASSUME NEW y \in T PROVE y <= n - k
  <2>1. n - y \in Nat /\ n - (n - y) = y /\ y \in Nat
    OBVIOUS
  <2>2. n - y \in D
    BY <2>1
  <2>3. k <= n - y /\ k \in Nat
    BY <1>2, <2>2
  <2>. QED BY <2>1, <2>3
<1>. QED
  BY <1>2, <1>3

(* latest_snapshot takes a listed snapshot.                                  *)
LEMMA LatestIsListed ==
  ASSUME NEW n \in Nat \ {0}, NEW L, DOMAIN L = 1..n,
         NEW t \in Nat, \A i \in 1..n : L[i].created \in 0..t
  PROVE  \E i \in 1..n : latest_snapshot(L) = L[i]
<1> DEFINE T == {L[i].created : i \in 1..n}
           M(m) == {i \in 1..n : L[i].created = m}
<1>1. T \in SUBSET Nat /\ T # {} /\ \A x \in T : x <= t
  <2>1. L[1].created \in T
    OBVIOUS
  <2>. QED BY <2>1
<1>2. PICK m \in T : \A y \in T : y <= m
  <2> HIDE DEF T
  <2> QED BY Zenon, <1>1, GreatestNumber
<1>3. M(m) \in SUBSET Nat /\ M(m) # {} /\ \A i \in M(m) : i <= n
  BY <1>2
<1>4. PICK i \in M(m) : \A j \in M(m) : j <= i
  <2> HIDE DEF M
  <2> QED BY Zenon, <1>3, GreatestNumber
<1>5. i \in 1..n /\ \A j \in 1..n :
         L[j].created <= L[i].created /\ (L[j].created = L[i].created => j <= i)
  <2>1. \A j \in 1..n : L[j].created \in T
    OBVIOUS
  <2>. QED BY <1>2, <1>4, <2>1
<1>6. L # <<>>
  OBVIOUS
<1>. QED
  BY Zenon, <1>5, <1>6 DEF latest_snapshot

-----------------------------------------------------------------------------
(* What commands find in a store that is sound.                              *)

LEMMA Found ==
  ASSUME NEW S \in Views
  PROVE  /\ S \subseteq envelopes /\ Ids(S) = Ids(envelopes)
         /\ \A id \in Ids(S) : Find(S, id) \in S /\ Find(S, id).id = id
BY DEF Views, Ids, Find

LEMMA ViewIsFound ==
  ASSUME StoreInv
  PROVE  found \in Views
BY DEF StoreInv, Backed

LEMMA Listed ==
  ASSUME StoreInv, NEW S \in Views
  PROVE  /\ DOMAIN list_snapshots(S) = 1..Len(index) /\ Len(index) \in Nat
         /\ \A i \in 1..Len(index) : list_snapshots(S)[i] \in envelopes
<1>1. index \in Seq(Entry)
  BY DEF StoreInv, Backed
<1>2. DOMAIN index = 1..Len(index) /\ Len(index) \in Nat
  BY <1>1
<1>3. \A i \in 1..Len(index) : index[i] \in Entry
  BY <1>1
<1>4. \A i \in 1..Len(index) : index[i].id \in Ids(envelopes)
  BY <1>3 DEF Entry
<1>. QED
  BY <1>2, <1>4, Found DEF list_snapshots

LEMMA ParentsAreKnown ==
  ASSUME StoreInv, NEW S \in Views
  PROVE  /\ IdOf(latest_snapshot(list_snapshots(S))) \in Known
         /\ LastListed(S) \in Known
         /\ \A b : IdOf(branch_head(S, b)) \in Known
         /\ IdOf(Current(S)) \in Known
<1> DEFINE L == list_snapshots(S)
<1>1. DOMAIN L = 1..Len(index) /\ Len(index) \in Nat
      /\ \A i \in 1..Len(index) : L[i] \in envelopes
  BY Listed
<1>2. \A e \in envelopes : e.id \in Known /\ IdOf(e) \in Known
  BY DEF Known, Ids, IdOf
<1>3. IdOf(None) \in Known /\ None \in Known
  BY DEF IdOf, Known
<1>4. index = <<>> <=> Len(index) = 0
  BY DEF StoreInv, Backed
<1>5. IdOf(latest_snapshot(L)) \in Known
  <2>1. CASE Len(index) = 0
    <3>1. L = <<>>
      BY <2>1, <1>4 DEF list_snapshots
    <3>. QED BY <3>1, <1>3 DEF latest_snapshot
  <2>2. CASE Len(index) # 0
    <3>1. now \in Nat /\ \A i \in 1..Len(index) : L[i].created \in 0..now
      BY <1>1 DEF StoreInv, Backed
    <3>2. \E i \in 1..Len(index) : latest_snapshot(L) = L[i]
      <4> HIDE DEF L
      <4> QED BY Zenon, <1>1, <2>2, <3>1, LatestIsListed
    <3>. QED BY <3>2, <1>1, <1>2
  <2>. QED BY <2>1, <2>2
<1>6. LastListed(S) \in Known
  BY <1>1, <1>2, <1>3, <1>4 DEF LastListed
<1>7. \A b : branch_head(S, b) = None \/ branch_head(S, b) \in envelopes
  BY Found DEF branch_head
<1>8. \A b : IdOf(branch_head(S, b)) \in Known
  BY <1>2, <1>3, <1>7
<1>9. IdOf(Current(S)) \in Known
  BY <1>5, <1>8 DEF Current
<1>. QED
  BY <1>5, <1>6, <1>8, <1>9

(* BeforeChange takes a listed snapshot.                                     *)
LEMMA BeforeChangeIsListed ==
  ASSUME NEW n \in Nat \ {0}, NEW L, DOMAIN L = 1..n, NEW c
  PROVE  \E i \in 1..n : BeforeChange(L, c) = L[i]
<1> DEFINE others == {i \in DOMAIN L : L[i].change # c}
<1>1. CASE others = {}
  BY <1>1 DEF BeforeChange
<1>2. CASE others # {}
  <2>1. others \in SUBSET Nat /\ \A i \in others : i <= n
    OBVIOUS
  <2>2. \E i \in others : \A j \in others : j <= i
    <3> HIDE DEF others
    <3> QED BY Zenon, <1>2, <2>1, GreatestNumber
  <2>. QED BY <1>2, <2>2 DEF BeforeChange
<1>. QED BY <1>1, <1>2

(* update_snapshot_index makes a list of entries from a list of entries.     *)
LEMMA UpdatedIndex ==
  ASSUME NEW E, NEW entries \in Seq(E), NEW e, [id |-> e.id, created |-> e.created] \in E
  PROVE  update_snapshot_index(entries, e) \in Seq(E)
<1> DEFINE same == {i \in DOMAIN entries : entries[i].id = e.id}
           pos  == IF same = {} THEN Len(entries) + 1 ELSE CHOOSE i \in same : TRUE
           rest == SubSeq(entries, 1, pos - 1) \o SubSeq(entries, pos + 1, Len(entries))
           less == {i \in DOMAIN entries \ {pos} :
                      \/ entries[i].created < e.created
                      \/ entries[i].created = e.created /\ i < pos}
           k    == Cardinality(less)
<1>1. DOMAIN entries = 1..Len(entries) /\ Len(entries) \in Nat
      /\ \A i \in 1..Len(entries) : entries[i] \in E
  OBVIOUS
<1>2. pos \in 1..(Len(entries) + 1)
  <2>1. CASE same = {}
    BY <1>1, <2>1
  <2>2. CASE same # {}
    <3>1. pos \in same
      BY <2>2
    <3>. QED BY <3>1, <1>1
  <2>. QED BY <2>1, <2>2
<1> HIDE DEF pos
<1>3. /\ SubSeq(entries, 1, pos - 1) \in Seq(E)
      /\ Len(SubSeq(entries, 1, pos - 1)) = pos - 1
  BY <1>1, <1>2, SubSeqProperties
<1>4. /\ SubSeq(entries, pos + 1, Len(entries)) \in Seq(E)
      /\ Len(SubSeq(entries, pos + 1, Len(entries)))
           = IF pos = Len(entries) + 1 THEN 0 ELSE Len(entries) - pos
  BY <1>1, <1>2, SubSeqProperties
<1>5. rest \in Seq(E) /\ Len(rest) = IF pos = Len(entries) + 1 THEN Len(entries) ELSE Len(entries) - 1
  <2> DEFINE a == SubSeq(entries, 1, pos - 1)
             b == SubSeq(entries, pos + 1, Len(entries))
  <2>1. a \in Seq(E) /\ b \in Seq(E)
    BY <1>3, <1>4
  <2>2. a \o b \in Seq(E) /\ Len(a \o b) = Len(a) + Len(b)
    <3> HIDE DEF a, b
    <3> QED BY <2>1, ConcatProperties
  <2>3. rest \in Seq(E) /\ Len(rest) = Len(a) + Len(b)
    BY <2>2
  <2>4. /\ Len(a) = pos - 1
        /\ Len(b) = IF pos = Len(entries) + 1 THEN 0 ELSE Len(entries) - pos
    BY <1>3, <1>4
  <2>5. \A n \in Nat : \A q \in 1..(n + 1) :
          (q - 1) + (IF q = n + 1 THEN 0 ELSE n - q) = IF q = n + 1 THEN n ELSE n - 1
    OBVIOUS
  <2>6. Len(entries) \in Nat
    BY <1>1
  <2>7. Len(a) + Len(b) = IF pos = Len(entries) + 1 THEN Len(entries) ELSE Len(entries) - 1
    <3> HIDE DEF a, b
    <3>. QED BY ZenonT(40), <1>2, <2>4, <2>5, <2>6
  <2> HIDE DEF a, b, rest
  <2>. QED BY Zenon, <2>3, <2>7
<1>6. k \in Nat /\ k <= Len(rest)
  <2>1. IsFiniteSet(1..Len(entries)) /\ Cardinality(1..Len(entries)) = Len(entries)
    <3>1. \A n \in Nat : IsFiniteSet(1..n) /\ Cardinality(1..n) = n
      BY FS_Interval
    <3>. QED BY <1>1, <3>1
  <2>2. /\ IsFiniteSet((1..Len(entries)) \ {pos})
        /\ Cardinality((1..Len(entries)) \ {pos}) =
             IF pos \in 1..Len(entries) THEN Len(entries) - 1 ELSE Len(entries)
    BY Zenon, <2>1, FS_RemoveElement
  <2>3. less \in SUBSET ((1..Len(entries)) \ {pos})
    BY <1>1
  <2>4. IsFiniteSet(less) /\ k <= Cardinality((1..Len(entries)) \ {pos})
    <3> HIDE DEF less
    <3> QED BY Zenon, <2>2, <2>3, FS_Subset
  <2>5. k \in Nat
    <3> HIDE DEF less
    <3> QED BY <2>4, FS_CardinalityType
  <2>6. Cardinality((1..Len(entries)) \ {pos}) = Len(rest)
    <3> HIDE DEF rest
    <3>1. pos \in 1..Len(entries) <=> pos # Len(entries) + 1
      BY <1>1, <1>2
    <3>. QED BY <1>5, <2>2, <3>1
  <2>. QED BY Zenon, <2>4, <2>5, <2>6
<1> HIDE DEF rest, k
<1>7. \A i \in 1..Len(rest) : rest[i] \in E
  BY <1>5
<1>8. SubSeq(rest, 1, k) \in Seq(E)
  BY <1>5, <1>6, <1>7, SubSeqProperties
<1>9. SubSeq(rest, k + 1, Len(rest)) \in Seq(E)
  BY <1>5, <1>6, <1>7, SubSeqProperties
<1>10. <<[id |-> e.id, created |-> e.created]>> \in Seq(E)
  OBVIOUS
<1>11. SubSeq(rest, 1, k) \o <<[id |-> e.id, created |-> e.created]>> \in Seq(E)
  BY <1>8, <1>10, ConcatProperties
<1>12. (SubSeq(rest, 1, k) \o <<[id |-> e.id, created |-> e.created]>>)
          \o SubSeq(rest, k + 1, Len(rest)) \in Seq(E)
  BY <1>9, <1>11, ConcatProperties
<1>. QED
  BY Zenon, <1>12 DEF update_snapshot_index, rest, k, pos

-----------------------------------------------------------------------------
(* Steps that only add to the store keep what was stored, and with it what   *)
(* the other commands count on.                                              *)

Grows ==
    /\ envelopes \subseteq envelopes' /\ graphs \subseteq graphs'
    /\ drafts \subseteq drafts' /\ reports \subseteq reports'
    /\ now \in Nat /\ now' \in Nat /\ now <= now'

LEMMA EntriesStay ==
  ASSUME Grows, NEW s \in Seq(Entry)
  PROVE  s \in Seq(Entry')
<1>1. Ids(envelopes) \subseteq Ids(envelopes')
  BY DEF Grows, Ids
<1>2. Entry \subseteq Entry'
  BY <1>1 DEF Entry
<1>3. \A i \in 1..Len(s) : s[i] \in Entry'
  BY <1>2
<1>. QED
  BY <1>3

LEMMA ClosedStays ==
  ASSUME Grows, NEW e, Closed(e)
  PROVE  Closed(e)'
<1>1. Ids(envelopes) \subseteq Ids(envelopes')
  BY DEF Grows, Ids
<1>. QED
  BY <1>1 DEF Grows, Closed

LEMMA BackedStays ==
  ASSUME Grows, NEW q \in Procs, job[q] # None, JobIsBacked(job[q]), job'[q] = job[q]
  PROVE  JobIsBacked(job[q])'
<1>1. Known \subseteq Known'
  BY DEF Grows, Ids, Known
<1>2. \A s \in Seq(Entry) : s \in Seq(Entry')
  BY EntriesStay
<1>3. \A e : Closed(e) => Closed(e)'
  BY ClosedStays
<1>4. \A e : Closed(e) /\ e.created \in 0..now => Closed(e)' /\ e.created \in 0..now'
  BY SMTT(40), <1>3 DEF Grows
<1> DEFINE j == job[q]
<1>5. CASE j.step \in {"list", "report", "sidecar", "gate", "load", "base", "chain"}
  BY <1>1, <1>5 DEF JobIsBacked, Grows
<1>6. CASE j.step = "graph"
  BY <1>1, <1>6 DEF JobIsBacked, Grows
<1>7. CASE j.step = "put"
  <2>1. Closed(j.env) /\ j.env.created \in 0..now
    BY <1>7 DEF JobIsBacked
  <2>2. Closed(job[q].env)' /\ job'[q].env.created \in 0..now'
    BY <1>1, <2>1 DEF Closed, Grows, Known
  <2>. QED BY <1>7, <2>2 DEF JobIsBacked
<1>8. CASE j.step \in {"head", "ref", "read_index"}
  BY <1>8 DEF JobIsBacked, Grows
<1>9. CASE j.step = "index"
  BY <1>2, <1>9 DEF JobIsBacked, Grows
<1>10. j.step \in {"list", "report", "sidecar", "gate", "load", "base", "chain",
                   "graph", "put", "head", "ref", "read_index", "index"}
  BY DEF JobIsBacked
<1>. QED
  BY <1>5, <1>6, <1>7, <1>8, <1>9, <1>10

(* What is left to show of a step of process p that adds to the store.       *)
LEMMA Assemble ==
  ASSUME StoreInv, Grows, NEW p \in Procs,
         job' = [job EXCEPT ![p] = job'[p]],
         job'[p] # None => JobIsBacked(job[p])',
         (envelopes' = envelopes /\ found' = found) \/ found' \in Views',
         \A e \in envelopes' \ envelopes : Closed(e)' /\ e.created \in 0..now',
         index' = index \/ index' \in Seq(Entry'),
         refs' = [b \in Branches |-> refs'[b]],
         \A b \in Branches : refs'[b] = refs[b] \/ refs'[b] \in Ids(envelopes),
         sidecar' = [c \in Changes |-> sidecar'[c]],
         \A c \in Changes : sidecar'[c] = sidecar[c] \/ sidecar'[c] \in reports
  PROVE  StoreInv'
<1>1. Ids(envelopes) \subseteq Ids(envelopes')
  BY DEF Grows, Ids
<1>2. index' \in Seq(Entry')
  BY EntriesStay DEF StoreInv, Backed
<1>3. CanList'
  <2>1. \A i \in DOMAIN index' : index'[i] \in Entry'
    BY <1>2
  <2>. QED BY <2>1 DEF CanList, Entry
<1>4. \A e \in envelopes' : Closed(e)' /\ e.created \in 0..now'
  <2>1. \A e \in envelopes : Closed(e) /\ e.created \in 0..now
    BY DEF StoreInv, NothingDangles, Backed
  <2>2. \A e \in envelopes : Closed(e)'
    BY <2>1, ClosedStays
  <2>3. \A e \in envelopes : e.created \in 0..now'
    BY <2>1 DEF Grows
  <2>. QED BY <2>2, <2>3
<1>5. \A b \in Branches : refs'[b] \in Ids(envelopes') \cup {None}
  BY <1>1 DEF StoreInv, NothingDangles
<1>6. \A c \in Changes : sidecar'[c] \in reports' \cup {None}
  BY DEF StoreInv, NothingDangles, Grows
<1>7. job' = [q \in Procs |-> job'[q]] /\ \A q \in Procs : q # p => job'[q] = job[q]
  <2>1. job = [q \in Procs |-> job[q]]
    BY DEF StoreInv, Backed
  <2>. QED BY <2>1
<1>8. ASSUME NEW q \in Procs, job'[q] # None PROVE JobIsBacked(job[q])'
  <2>1. CASE q = p
    BY <1>8, <2>1
  <2>2. CASE q # p
    <3>1. job'[q] = job[q] /\ job[q] # None
      BY <1>7, <1>8, <2>2
    <3>2. JobIsBacked(job[q])
      BY <3>1 DEF StoreInv, Backed
    <3>. QED BY <3>1, <3>2, BackedStays
  <2>. QED BY <2>1, <2>2
<1>9. NothingDangles'
  BY SMTT(40), <1>3, <1>4, <1>5, <1>6 DEF NothingDangles
<1>10. found' \in Views'
  BY Zenon DEF Views, Ids, StoreInv, Backed
<1>11. Backed'
  BY <1>2, <1>4, <1>7, <1>8, <1>10 DEF Backed, Grows
<1>. QED
  BY <1>9, <1>11 DEF StoreInv

(* A step that only changes what process p is about to do.                   *)
LEMMA OnlyJob ==
  ASSUME StoreInv, NEW p \in Procs, UNCHANGED <<objects, files, now>>,
         job' = [job EXCEPT ![p] = job'[p]],
         job'[p] # None => JobIsBacked(job[p])'
  PROVE  StoreInv'
<1>1. /\ envelopes' = envelopes /\ graphs' = graphs /\ drafts' = drafts /\ reports' = reports
      /\ found' = found /\ refs' = refs /\ index' = index /\ sidecar' = sidecar /\ now' = now
  BY DEF objects, files
<1>2. Grows
  BY <1>1 DEF Grows, StoreInv, Backed
<1>3. refs = [b \in Branches |-> refs[b]] /\ sidecar = [c \in Changes |-> sidecar[c]]
  BY DEF StoreInv, Backed
<1>4. refs' = [b \in Branches |-> refs'[b]] /\ sidecar' = [c \in Changes |-> sidecar'[c]]
  BY <1>1, <1>3
<1>. QED
  BY <1>1, <1>2, <1>4, Assemble

LEMMA Goes ==
  ASSUME StoreInv, NEW p \in Procs, NEW j, Goto(p, j)
  PROVE  job'[p] = j /\ job' = [job EXCEPT ![p] = job'[p]]
<1>1. job = [q \in Procs |-> job[q]]
  BY DEF StoreInv, Backed
<1>. QED
  BY <1>1 DEF Goto

(* A command that goes on to save a snapshot.                                *)
LEMMA SavingIsBacked ==
  ASSUME StoreInv, NEW p \in Procs, NEW cmd, NEW e, NEW fresh, NEW branch,
         Goto(p, Saving(cmd, e, fresh, branch)),
         fresh \/ e.graph \in graphs', e.parent \in Known',
         e.change \in drafts' \cup {None}, e.report \in reports' \cup {None}
  PROVE  JobIsBacked(job[p])'
<1>1. job'[p] = Saving(cmd, e, fresh, branch)
  BY Goes
<1>2. job'[p].step = "graph" /\ job'[p].env = e /\ job'[p].fresh = fresh
  BY <1>1 DEF Saving
<1>. QED
  BY <1>2 DEF JobIsBacked

LEMMA PlainIsBacked ==
  ASSUME StoreInv, NEW p \in Procs, NEW cmd, NEW id, NEW g, NEW parent, NEW fresh, NEW branch,
         Goto(p, Saving(cmd, Plain(id, g, parent), fresh, branch)),
         fresh \/ g \in graphs', parent \in Known'
  PROVE  JobIsBacked(job[p])'
<1> DEFINE e == Plain(id, g, parent)
<1>1. e.graph = g /\ e.parent = parent /\ e.change = None /\ e.report = None
  BY DEF Plain, SnapshotEnvelope
<1> HIDE DEF e
<1>. QED
  BY <1>1, SavingIsBacked DEF e

LEMMA FailKeeps ==
  ASSUME StoreInv, NEW p \in Procs, Fail(p)
  PROVE  StoreInv'
<1>1. job'[p] = None /\ job' = [job EXCEPT ![p] = job'[p]]
  BY Goes DEF Fail
<1>. QED
  BY <1>1, OnlyJob DEF Fail

(* The commands start with what they have found in the store.                *)
LEMMA CommandKeeps ==
  ASSUME StoreInv, "gc" \notin Commands, NEW p \in Procs, Command(p)
  PROVE  StoreInv'
<1>1. ASSUME NEW b \in Branches, cmd_init(p, b) PROVE StoreInv'
  <2>1. /\ envelopes' = envelopes /\ graphs' = graphs /\ drafts' = drafts /\ reports' = reports
        /\ found' = found /\ refs' = refs /\ index' = index /\ sidecar' = sidecar /\ now' = now
        /\ job' = job /\ job[p] = None
    BY <1>1 DEF cmd_init, Start, objects
  <2>2. Grows
    BY <2>1 DEF Grows, StoreInv, Backed
  <2>3. refs = [d \in Branches |-> refs[d]] /\ sidecar = [c \in Changes |-> sidecar[c]]
        /\ job = [q \in Procs |-> job[q]]
    BY DEF StoreInv, Backed
  <2>4. refs' = [d \in Branches |-> refs'[d]] /\ sidecar' = [c \in Changes |-> sidecar'[c]]
        /\ job' = [job EXCEPT ![p] = job'[p]]
    BY <2>1, <2>3
  <2>. QED BY <2>1, <2>2, <2>4, Assemble
<1>2. ASSUME NEW b \in Branches, cmd_rebase(p, b) PROVE StoreInv'
  <2>1. PICK g : Goto(p, Saving("rebase", Plain(<<"rebase-onto", b, g>>, g, None), TRUE, None))
    BY Zenon, <1>2 DEF cmd_rebase
  <2>2. JobIsBacked(job[p])'
    <3>1. None \in Known'
      BY DEF Known
    <3>. QED BY Zenon, <2>1, <3>1, PlainIsBacked
  <2>. QED BY Zenon, <1>2, <2>1, <2>2, Goes, OnlyJob DEF cmd_rebase
<1>3. ASSUME NEW b \in Branches, NEW t \in Branches, cmd_merge(p, b, t) PROVE StoreInv'
  <2>1. PICK e, g :
          /\ e \in envelopes
          /\ Goto(p, Saving("merge", Plain(<<"merge", b, t>>, g, e.id), TRUE, None))
    <3>1. PICK S \in Views :
            LET target == IF branch_head(S, t) # None THEN branch_head(S, t)
                                                      ELSE branch_head(S, HEAD)
            IN  /\ target # None
                /\ \E g : Goto(p, Saving("merge", Plain(<<"merge", b, t>>, g, target.id), TRUE, None))
      BY Zenon, <1>3, ViewIsFound DEF cmd_merge
    <3>2. \A d : branch_head(S, d) # None => branch_head(S, d) \in envelopes
      BY Found DEF branch_head
    <3>3. PICK e, g :
            /\ e \in envelopes
            /\ Goto(p, Saving("merge", Plain(<<"merge", b, t>>, g, e.id), TRUE, None))
      BY Zenon, <3>1, <3>2
    <3>. QED BY Zenon, <3>3
  <2>2. e.id \in Known'
    BY <1>3, <2>1 DEF Known, Ids, cmd_merge, objects
  <2>3. JobIsBacked(job[p])'
    BY Zenon, <2>1, <2>2, PlainIsBacked
  <2>. QED BY Zenon, <1>3, <2>1, <2>3, Goes, OnlyJob DEF cmd_merge
<1>4. ASSUME NEW c \in Changes, cmd_change(p, c) PROVE StoreInv'
  <2>1. /\ envelopes' = envelopes /\ found' = found /\ graphs' = graphs
        /\ drafts \subseteq drafts' /\ reports' = reports
        /\ refs' = refs /\ index' = index /\ sidecar' = sidecar /\ now' = now
        /\ job' = job /\ job[p] = None
    BY <1>4 DEF cmd_change, Start, files
  <2>2. Grows
    BY <2>1 DEF Grows, StoreInv, Backed
  <2>3. refs = [d \in Branches |-> refs[d]] /\ sidecar = [d \in Changes |-> sidecar[d]]
        /\ job = [q \in Procs |-> job[q]]
    BY DEF StoreInv, Backed
  <2>4. refs' = [d \in Branches |-> refs'[d]] /\ sidecar' = [d \in Changes |-> sidecar'[d]]
        /\ job' = [job EXCEPT ![p] = job'[p]]
    BY <2>1, <2>3
  <2>. QED BY <2>1, <2>2, <2>4, Assemble
<1>5. ASSUME NEW c \in Changes, cmd_rollback_change(p, c) PROVE StoreInv'
  <2>1. PICK S \in Views :
          Goto(p, Saving("rollback", Plain(<<"rollback-change", c>>,
                         BeforeChange(list_snapshots(S), c).graph, LastListed(S)), FALSE, None))
    BY Zenon, <1>5, ViewIsFound DEF cmd_rollback_change
  <2>2. BeforeChange(list_snapshots(S), c).graph \in graphs
    <3>1. Len(index) \in Nat \ {0}
      BY <1>5, Listed DEF cmd_rollback_change, StoreInv, Backed
    <3>2. \E i \in 1..Len(index) : BeforeChange(list_snapshots(S), c) = list_snapshots(S)[i]
      BY <3>1, Listed, BeforeChangeIsListed
    <3>3. BeforeChange(list_snapshots(S), c) \in envelopes
      BY <3>2, Listed
    <3>. QED BY <3>3 DEF StoreInv, NothingDangles, Closed
  <2>3. LastListed(S) \in Known
    BY ParentsAreKnown
  <2>4. graphs' = graphs /\ Known' = Known
    BY <1>5 DEF cmd_rollback_change, objects, Known
  <2>5. JobIsBacked(job[p])'
    BY Zenon, <2>1, <2>2, <2>3, <2>4, PlainIsBacked
  <2>. QED BY Zenon, <1>5, <2>1, <2>5, Goes, OnlyJob DEF cmd_rollback_change
<1>6. ASSUME NEW c \in Changes, NEW b \in Branches \cup {None}, cmd_change_apply(p, c, b)
      PROVE  StoreInv'
  <2>1. /\ envelopes' = envelopes /\ found' = found /\ graphs' = graphs /\ drafts \subseteq drafts'
        /\ c \in drafts' /\ reports' = reports
        /\ refs' = refs /\ index' = index /\ sidecar' = sidecar /\ now' = now
        /\ Goto(p, [step |-> "list", cmd |-> "change_apply", c |-> c, branch |-> b])
    BY <1>6 DEF cmd_change_apply, files
  <2>2. Grows
    <3>1. now \in Nat
      BY DEF StoreInv, Backed
    <3>. QED BY <2>1, <3>1 DEF Grows
  <2>3. refs = [d \in Branches |-> refs[d]] /\ sidecar = [d \in Changes |-> sidecar[d]]
    BY DEF StoreInv, Backed
  <2>4. refs' = [d \in Branches |-> refs'[d]] /\ sidecar' = [d \in Changes |-> sidecar'[d]]
    BY <2>1, <2>3
  <2>5. JobIsBacked(job[p])'
    <3>1. job'[p].step = "list" /\ job'[p].c \in drafts'
      BY SMTT(40), <2>1, Goes
    <3>. QED BY <3>1 DEF JobIsBacked
  <2>6. job' = [job EXCEPT ![p] = job'[p]]
    BY ZenonT(40), <2>1, Goes
  <2>. QED BY ZenonT(40), <2>1, <2>2, <2>4, <2>5, <2>6, Assemble
<1>7. ASSUME NEW c \in Changes, NEW profile \in Profiles, cmd_verify(p, c, profile)
      PROVE  StoreInv'
  <2>1. PICK r : Goto(p, [step |-> "report", cmd |-> "verify", report |-> r])
    BY ZenonT(40), <1>7 DEF cmd_verify
  <2>2. JobIsBacked(job[p])'
    <3>1. job'[p].step = "report"
      BY SMTT(40), <2>1, Goes
    <3>. QED BY <3>1 DEF JobIsBacked
  <2>. QED BY SMTT(40), <1>7, <2>1, <2>2, Goes, OnlyJob DEF cmd_verify
<1>8. ASSUME NEW c \in Changes, NEW profile \in Profiles, NEW yes \in BOOLEAN,
             cmd_apply(p, c, profile, yes)
      PROVE  StoreInv'
  <2>1. PICK S \in Views : Goto(p, [step |-> "gate", cmd |-> "apply", c |-> c,
                                    profile |-> profile, parent |-> IdOf(Current(S))])
    BY Zenon, <1>8, ViewIsFound DEF cmd_apply
  <2>2. IdOf(Current(S)) \in Known
    BY ParentsAreKnown
  <2>3. Known' = Known
    BY <1>8 DEF cmd_apply, objects, Known
  <2>4. JobIsBacked(job[p])'
    <3>1. job'[p].step = "gate" /\ job'[p].parent \in Known'
      BY SMTT(40), <2>1, <2>2, <2>3, Goes
    <3>. QED BY SMTT(40), <3>1 DEF JobIsBacked
  <2>. QED BY ZenonT(40), <1>8, <2>1, <2>4, Goes, OnlyJob DEF cmd_apply
<1>9. ASSUME NEW id, cmd_rollback_to(p, id) PROVE StoreInv'
  <2>1. PICK S \in Views :
          Goto(p, Saving("rollback",
                         Plain(<<"rollback-to", id>>,
                               IF id \in Ids(S) THEN Find(S, id).graph ELSE {}, LastListed(S)),
                         id \notin Ids(S), None))
    BY ZenonT(40), <1>9, ViewIsFound DEF cmd_rollback_to
  <2>2. id \in Ids(S) => Find(S, id).graph \in graphs
    BY Found DEF StoreInv, NothingDangles, Closed
  <2>3. LastListed(S) \in Known
    BY ZenonT(40), ParentsAreKnown
  <2>4. graphs' = graphs /\ Known' = Known
    BY SMTT(40), <1>9 DEF cmd_rollback_to, objects, Known
  <2>5. JobIsBacked(job[p])'
    BY Zenon, <2>1, <2>2, <2>3, <2>4, PlainIsBacked
  <2>. QED BY ZenonT(40), <1>9, <2>1, <2>5, Goes, OnlyJob DEF cmd_rollback_to
<1>10. ~cmd_gc(p)
  BY DEF cmd_gc, Start
<1>. QED
  BY ZenonT(40), <1>1, <1>2, <1>3, <1>4, <1>5, <1>6, <1>7, <1>8, <1>9, <1>10 DEF Command

(* Each later step of a command writes only what is backed.                  *)
LEMMA StepKeeps ==
  ASSUME StoreInv, NEW p \in Procs, Step(p)
  PROVE  StoreInv'
<1> DEFINE j == job[p]
<1>1. ASSUME NEW step, At(p, step) PROVE j.step = step /\ JobIsBacked(j)
  BY <1>1 DEF StoreInv, Backed, At
<1>2. CASE ChangeApplyList(p)
  <2>1. CASE Fail(p)
    BY <2>1, FailKeeps
  <2>2. CASE ~Fail(p)
    <3>1. PICK S, g :
            /\ S \in Views
            /\ Goto(p, Saving("change_apply",
                              After(j.c, g, IdOf(latest_snapshot(list_snapshots(S))), None),
                              TRUE, j.branch))
      BY Zenon, <1>2, <2>2, ViewIsFound DEF ChangeApplyList
    <3>2. UNCHANGED <<objects, files, now>>
      BY Zenon, <1>2, <2>2 DEF ChangeApplyList
    <3>3. j.c \in drafts
      <4>1. j.step = "list" /\ JobIsBacked(j)
        BY <1>1, <1>2 DEF ChangeApplyList
      <4>. QED BY ZenonT(40), <4>1 DEF JobIsBacked
    <3> DEFINE e == After(j.c, g, IdOf(latest_snapshot(list_snapshots(S))), None)
    <3>4. /\ e.parent = IdOf(latest_snapshot(list_snapshots(S)))
          /\ e.change = j.c /\ e.report = None
      BY ZenonT(40) DEF After, SnapshotEnvelope
    <3>5. e.parent \in Known
      BY <3>1, <3>4, ParentsAreKnown
    <3>6. Known' = Known /\ drafts' = drafts
      BY SMTT(40), <3>2 DEF objects, Known
    <3>7. JobIsBacked(job[p])' /\ job' = [job EXCEPT ![p] = job'[p]]
      <4> HIDE DEF e
      <4>1. Goto(p, Saving("change_apply", e, TRUE, j.branch))
        BY Zenon, <3>1 DEF e
      <4>. QED BY Zenon, <4>1, <3>3, <3>4, <3>5, <3>6, SavingIsBacked, Goes
    <3>. QED BY SMTT(40), <3>2, <3>7, OnlyJob
  <2>. QED BY <2>1, <2>2
<1>3. CASE SaveReport(p)
  <2>1. /\ envelopes' = envelopes /\ found' = found /\ graphs' = graphs /\ drafts' = drafts
        /\ reports \subseteq reports' /\ j.report \in reports'
        /\ refs' = refs /\ index' = index /\ sidecar' = sidecar /\ now' = now
        /\ Goto(p, [step |-> "sidecar", cmd |-> "verify", report |-> j.report])
    BY <1>3 DEF SaveReport, files
  <2>2. Grows
    BY <2>1 DEF Grows, StoreInv, Backed
  <2>3. refs = [d \in Branches |-> refs[d]] /\ sidecar = [d \in Changes |-> sidecar[d]]
    BY DEF StoreInv, Backed
  <2>4. refs' = [d \in Branches |-> refs'[d]] /\ sidecar' = [d \in Changes |-> sidecar'[d]]
    BY SMTT(40), <2>1, <2>3
  <2>5. job'[p].step = "sidecar" /\ job'[p].report \in reports'
        /\ job' = [job EXCEPT ![p] = job'[p]]
    BY <2>1, Goes
  <2>6. JobIsBacked(job[p])'
    BY SMTT(40), <2>5 DEF JobIsBacked
  <2>. QED BY ZenonT(40), <2>1, <2>2, <2>4, <2>5, <2>6, Assemble
<1>4. CASE WriteSidecar(p)
  <2>1. /\ envelopes' = envelopes /\ graphs' = graphs /\ drafts' = drafts /\ reports' = reports
        /\ found' = found /\ refs' = refs /\ index' = index /\ now' = now /\ Goto(p, None)
        /\ sidecar' = [sidecar EXCEPT ![j.report.change] = j.report]
    BY <1>4 DEF WriteSidecar, objects
  <2>2. Grows
    BY <2>1 DEF Grows, StoreInv, Backed
  <2>3. j.report \in reports
    <3>1. j.step = "sidecar" /\ JobIsBacked(j)
      BY <1>1, <1>4 DEF WriteSidecar
    <3>. QED BY <3>1 DEF JobIsBacked
  <2>4. refs = [d \in Branches |-> refs[d]] /\ sidecar = [d \in Changes |-> sidecar[d]]
    BY DEF StoreInv, Backed
  <2>5. refs' = [d \in Branches |-> refs'[d]] /\ sidecar' = [d \in Changes |-> sidecar'[d]]
    BY <2>1, <2>4
  <2>6. \A c \in Changes : sidecar'[c] = sidecar[c] \/ sidecar'[c] \in reports
    BY <2>1, <2>3, <2>4
  <2>7. job'[p] = None /\ job' = [job EXCEPT ![p] = job'[p]]
    BY <2>1, Goes
  <2>. QED BY Zenon, <2>1, <2>2, <2>5, <2>6, <2>7, Assemble
<1>5. CASE Gate(p)
  <2>1. CASE Fail(p)
    BY <2>1, FailKeeps
  <2>2. CASE ~Fail(p)
    <3>1. Goto(p, [step |-> "load", cmd |-> "apply", c |-> j.c,
                   parent |-> j.parent, report |-> sidecar[j.c]])
      BY ZenonT(40), <1>5, <2>2 DEF Gate
    <3>2. UNCHANGED <<objects, files, now>> /\ sidecar[j.c] \in reports
      BY <1>5, <2>2 DEF Gate, GatePasses
    <3>3. j.parent \in Known
      <4>1. j.step = "gate" /\ JobIsBacked(j)
        BY <1>1, <1>5 DEF Gate
      <4>. QED BY ZenonT(40), <4>1 DEF JobIsBacked
    <3>4. Known' = Known /\ reports' = reports
      BY ZenonT(40), <3>2 DEF objects, Known
    <3>5. /\ job'[p].step = "load" /\ job'[p].parent \in Known' /\ job'[p].report \in reports'
          /\ job' = [job EXCEPT ![p] = job'[p]]
      BY <3>1, <3>2, <3>3, <3>4, Goes
    <3>6. JobIsBacked(job[p])'
      BY <3>5 DEF JobIsBacked
    <3>. QED BY ZenonT(40), <3>2, <3>5, <3>6, OnlyJob
  <2>. QED BY <2>1, <2>2
<1>6. ASSUME At(p, "load") \/ At(p, "base") \/ At(p, "chain")
      PROVE  j.parent \in Known /\ j.report \in reports
  <2>1. j.step \in {"load", "base", "chain"} /\ JobIsBacked(j)
    BY Zenon, <1>1, <1>6
  <2>. QED BY <2>1 DEF JobIsBacked
<1>7. ASSUME UNCHANGED <<objects, files, now>>, At(p, "load") \/ At(p, "base") \/ At(p, "chain"),
              NEW n, Goto(p, n), n.step \in {"base", "chain"},
              n.parent = j.parent, n.report = j.report
       PROVE  StoreInv'
  <2>1. job'[p] = n /\ job' = [job EXCEPT ![p] = job'[p]]
    BY Zenon, <1>7, Goes
  <2>2. Known' = Known /\ reports' = reports
    BY SMTT(40), <1>7 DEF objects, Known
  <2>3. JobIsBacked(job[p])'
    BY SMTT(40), <1>6, <1>7, <2>1, <2>2 DEF JobIsBacked
  <2>. QED BY Zenon, <1>7, <2>1, <2>3, OnlyJob
<1>8. CASE LoadHead(p)
  <2>1. CASE Fail(p)
    BY <2>1, FailKeeps
  <2>2. CASE ~Fail(p)
    <3> DEFINE n == [step |-> "base", cmd |-> "apply", c |-> j.c, parent |-> j.parent,
                     report |-> j.report, head |-> Current(found)]
    <3>1. Goto(p, n) /\ UNCHANGED <<objects, files, now>> /\ At(p, "load")
      BY Zenon, <1>8, <2>2 DEF LoadHead
    <3>2. n.step = "base" /\ n.parent = j.parent /\ n.report = j.report
      OBVIOUS
    <3> HIDE DEF n
    <3>. QED BY Zenon, <1>7, <3>1, <3>2
  <2>. QED BY <2>1, <2>2
<1>9. CASE LoadGraph(p)
  <2> DEFINE n == [step |-> "chain", cmd |-> "apply", c |-> j.c, parent |-> j.parent,
                   report |-> j.report, head |-> j.head, graph |-> load_current_graph(j.head)]
  <2>1. Goto(p, n) /\ UNCHANGED <<objects, files, now>> /\ At(p, "base")
    BY Zenon, <1>9 DEF LoadGraph
  <2>2. n.step = "chain" /\ n.parent = j.parent /\ n.report = j.report
    OBVIOUS
  <2> HIDE DEF n
  <2>. QED BY Zenon, <1>7, <2>1, <2>2
<1>10. CASE ApplyChange(p)
  <2>1. CASE Fail(p)
    BY <2>1, FailKeeps
  <2>2. CASE ~Fail(p)
    <3>1. PICK g : Goto(p, Saving("apply", After(j.c, g, j.parent, j.report), TRUE, None))
      BY Zenon, <1>10, <2>2 DEF ApplyChange
    <3>2. UNCHANGED <<objects, files, now>> /\ j.c \in drafts
      BY Zenon, <1>10, <2>2 DEF ApplyChange
    <3>3. j.parent \in Known /\ j.report \in reports
      BY Zenon, <1>6, <1>10 DEF ApplyChange
    <3> DEFINE e == After(j.c, g, j.parent, j.report)
    <3>4. e.parent = j.parent /\ e.change = j.c /\ e.report = j.report
      BY DEF After, SnapshotEnvelope
    <3>5. Known' = Known /\ drafts' = drafts /\ reports' = reports
      BY SMTT(40), <3>2 DEF objects, Known
    <3>6. JobIsBacked(job[p])' /\ job' = [job EXCEPT ![p] = job'[p]]
      <4> HIDE DEF e
      <4>1. Goto(p, Saving("apply", e, TRUE, None))
        BY ZenonT(40), <3>1 DEF e
      <4>. QED BY Zenon, <4>1, <3>2, <3>3, <3>4, <3>5, SavingIsBacked, Goes
    <3>. QED BY SMTT(40), <3>2, <3>6, OnlyJob
  <2>. QED BY <2>1, <2>2
<1>11. CASE SaveGraph(p)
  <2>1. j.step = "graph" /\ JobIsBacked(j)
    BY <1>1, <1>11 DEF SaveGraph
  <2>2. /\ j.fresh \/ j.env.graph \in graphs
        /\ j.env.parent \in Known
        /\ j.env.change \in drafts \cup {None} /\ j.env.report \in reports \cup {None}
    BY SMTT(40), <2>1 DEF JobIsBacked
  <2>3. /\ envelopes' = envelopes /\ found' = found /\ drafts' = drafts /\ reports' = reports
        /\ graphs \subseteq graphs' /\ j.env.graph \in graphs'
        /\ refs' = refs /\ index' = index /\ sidecar' = sidecar
        /\ now' \in {now, now + 1}
    BY Zenon, <1>11, <2>2 DEF SaveGraph, files
  <2>4. now \in Nat
    BY DEF StoreInv, Backed
  <2>5. Grows
    BY SMTT(40), <2>3, <2>4 DEF Grows
  <2>6. PICK parent \in Known :
          Goto(p, [step |-> "put", cmd |-> j.cmd, branch |-> j.branch,
                   env |-> Stamp(j.env, parent, now')])
    BY ZenonT(40), <1>11, <2>2, ViewIsFound, ParentsAreKnown DEF SaveGraph
  <2>7. job'[p].step = "put" /\ job'[p].env = Stamp(j.env, parent, now')
        /\ job' = [job EXCEPT ![p] = job'[p]]
    BY SMTT(40), <2>6, Goes
  <2>8. /\ job'[p].env.graph = j.env.graph /\ job'[p].env.parent = parent
        /\ job'[p].env.change = j.env.change /\ job'[p].env.report = j.env.report
        /\ job'[p].env.created = now'
    BY SMTT(40), <2>7 DEF Stamp, SnapshotEnvelope
  <2>9. Closed(job[p].env)' /\ job'[p].env.created \in 0..now'
    <3>1. parent \in Ids(envelopes') \cup {None}
      BY <2>3 DEF Known
    <3>. QED BY SMTT(40), <2>2, <2>3, <2>4, <2>8, <3>1 DEF Closed
  <2>10. JobIsBacked(job[p])'
    BY <2>7, <2>9 DEF JobIsBacked
  <2>11. refs = [d \in Branches |-> refs[d]] /\ sidecar = [d \in Changes |-> sidecar[d]]
    BY DEF StoreInv, Backed
  <2>12. refs' = [d \in Branches |-> refs'[d]] /\ sidecar' = [d \in Changes |-> sidecar'[d]]
    BY <2>3, <2>11
  <2>. QED BY ZenonT(40), <2>3, <2>5, <2>7, <2>10, <2>12, Assemble
<1>12. CASE PutEnvelope(p)
  <2>1. j.step = "put" /\ JobIsBacked(j)
    BY <1>1, <1>12 DEF PutEnvelope
  <2>2. Closed(j.env) /\ j.env.created \in 0..now
    BY <2>1 DEF JobIsBacked
  <2>3. /\ graphs' = graphs /\ drafts' = drafts /\ reports' = reports
        /\ envelopes' = envelopes \cup {j.env}
        /\ refs' = refs /\ index' = index /\ sidecar' = sidecar /\ now' = now
        /\ found' \in Views'
    BY Zenon, <1>12 DEF PutEnvelope, files, Rescan
  <2>4. Grows
    <3>1. now \in Nat
      BY DEF StoreInv, Backed
    <3>. QED BY <2>3, <3>1 DEF Grows
  <2>5. ASSUME NEW e \in envelopes' \ envelopes PROVE Closed(e)' /\ e.created \in 0..now'
    <3>1. e = j.env
      BY <2>3
    <3>2. Closed(e) /\ e.created \in 0..now
      BY SMTT(40), <2>2, <3>1
    <3>. QED BY <2>3, <2>4, <3>2, ClosedStays
  <2>6. PICK next \in {"head", "ref"} :
          Goto(p, [step |-> next, cmd |-> j.cmd, env |-> j.env, branch |-> j.branch])
    BY ZenonT(40), <1>12 DEF PutEnvelope
  <2>7. /\ job'[p].step \in {"head", "ref"} /\ job'[p].env = j.env
        /\ job' = [job EXCEPT ![p] = job'[p]]
    BY <2>6, Goes
  <2>8. JobIsBacked(job[p])'
    BY <2>3, <2>7 DEF JobIsBacked
  <2>9. refs = [d \in Branches |-> refs[d]] /\ sidecar = [d \in Changes |-> sidecar[d]]
    BY DEF StoreInv, Backed
  <2>10. refs' = [d \in Branches |-> refs'[d]] /\ sidecar' = [d \in Changes |-> sidecar'[d]]
    BY <2>3, <2>9
  <2>. QED BY ZenonT(40), <2>3, <2>4, <2>5, <2>7, <2>8, <2>10, Assemble
<1>13. CASE ReadHead(p)
  <2>1. j.env \in envelopes
    <3>1. j.step = "head" /\ JobIsBacked(j)
      BY Zenon, <1>1, <1>13 DEF ReadHead
    <3>. QED BY ZenonT(40), <3>1 DEF JobIsBacked
  <2>2. /\ UNCHANGED <<objects, files, now>>
        /\ Goto(p, [step |-> "ref", cmd |-> j.cmd, env |-> j.env, branch |-> HEAD])
    BY Zenon, <1>13 DEF ReadHead
  <2>3. envelopes' = envelopes
    BY ZenonT(40), <2>2 DEF objects
  <2>4. /\ job'[p].step = "ref" /\ job'[p].env = j.env
        /\ job' = [job EXCEPT ![p] = job'[p]]
    BY <2>2, Goes
  <2>5. JobIsBacked(job[p])'
    BY SMTT(40), <2>1, <2>3, <2>4 DEF JobIsBacked
  <2>. QED BY Zenon, <2>2, <2>4, <2>5, OnlyJob
<1>14. CASE WriteRef(p)
  <2>1. j.env \in envelopes
    <3>1. j.step = "ref" /\ JobIsBacked(j)
      BY <1>1, <1>14 DEF WriteRef
    <3>. QED BY ZenonT(40), <3>1 DEF JobIsBacked
  <2>2. /\ envelopes' = envelopes /\ graphs' = graphs /\ drafts' = drafts /\ reports' = reports
        /\ found' = found /\ index' = index /\ sidecar' = sidecar /\ now' = now
        /\ refs' = [refs EXCEPT ![j.branch] = j.env.id]
        /\ Goto(p, [step |-> "read_index", cmd |-> j.cmd, env |-> j.env])
    BY <1>14 DEF WriteRef, objects
  <2>3. Grows
    BY SMTT(40), <2>2 DEF Grows, StoreInv, Backed
  <2>4. /\ job'[p].step = "read_index" /\ job'[p].env = j.env
        /\ job' = [job EXCEPT ![p] = job'[p]]
    BY <2>2, Goes
  <2>5. JobIsBacked(job[p])'
    BY SMTT(40), <2>1, <2>2, <2>4 DEF JobIsBacked
  <2>6. refs = [d \in Branches |-> refs[d]] /\ sidecar = [d \in Changes |-> sidecar[d]]
    BY SMTT(40) DEF StoreInv, Backed
  <2>7. refs' = [d \in Branches |-> refs'[d]] /\ sidecar' = [d \in Changes |-> sidecar'[d]]
    BY <2>2, <2>6
  <2>8. j.env.id \in Ids(envelopes)
    BY SMTT(40), <2>1 DEF Ids
  <2>9. \A b \in Branches : refs'[b] = refs[b] \/ refs'[b] \in Ids(envelopes)
    BY ZenonT(40), <2>2, <2>6, <2>8
  <2>. QED BY Zenon, <2>2, <2>3, <2>4, <2>5, <2>7, <2>9, Assemble
<1>15. CASE ReadIndex(p)
  <2>1. j.env \in envelopes /\ index \in Seq(Entry)
    <3>1. j.step = "read_index" /\ JobIsBacked(j)
      BY SMTT(40), <1>1, <1>15 DEF ReadIndex
    <3>2. index \in Seq(Entry)
      BY DEF StoreInv, Backed
    <3>. QED BY ZenonT(40), <3>1, <3>2 DEF JobIsBacked
  <2>2. /\ UNCHANGED <<objects, files, now>>
        /\ Goto(p, [step |-> "index", cmd |-> j.cmd, env |-> j.env, index |-> index])
    BY SMTT(40), <1>15 DEF ReadIndex
  <2>3. envelopes' = envelopes /\ Entry' = Entry
    BY ZenonT(40), <2>2 DEF objects, Entry
  <2>4. /\ job'[p].step = "index" /\ job'[p].env = j.env /\ job'[p].index = index
        /\ job' = [job EXCEPT ![p] = job'[p]]
    BY <2>2, Goes
  <2>5. JobIsBacked(job[p])'
    BY ZenonT(40), <2>1, <2>3, <2>4 DEF JobIsBacked
  <2>. QED BY SMTT(40), <2>2, <2>4, <2>5, OnlyJob
<1>16. CASE WriteIndex(p)
  <2>1. j.env \in envelopes /\ j.index \in Seq(Entry)
    <3>1. j.step = "index" /\ JobIsBacked(j)
      BY SMTT(40), <1>1, <1>16 DEF WriteIndex
    <3>. QED BY SMTT(40), <3>1 DEF JobIsBacked
  <2>2. /\ envelopes' = envelopes /\ graphs' = graphs /\ drafts' = drafts /\ reports' = reports
        /\ found' = found /\ refs' = refs /\ sidecar' = sidecar /\ now' = now /\ Goto(p, None)
        /\ index' = update_snapshot_index(j.index, j.env)
    BY <1>16 DEF WriteIndex, objects
  <2>3. Grows
    BY SMTT(40), <2>2 DEF Grows, StoreInv, Backed
  <2>4. [id |-> j.env.id, created |-> j.env.created] \in Entry
    <3>1. j.env.created \in Nat
      BY <2>1 DEF StoreInv, Backed
    <3>. QED BY <2>1, <3>1 DEF Entry, Ids
  <2>5. index' \in Seq(Entry)
    BY <2>1, <2>2, <2>4, UpdatedIndex
  <2>6. Entry' = Entry
    BY <2>2 DEF Entry
  <2>7. refs = [d \in Branches |-> refs[d]] /\ sidecar = [d \in Changes |-> sidecar[d]]
    BY DEF StoreInv, Backed
  <2>8. refs' = [d \in Branches |-> refs'[d]] /\ sidecar' = [d \in Changes |-> sidecar'[d]]
    BY SMTT(40), <2>2, <2>7
  <2>9. job'[p] = None /\ job' = [job EXCEPT ![p] = job'[p]]
    BY <2>2, Goes
  <2>. QED BY ZenonT(40), <2>2, <2>3, <2>5, <2>6, <2>8, <2>9, Assemble
<1>17. ~At(p, "sweep")
  <2> SUFFICES ASSUME At(p, "sweep") PROVE FALSE
    BY ZenonT(40)
  <2>1. j.step = "sweep" /\ JobIsBacked(j)
    BY <1>1
  <2>. QED BY <2>1 DEF JobIsBacked
<1>18. ~Sweep(p) /\ ~SweepEnds(p)
  BY Zenon, <1>17 DEF Sweep, SweepEnds
<1>. QED
  BY ZenonT(40), <1>2, <1>3, <1>4, <1>5, <1>8, <1>9, <1>10, <1>11, <1>12, <1>13, <1>14, <1>15,
     <1>16, <1>18 DEF Step

-----------------------------------------------------------------------------
(* Without `ail gc`, in whatever order commands run, interleave and die, the *)
(* refs, the index, the sidecars and the envelopes of the store name only    *)
(* objects that are in it: save_snapshot and the commands before it write an *)
(* object before anything that names it.                                     *)
THEOREM StoreInvariant ==
  ASSUME "gc" \notin Commands
  PROVE  Spec => []StoreInv
<1>1. Init => StoreInv
  <2> SUFFICES ASSUME Init PROVE StoreInv
    OBVIOUS
  <2>1. /\ Genesis.id = <<"genesis">> /\ Genesis.graph = {} /\ Genesis.parent = None
        /\ Genesis.change = None /\ Genesis.report = None /\ Genesis.created = 0
    BY ZenonT(40) DEF Genesis, SnapshotEnvelope
  <2>2. Genesis.id \in Ids(envelopes)
    BY DEF Init, Ids
  <2>3. index = <<[id |-> Genesis.id, created |-> 0]>> /\ index \in Seq(Entry)
    <3>1. [id |-> Genesis.id, created |-> 0] \in Entry
      BY SMTT(40), <2>2 DEF Entry
    <3>. QED BY <3>1 DEF Init
  <2>4. CanList
    BY SMTT(40), <2>2, <2>3 DEF CanList
  <2>5. Closed(Genesis)
    BY SMTT(40), <2>1 DEF Init, Closed
  <2>6. NothingDangles
    BY ZenonT(40), <2>2, <2>4, <2>5 DEF NothingDangles, Init
  <2>7. found \in Views
    BY DEF Init, Views
  <2>8. Backed
    BY <2>1, <2>3, <2>7 DEF Backed, Init
  <2>. QED BY <2>6, <2>8 DEF StoreInv
<1>2. StoreInv /\ [Next]_vars => StoreInv'
  <2> SUFFICES ASSUME StoreInv, [Next]_vars PROVE StoreInv'
    BY SMTT(40)
  <2>1. CASE UNCHANGED vars
    BY ZenonT(40), <2>1 DEF vars, objects, files, StoreInv, NothingDangles, CanList, Closed, Ids,
                Backed, Views, Entry, Known, JobIsBacked
  <2>2. ASSUME NEW p \in Procs, Command(p) PROVE StoreInv'
    BY <2>2, CommandKeeps
  <2>3. ASSUME NEW p \in Procs, Step(p) PROVE StoreInv'
    BY <2>3, StepKeeps
  <2>4. ASSUME NEW p \in Procs, Crash(p) PROVE StoreInv'
    <3>1. job'[p] = None /\ job' = [job EXCEPT ![p] = job'[p]]
      BY ZenonT(40), <2>4, Goes DEF Crash
    <3>. QED BY <2>4, <3>1, OnlyJob DEF Crash
  <2>. QED BY <2>1, <2>2, <2>3, <2>4 DEF Next
<1>. QED
  BY <1>1, <1>2, PTL DEF Spec
=============================================================================
