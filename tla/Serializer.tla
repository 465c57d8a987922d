----------------------------- MODULE Serializer -----------------------------
(* What the Coordinator promises its agents, without the mutex, the in-place *)
(* edits or the roll back: the authoritative graph moves from one valid      *)
(* graph to the next in single steps, each of which is one whole ChangeSet   *)
(* whose preconditions held, numbered by consecutive snapshot ids; and a     *)
(* ChangeSet written against another snapshot touches no node that the       *)
(* commit it lands on has touched.                                           *)
EXTENDS Integers, Sequences

CONSTANTS
    Apply(_, _),      \* the effect of an operation on a graph
    Valid(_),         \* structural validity of a graph
    Holds(_, _),      \* whether a precondition holds of a graph
    Touches(_),       \* the nodes a sequence of operations names by id
    InitialGraph, InitialId

VARIABLES
    accepted,      \* the authoritative graph
    snapshot,      \* its id
    history        \* commits: [base, cs, path, ...]

(* path is the run of ops from g: each operation in order, valid throughout. *)
IsRun(path, ops, g) ==
    /\ Len(path) = Len(ops) + 1
    /\ path[1] = g
    /\ \A i \in DOMAIN ops :
          /\ path[i + 1] = Apply(ops[i], path[i])
          /\ Valid(path[i + 1])

Init == accepted = InitialGraph /\ snapshot = InitialId /\ history = <<>>

(* A commit may not jump over a conflicting predecessor.                     *)
MayLand(entry) ==
    \/ entry.base = snapshot
    \/ history = <<>>
    \/ Touches(entry.cs.ops) \cap Touches(history[Len(history)].cs.ops) = {}

Commit ==
    LET entry == history'[Len(history) + 1]
    IN  /\ Len(history') = Len(history) + 1
        /\ history' = Append(history, entry)
        /\ \A i \in DOMAIN entry.cs.pre : Holds(entry.cs.pre[i], accepted)
        /\ MayLand(entry)
        /\ IsRun(entry.path, entry.cs.ops, accepted)
        /\ accepted' = entry.path[Len(entry.path)]
        /\ snapshot' = snapshot + 1

Spec == Init /\ [][Commit]_<<accepted, snapshot, history>>
=============================================================================
