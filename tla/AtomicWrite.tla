----------------------------- MODULE AtomicWrite -----------------------------
(* ail-cli, store_file.rs: atomic_write, which replaces one file of the      *)
(* store by writing `<path>.tmp` and renaming it.  The temporary name is the *)
(* same for every writer of the file.  Names lead to inodes, and a writer    *)
(* keeps the inode it has opened whatever happens to the name.               *)
EXTENDS Integers, FiniteSets

CONSTANTS
    Writers,    \* processes that write the file
    Values,     \* what they may write
    Old,        \* what the file held before
    Torn,       \* any content that nobody meant to write
    None,
    MaxWrites   \* bound on the calls

ASSUME WriteAssumption == MaxWrites \in Nat /\ Old \in Values /\ Torn \notin Values

Inodes == 0..MaxWrites

VARIABLES
    path, tmp,  \* the inodes the two names lead to, or None
    data,       \* content of each inode
    call,       \* per writer: [step, value, fd, before], or None; before is what it replaces
    result,     \* per writer: outcome of its last call
    calls

vars == <<path, tmp, data, call, result, calls>>

Init ==
    /\ path = 0 /\ tmp = None
    /\ data = [i \in Inodes |-> IF i = 0 THEN Old ELSE Torn]
    /\ call = [w \in Writers |-> None]
    /\ result = [w \in Writers |-> None]
    /\ calls = 0

Set(w, c) == call' = [call EXCEPT ![w] = c]
At(w, step) == call[w] # None /\ call[w].step = step

(* Mutant: the target itself is opened.                                      *)
OpenInPlace(w, v) ==
    /\ call[w] = None /\ calls < MaxWrites
    /\ calls' = calls + 1
    /\ data' = [data EXCEPT ![path] = Torn]
    /\ Set(w, [step |-> "write", value |-> v, fd |-> path, before |-> data[path]])
    /\ UNCHANGED <<path, tmp, result>>

(* fs::write opens the temporary file, which it creates or truncates.        *)
Open(w, v) ==
    /\ call[w] = None /\ calls < MaxWrites
    /\ calls' = calls + 1
    /\ LET fd == IF tmp # None THEN tmp ELSE calls + 1
       IN  /\ tmp' = fd
           /\ data' = [data EXCEPT ![fd] = Torn]
           /\ Set(w, [step |-> "write", value |-> v, fd |-> fd, before |-> data[path]])
    /\ UNCHANGED <<path, result>>

(* Bytes written over those of another writer may leave a tail of theirs.    *)
Write(w) ==
    /\ At(w, "write")
    /\ \E content \in {call[w].value, Torn} :
          /\ content = Torn => data[call[w].fd] \in Values \ {call[w].value}
          /\ data' = [data EXCEPT ![call[w].fd] = content]
    /\ Set(w, [call[w] EXCEPT !.step = "rename"])
    /\ UNCHANGED <<path, tmp, result, calls>>

(* Mutant: the rename is left out.                                           *)
RenameLeftOut(w) ==
    /\ At(w, "rename")
    /\ tmp' = None /\ path' = path
    /\ Set(w, [call[w] EXCEPT !.step = "return"])
    /\ UNCHANGED <<data, result, calls>>

Rename(w) ==
    /\ At(w, "rename") /\ tmp # None
    /\ path' = tmp /\ tmp' = None
    /\ Set(w, [call[w] EXCEPT !.step = "return"])
    /\ UNCHANGED <<data, result, calls>>

Return(w) ==
    /\ At(w, "return")
    /\ result' = [result EXCEPT ![w] = "Ok"]
    /\ Set(w, None)
    /\ UNCHANGED <<path, tmp, data, calls>>

(* fs::write or fs::rename returns an error (the disk is full, another       *)
(* writer has taken the temporary file away): what was written stays.        *)
IoError(w) ==
    /\ At(w, "write") \/ At(w, "rename")
    /\ result' = [result EXCEPT ![w] = "Err"]
    /\ Set(w, None)
    /\ UNCHANGED <<path, tmp, data, calls>>

(* The writer dies: what it has written stays.                               *)
Crash(w) ==
    /\ call[w] # None
    /\ Set(w, None)
    /\ result' = [result EXCEPT ![w] = None]
    /\ UNCHANGED <<path, tmp, data, calls>>

Next == \E w \in Writers :
    \/ \E v \in Values : Open(w, v)
    \/ Write(w) \/ Rename(w) \/ Return(w) \/ IoError(w) \/ Crash(w)

Spec == Init /\ [][Next]_vars

-----------------------------------------------------------------------------
(* A reader of the file never sees part of a write, though a writer may die  *)
(* at any point and leave its temporary file for the next one.               *)
ReadersSeeWholeWrites == data[path] \in Values

(* A call that returns Ok has made the file hold what it was given, one that *)
(* returns an error has not changed it, one that dies has done all or none.  *)
Outcome ==
    \A w \in Writers : call[w] # None /\ call'[w] = None =>
        data'[path'] \in CASE result'[w] = "Ok"  -> {call[w].value}
                           [] result'[w] = "Err" -> {call[w].before}
                           [] OTHER              -> {call[w].before, call[w].value}

WritesAreAllOrNothing == [][Outcome]_vars
=============================================================================
