----------------------------- MODULE IndexFile -----------------------------
(***************************************************************************)
(* The life of an index file <source>.blockIdx (IndexedCompFile in         *)
(* src/CompressedFile.cc): mounts look for it, read it, or build the block *)
(* list and write it, while other mounts may be doing the same, processes  *)
(* may be killed and the disk may be full.                                 *)
(*                                                                         *)
(* Every number of the index is read and written by a system call of its   *)
(* own at the descriptor's own offset, so each is a step.  csize and coff  *)
(* are taken together as one number, and a write that fails leaves nothing *)
(* (a number cut short reads as the end of the file, like no number).      *)
(***************************************************************************)
EXTENDS Integers, Sequences

CONSTANTS Mounts,       \* processes that mount; each may do so again and again
          Sources,      \* compressed files of formats that need an index
          Built,        \* source -> the block list that buildIndex finds
          Index,        \* source -> the path of its index file
          Null

Block == [usize : Nat, coff : Nat]

ASSUME IndexAssumption ==
    /\ \A f \in Sources :
        /\ Built[f] \in Seq(Block) /\ Len(Built[f]) >= 1
        /\ \A k \in 1..Len(Built[f]) : Built[f][k].usize # 0
    /\ Null \notin Sources
    /\ Null \notin Seq(Nat)

VARIABLES idx,          \* path -> the numbers in the index file, Null: no file
          pc,           \* where a mount is in opening a source
          file,         \* the source it opens
          mBlocks,      \* the block list it has so far
          pos,          \* its offset in the index file it reads or writes
          usize,        \* the usize it has just read
          harm,         \* history: was a mount killed, did a read, write or open fail?
          shared        \* history: index files emptied while another mount was writing

vars == <<idx, pc, file, mBlocks, pos, usize, harm, shared>>

Paths == {Index[f] : f \in Sources}

Init ==
    /\ idx = [p \in Paths |-> Null]
    /\ pc = [m \in Mounts |-> "off"]
    /\ file = [m \in Mounts |-> Null]
    /\ mBlocks = [m \in Mounts |-> <<>>]
    /\ pos = [m \in Mounts |-> 1]
    /\ usize = [m \in Mounts |-> 0]
    /\ harm = FALSE
    /\ shared = {}

-----------------------------------------------------------------------------
(* What writeIndex writes: the records of the blocks, then a usize of 0.   *)
Size(f) == 2 * Len(Built[f]) + 1
Number(f, i) ==
    IF i = Size(f) THEN 0
    ELSE IF i % 2 = 1 THEN Built[f][(i + 1) \div 2].usize ELSE Built[f][i \div 2].coff

(* Mutant of Put: O_APPEND.                                                *)
PutAtEnd(s, i, n) == Append(s, n)

(* A file with number n at offset i; a gap in front of it reads as zeros.  *)
Put(s, i, n) ==
    [k \in 1..(IF i <= Len(s) THEN Len(s) ELSE i) |->
        IF k = i THEN n ELSE IF k <= Len(s) THEN s[k] ELSE 0]

Here(m) == idx[Index[file[m]]]
Writes(m, f) == pc[m] = "write" /\ Index[file[m]] = Index[f]

(* FileList::add -> initialize: the source is there and of its format.     *)
Open(m, f) ==
    /\ pc[m] = "off"
    /\ pc' = [pc EXCEPT ![m] = "open"]
    /\ file' = [file EXCEPT ![m] = f]
    /\ UNCHANGED <<idx, mBlocks, pos, usize, harm, shared>>

(* Mutant of LookForIndex: readIndex without asking idxr.open().           *)
LookWithoutOpen(m) ==
    /\ pc[m] = "open"
    /\ pc' = [pc EXCEPT ![m] = "read"]
    /\ pos' = [pos EXCEPT ![m] = 1]
    /\ UNCHANGED <<idx, file, mBlocks, usize, harm, shared>>

(* loadIndex: a missing index file is ok to fail.                          *)
LookForIndex(m) ==
    /\ pc[m] = "open"
    /\ pc' = [pc EXCEPT ![m] = IF Here(m) = Null THEN "build" ELSE "read"]
    /\ pos' = [pos EXCEPT ![m] = 1]
    /\ UNCHANGED <<idx, file, mBlocks, usize, harm, shared>>

(* The index file is there but cannot be opened: this is ok to fail too.   *)
IndexUnreadable(m) ==
    /\ pc[m] = "open"
    /\ Here(m) # Null
    /\ pc' = [pc EXCEPT ![m] = "build"]
    /\ UNCHANGED <<idx, file, mBlocks, pos, usize, harm, shared>>

(* checkSizes: a file without blocks is refused.                           *)
Outcome(blocks) == IF blocks = <<>> THEN "skipped" ELSE "ready"

(* Mutant of ReadUsize: the end of the file is taken for the end of the    *)
(* index.                                                                  *)
ReadUsizeOrEnd(m) ==
    /\ pc[m] = "read"
    /\ LET n == IF pos[m] <= Len(Here(m)) THEN Here(m)[pos[m]] ELSE 0
       IN  /\ usize' = [usize EXCEPT ![m] = n]
           /\ pc' = [pc EXCEPT ![m] = IF n = 0 THEN Outcome(mBlocks[m]) ELSE "readRest"]
    /\ pos' = [pos EXCEPT ![m] = @ + 1]
    /\ UNCHANGED <<idx, file, mBlocks, harm, shared>>

(* readBlock, the first number: 0 ends the index.                          *)
ReadUsize(m) ==
    /\ pc[m] = "read"
    /\ pos[m] <= Len(Here(m))
    /\ LET n == Here(m)[pos[m]]
       IN  /\ usize' = [usize EXCEPT ![m] = n]
           /\ pc' = [pc EXCEPT ![m] = IF n = 0 THEN Outcome(mBlocks[m]) ELSE "readRest"]
    /\ pos' = [pos EXCEPT ![m] = @ + 1]
    /\ UNCHANGED <<idx, file, mBlocks, harm, shared>>

(* readBlock, the rest; readIndex adds the block.                          *)
ReadRest(m) ==
    /\ pc[m] = "readRest"
    /\ pos[m] <= Len(Here(m))
    /\ mBlocks' = [mBlocks EXCEPT ![m] =
                      Append(@, [usize |-> usize[m], coff |-> Here(m)[pos[m]]])]
    /\ pos' = [pos EXCEPT ![m] = @ + 1]
    /\ pc' = [pc EXCEPT ![m] = "read"]
    /\ UNCHANGED <<idx, file, usize, harm, shared>>

(* The index ends where a number should be: the EOFException that readBlock*)
(* throws passes loadIndex, and FileList::add skips the source.            *)
ReadEOF(m) ==
    /\ pc[m] \in {"read", "readRest"}
    /\ pos[m] > Len(Here(m))
    /\ pc' = [pc EXCEPT ![m] = "skipped"]
    /\ UNCHANGED <<idx, file, mBlocks, pos, usize, harm, shared>>

BuildIndex(m) ==
    /\ pc[m] = "build"
    /\ mBlocks' = [mBlocks EXCEPT ![m] = Built[file[m]]]
    /\ pc' = [pc EXCEPT ![m] = "create"]
    /\ UNCHANGED <<idx, file, pos, usize, harm, shared>>

(* FileHandle idxw(indexPath(), O_WRONLY | O_CREAT | O_TRUNC)              *)
CreateIndex(m) ==
    /\ pc[m] = "create"
    /\ idx' = [idx EXCEPT ![Index[file[m]]] = <<>>]
    /\ pos' = [pos EXCEPT ![m] = 1]
    /\ pc' = [pc EXCEPT ![m] = "write"]
    /\ shared' = IF \E n \in Mounts \ {m} : Writes(n, file[m])
                 THEN shared \cup {Index[file[m]]} ELSE shared
    /\ UNCHANGED <<file, mBlocks, usize, harm>>

(* Mutant of WriteNumber: writeIndex forgets the last usize of 0.          *)
WriteUnterminated(m) ==
    LET f == file[m]
    IN  /\ pc[m] = "write"
        /\ idx' = [idx EXCEPT ![Index[f]] = Put(@, pos[m], Number(f, pos[m]))]
        /\ pos' = [pos EXCEPT ![m] = @ + 1]
        /\ pc' = [pc EXCEPT ![m] = IF pos[m] = Size(f) - 1 THEN Outcome(mBlocks[m]) ELSE @]
        /\ UNCHANGED <<file, mBlocks, usize, harm, shared>>

(* writeIndex: the next number; after the last one the source is open.     *)
WriteNumber(m) ==
    LET f == file[m]
    IN  /\ pc[m] = "write"
        /\ idx' = [idx EXCEPT ![Index[f]] = Put(@, pos[m], Number(f, pos[m]))]
        /\ pos' = [pos EXCEPT ![m] = @ + 1]
        /\ pc' = [pc EXCEPT ![m] = IF pos[m] = Size(f) THEN Outcome(mBlocks[m]) ELSE @]
        /\ UNCHANGED <<file, mBlocks, usize, harm, shared>>

(* A read, the scan of the source or a write fails, or the index file      *)
(* cannot be created: the exception passes loadIndex and reaches           *)
(* FileList::add, which skips the source; the index file stays as it is.   *)
IOFails(m) ==
    /\ pc[m] \in {"read", "readRest", "build", "create", "write"}
    /\ pc' = [pc EXCEPT ![m] = "skipped"]
    /\ harm' = TRUE
    /\ UNCHANGED <<idx, file, mBlocks, pos, usize, shared>>

(* A process ends, unmounted or killed; nothing repairs the index file.    *)
Forget(m) ==
    /\ pc' = [pc EXCEPT ![m] = "off"]
    /\ file' = [file EXCEPT ![m] = Null]
    /\ mBlocks' = [mBlocks EXCEPT ![m] = <<>>]
    /\ pos' = [pos EXCEPT ![m] = 1]
    /\ usize' = [usize EXCEPT ![m] = 0]
    /\ UNCHANGED <<idx, shared>>

Unmount(m) ==
    /\ pc[m] \in {"ready", "skipped"}
    /\ Forget(m)
    /\ UNCHANGED harm

Crash(m) ==
    /\ pc[m] \notin {"off", "ready", "skipped"}
    /\ Forget(m)
    /\ harm' = TRUE

-----------------------------------------------------------------------------
Next == \E m \in Mounts :
            \/ \E f \in Sources : Open(m, f)
            \/ LookForIndex(m) \/ IndexUnreadable(m)
            \/ ReadUsize(m) \/ ReadRest(m) \/ ReadEOF(m)
            \/ BuildIndex(m) \/ CreateIndex(m) \/ WriteNumber(m) \/ IOFails(m)
            \/ Unmount(m) \/ Crash(m)

Spec == Init /\ [][Next]_vars

-----------------------------------------------------------------------------
Places == {"off", "open", "read", "readRest", "build", "create", "write", "ready", "skipped"}

TypeOK ==
    /\ idx \in [Paths -> Seq(Nat) \cup {Null}]
    /\ pc \in [Mounts -> Places]
    /\ file \in [Mounts -> Sources \cup {Null}]
    /\ \A m \in Mounts : file[m] = Null <=> pc[m] = "off"
    /\ \A m \in Mounts : pc[m] \in {"read", "readRest", "write"} => Here(m) # Null
    /\ mBlocks \in [Mounts -> Seq(Block)]
    /\ pos \in [Mounts -> Nat \ {0}]
    /\ \A m \in Mounts : pc[m] = "write" => pos[m] \in 1..Size(file[m])
    /\ usize \in [Mounts -> Nat]
    /\ harm \in BOOLEAN
    /\ shared \subseteq Paths

(* A source that is opened has all its blocks, whether its list was built  *)
(* or read, and whoever was killed, refused or writing meanwhile: a        *)
(* half-written index is never taken for a whole one, unless two mounts    *)
(* have written it at once (the second one's O_TRUNC leaves the first one  *)
(* writing behind a gap, and zeros end an index).                          *)
ServesWholeFile ==
    \A m \in Mounts :
        pc[m] = "ready" /\ Index[file[m]] \notin shared => mBlocks[m] = Built[file[m]]

Whole(f) == [i \in 1..Size(f) |-> Number(f, i)]

(* While nothing has failed, an index file that nobody writes is whole,    *)
(* also when several mounts found none and wrote it over one another.      *)
IndexLeftWhole ==
    ~harm => \A f \in Sources :
        \/ idx[Index[f]] \in {Null, Whole(f)}
        \/ \E m \in Mounts : Writes(m, f)

(* While nothing has failed, the one reason to skip a source is that       *)
(* another mount is just writing its index.                                *)
SkipsOnlyBesideWriter ==
    [][\A m \in Mounts :
          pc[m] # "skipped" /\ pc'[m] = "skipped" /\ ~harm' =>
              \E n \in Mounts \ {m} : Writes(n, file[m])]_vars
=============================================================================
