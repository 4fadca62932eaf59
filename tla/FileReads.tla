----------------------------- MODULE FileReads -----------------------------
(***************************************************************************)
(* What lzopfs promises to whoever reads a synthetic file: a read behaves  *)
(* as if the file was uncompressed.  It returns the bytes of the file from *)
(* the offset on, up to the requested size or the end of the file, in one  *)
(* step; readers do not affect each other.                                 *)
(***************************************************************************)
EXTENDS CompressedFile

CONSTANTS Readers,
          Requests,     \* records [file, off, size]
          Null

VARIABLES reading,      \* the request each reader waits for, or Null
          reply         \* what each reader has been given, or Null

readVars == <<reading, reply>>

(* The position behind the last byte a request can get.                    *)
RequestEnd(q) ==
    IF q.off + q.size <= UncompressedSize(q.file)
    THEN q.off + q.size ELSE UncompressedSize(q.file)

(* Pairs of an index of the caller's buffer and the byte that belongs there*)
Contents(q) ==
    {<<o - q.off, [file |-> q.file, at |-> o]>> : o \in q.off..RequestEnd(q) - 1}

Init ==
    /\ reading = [r \in Readers |-> Null]
    /\ reply = [r \in Readers |-> Null]

Begin(r, q) ==
    /\ reading[r] = Null
    /\ reading' = [reading EXCEPT ![r] = q]
    /\ UNCHANGED reply

Finish(r) ==
    /\ reading[r] # Null /\ reply[r] = Null
    /\ reply' = [reply EXCEPT ![r] =
                    [bytes |-> Contents(reading[r]),
                     count |-> RequestEnd(reading[r]) - reading[r].off]]
    /\ UNCHANGED reading

Acknowledge(r) ==
    /\ reply[r] # Null
    /\ reading' = [reading EXCEPT ![r] = Null]
    /\ reply' = [reply EXCEPT ![r] = Null]

Next == \E r \in Readers :
            \/ \E q \in Requests : Begin(r, q)
            \/ Finish(r)
            \/ Acknowledge(r)

Spec == Init /\ [][Next]_readVars
=============================================================================
