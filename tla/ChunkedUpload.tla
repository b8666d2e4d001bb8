---------------------------- MODULE ChunkedUpload ----------------------------
(***************************************************************************)
(* How LocalChunkUploader cuts a file of n bytes into parts.  Bytes are    *)
(* numbered from 1.                                                        *)
(***************************************************************************)
EXTENDS Integers

CONSTANT ChunkSize

ASSUME ChunkSizeAssumption == ChunkSize \in Nat \ {0}

Min2(a, b) == IF a < b THEN a ELSE b

PlanParts(n) == IF n <= 0 THEN 1 ELSE (n + ChunkSize - 1) \div ChunkSize

\* The bytes of part p: read stops at the end of the file.
PartBytes(n, p) == (p - 1) * ChunkSize + 1 .. Min2(p * ChunkSize, n)

NoObject == [size |-> -1, data |-> {}, cached |-> {}]

\* Mutant: made anew by every upload, parts recorded as done or not.
PreallocateAlways(object, n) == [size |-> n, data |-> {}, cached |-> {}]

\* The target is made anew unless it has the size of the source.
Preallocate(object, n) ==
    IF object.size = n THEN object ELSE [size |-> n, data |-> {}, cached |-> {}]

\* Written and flushed, but not synced to the disk.
WritePart(object, n, p) ==
    [object EXCEPT !.data = @ \cup PartBytes(n, p), !.cached = @ \cup PartBytes(n, p)]

\* What is left of an object when the power fails and only the bytes in kept, of those
\* in the cache, have reached the disk.
AfterPowerCut(object, kept) ==
    [object EXCEPT !.data = (@ \ object.cached) \cup kept, !.cached = {}]
=============================================================================
