---------------------------- MODULE PayloadStore ----------------------------
(***************************************************************************)
(* The files of a payload (src/payload/file_map.rs, src/payload/store.rs). *)
(* A slice of the payload is split at the borders of the files, and each   *)
(* part is written by a seek and a write under the lock of its file, while *)
(* other workers write parts of their own.                                 *)
(*                                                                         *)
(* The right byte at an offset of the payload is the offset plus one, so   *)
(* that a byte in a wrong place can be told; 0 has not been written.       *)
(***************************************************************************)
EXTENDS Integers, FiniteSets, Sequences

CONSTANTS
  Layouts,      \* the lengths of the files of a manifest; all 0 if unknown
  Writers,      \* the workers
  MaxPart,      \* bytes of a slice
  MaxOffset     \* bound: of a slice of a payload of unknown size

VARIABLES
  layout,       \* the segments of the FileMap
  disk,         \* the bytes of each file
  cursor,       \* the position of each file handle
  holder,       \* who holds the lock of each handle
  writing       \* of each worker: its slice and the parts that are left

payloadVars == <<layout, disk, cursor, holder, writing>>

NotWriting == [pc |-> "idle", offset |-> 0, size |-> 0, parts |-> <<>>]
NobodyHolds == "nobody"

ASSUME PayloadAssumption ==
  /\ Layouts \subseteq Seq(Nat) \ {<<>>}
  /\ MaxPart \in Nat /\ MaxOffset \in Nat
  /\ NobodyHolds \notin Writers

Segments == DOMAIN layout

(* FileMap::from_manifest *)
EndOf(k) == LET end[i \in 0 .. k] == IF i = 0 THEN 0 ELSE end[i - 1] + layout[i] IN end[k]
StartOf(k) == EndOf(k) - layout[k]
Total == EndOf(Len(layout))
Bounded == Total > 0
Least(a, b) == IF a < b THEN a ELSE b
Largest(a, b) == IF a > b THEN a ELSE b

PayloadInit ==
  /\ layout \in Layouts
  /\ disk = [k \in Segments |-> [p \in 0 .. MaxOffset + MaxPart |-> 0]]
  /\ cursor = [k \in Segments |-> 0] /\ holder = [k \in Segments |-> NobodyHolds]
  /\ writing = [w \in Writers |-> NotWriting]

(* resolve_writes, one segment after the other *)
Take(k, r) ==
  LET from == Largest(r.start, StartOf(k))
      n == Least(EndOf(k) - from, r.left)
  IN IF r.left = 0 \/ from >= EndOf(k) THEN r
     ELSE [start |-> from + n, left |-> r.left - n, sent |-> r.sent + n,
           parts |-> Append(r.parts, [file |-> k, at |-> from - StartOf(k),
                                      first |-> r.sent, size |-> n])]

ResolveWrites(offset, size) ==
  LET none == [start |-> offset, left |-> size, sent |-> 0, parts |-> <<>>]
      upTo[k \in 0 .. Len(layout)] ==
        IF k = 0 THEN none ELSE LET r == upTo[k - 1] IN Take(k, r)
  IN IF ~Bounded THEN <<[file |-> 1, at |-> offset, first |-> 0, size |-> size]>>
     ELSE upTo[Len(layout)].parts

(* write_at: out of bounds is an error and changes nothing. *)
WriteAt(w) ==
  /\ writing[w].pc = "idle"
  /\ \E offset \in 0 .. MaxOffset, size \in 1 .. MaxPart :
       /\ Bounded => offset + size <= Total
       /\ writing' = [writing EXCEPT ![w] =
            [pc |-> "lock", offset |-> offset, size |-> size,
             parts |-> ResolveWrites(offset, size)]]
  /\ UNCHANGED <<layout, disk, cursor, holder>>

Part(w) == Head(writing[w].parts)

(* Mutated form of Lock: the handle is used without its lock. *)
LockNothing(w) ==
  /\ writing[w].pc = "lock" /\ writing[w].parts # <<>>
  /\ cursor' = [cursor EXCEPT ![Part(w).file] = Part(w).at]
  /\ writing' = [writing EXCEPT ![w].pc = "write"]
  /\ UNCHANGED <<layout, disk, holder>>

Lock(w) ==
  /\ writing[w].pc = "lock" /\ writing[w].parts # <<>>
  /\ holder[Part(w).file] = NobodyHolds
  /\ holder' = [holder EXCEPT ![Part(w).file] = w]
  /\ cursor' = [cursor EXCEPT ![Part(w).file] = Part(w).at]
  /\ writing' = [writing EXCEPT ![w].pc = "write"]
  /\ UNCHANGED <<layout, disk>>

(* write_all is not flushed: tokio may still have the write in flight when  *)
(* it returns, and gives its error to the next use of the handle.  disk is *)
(* the file with that write done; writes that fail are left out.           *)
WriteAll(w) ==
  LET part == Part(w)
      k == part.file
      Sent(p) == writing[w].offset + part.first + (p - cursor[k]) + 1
  IN
  /\ writing[w].pc = "write"
  /\ disk' = [disk EXCEPT ![k] = [p \in DOMAIN disk[k] |->
       IF p \in cursor[k] .. cursor[k] + part.size - 1 THEN Sent(p) ELSE disk[k][p]]]
  /\ cursor' = [cursor EXCEPT ![k] = @ + part.size]
  /\ holder' = [holder EXCEPT ![k] = NobodyHolds]
  /\ writing' = [writing EXCEPT ![w].pc = "lock", ![w].parts = Tail(@)]
  /\ UNCHANGED layout

(* write_at returns; the slice is not told from later ones. *)
Written(w) ==
  /\ writing[w].pc = "lock" /\ writing[w].parts = <<>>
  /\ writing' = [writing EXCEPT ![w].pc = "done"]
  /\ UNCHANGED <<layout, disk, cursor, holder>>

PayloadNext == \E w \in Writers : WriteAt(w) \/ Lock(w) \/ WriteAll(w) \/ Written(w)

-----------------------------------------------------------------------------

PayloadTypeOK ==
  /\ layout \in Layouts
  /\ \A k \in Segments : cursor[k] \in DOMAIN disk[k] /\ holder[k] \in Writers \cup {NobodyHolds}
  /\ \A w \in Writers : writing[w].pc \in {"idle", "lock", "write", "done"}

(* Where a byte of the payload belongs: the one file that it is inside of. *)
FileOfByte(g) == IF Bounded THEN CHOOSE k \in Segments : g \in StartOf(k) .. EndOf(k) - 1 ELSE 1
PlaceOfByte(g) == IF Bounded THEN g - StartOf(FileOfByte(g)) ELSE g

(* Slices land where they belong, across the borders of files and past     *)
(* empty ones, whatever is written at the same time: no byte of a file is  *)
(* wrong, none beyond its length is touched, and all bytes of a write that *)
(* has returned are there.                                                 *)
BytesAreInPlace ==
  /\ \A k \in Segments : \A p \in DOMAIN disk[k] :
       disk[k][p] # 0 =>
         IF Bounded THEN p < layout[k] /\ disk[k][p] = StartOf(k) + p + 1
                    ELSE k = 1 /\ disk[k][p] = p + 1
  /\ \A w \in Writers : writing[w].pc = "done" =>
       \A g \in writing[w].offset .. writing[w].offset + writing[w].size - 1 :
         disk[FileOfByte(g)][PlaceOfByte(g)] = g + 1
=============================================================================
