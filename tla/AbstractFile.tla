---------------------------- MODULE AbstractFile ----------------------------
(***************************************************************************)
(* What one open regular file promises its process, without blocks: the   *)
(* file is a sequence of bytes and a position.  sys_write appends (spec:  *)
(* "treat writes as append"), sys_read returns the bytes from the          *)
(* position on, clipped to the end of the file, and sys_lseek moves the    *)
(* position within the file.  Any call may fail and change nothing but its *)
(* return value.  Bytes carry the FileRW data abstraction: the byte at     *)
(* file offset p has the value p + 1.                                      *)
(*                                                                         *)
(* After a write the position is i_size - 1 (mod 2^32), the last byte      *)
(* written: that is the rule of file_write, where the spec's "update fd_pos *)
(* by chunk_size" from i_size would leave it at i_size.  FileRW            *)
(* implements this module under the mapping in FileRW.                     *)
(***************************************************************************)
EXTENDS Integers, Sequences

CONSTANTS
    Capacity,      \* the largest file, in bytes
    PosWord,       \* the range of the uint32_t position
    WriteCounts, ReadCounts, SeekOffsets

VARIABLES content, fd_pos, ret, last_read

AbsInt32(x) == IF x >= PosWord \div 2 THEN x - PosWord ELSE x

Init ==
    /\ content = <<>>
    /\ fd_pos = 0
    /\ ret = 0
    /\ last_read = [from |-> 0, data |-> <<>>]

\* A call that fails: -1, nothing else visible changes.
Refuse == ret' = -1 /\ UNCHANGED <<content, fd_pos, last_read>>

Write(n) ==
    \/ Refuse
    \/ /\ Len(content) + n <= Capacity
       /\ content' = content \o [j \in 1 .. n |-> Len(content) + j]
       /\ fd_pos' = (Len(content) + n - 1) % PosWord
       /\ ret' = n
       /\ UNCHANGED last_read

\* The bytes from fd_pos on, at most n of them; none left is a refusal.
Read(n) ==
    LET size == IF fd_pos + n > Len(content) THEN Len(content) - fd_pos ELSE n
    IN  \/ Refuse
        \/ /\ fd_pos < Len(content) /\ size > 0
           /\ last_read' = [from |-> fd_pos, data |-> SubSeq(content, fd_pos + 1, fd_pos + size)]
           /\ fd_pos' = fd_pos + size
           /\ ret' = size
           /\ UNCHANGED content

\* The new position must name a byte of the file.
Lseek(whence, offset) ==
    LET new_pos == CASE whence = 1 -> offset
                     [] whence = 2 -> AbsInt32(fd_pos) + offset
                     [] whence = 3 -> Len(content) + offset
    IN  \/ Refuse
        \/ /\ 0 <= new_pos /\ new_pos < Len(content)
           /\ fd_pos' = new_pos /\ ret' = new_pos
           /\ UNCHANGED <<content, last_read>>

Next ==
    \/ \E n \in WriteCounts : Write(n)
    \/ \E n \in ReadCounts : Read(n)
    \/ \E w \in {1, 2, 3}, o \in SeekOffsets : Lseek(w, o)

Spec == Init /\ [][Next]_<<content, fd_pos, ret, last_read>>

====
