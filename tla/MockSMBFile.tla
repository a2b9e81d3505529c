---------------------------- MODULE MockSMBFile ----------------------------
(***************************************************************************)
(* An open file of the in-memory backend, MockSMBFile of mock_smb.go, as   *)
(* operators on values: a content, a sequence of bytes, and an offset.     *)
(***************************************************************************)
EXTENDS Integers, Sequences

Zero == 0                    \* the byte that fills a gap

(* MockSMBFile.Read: up to n bytes from the offset on.                     *)
FileRead(content, at, n) ==
    SubSeq(content, at + 1, IF at + n < Len(content) THEN at + n ELSE Len(content))

(* MockSMBFile.Write: a write of nothing cuts the file at the offset; any  *)
(* other write replaces bytes and extends the file, filling a gap with     *)
(* zeros.                                                                  *)
FileWrite(content, at, data) ==
    IF data = << >>
    THEN SubSeq(content, 1, IF at < Len(content) THEN at ELSE Len(content))
    ELSE LET end == at + Len(data)
         IN  [i \in 1..(IF end > Len(content) THEN end ELSE Len(content)) |->
                 IF i > at /\ i <= end THEN data[i - at]
                 ELSE IF i <= Len(content) THEN content[i] ELSE Zero]

(* MockSMBFile.Seek: where the new offset would be; a negative one is      *)
(* refused by the caller of this operator.                                 *)
SeekTarget(content, at, off, whence) ==
    CASE whence = "start"   -> off
      [] whence = "current" -> at + off
      [] whence = "end"     -> Len(content) + off
============================================================================
