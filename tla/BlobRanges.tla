----------------------------- MODULE BlobRanges -----------------------------
(***************************************************************************)
(* Reading a part of a blob: what the three backends make of the offset    *)
(* and the length of DownloadOptions.  A blob is the sequence of its bytes *)
(* 1..n; offsets and lengths are size_t, which wraps.                      *)
(***************************************************************************)
EXTENDS Integers, Sequences

CONSTANTS SizeMax,       \* the largest size_t
          MaxBytes       \* bound on the size of a blob

ASSUME SizeAssumption == MaxBytes \in Nat /\ SizeMax \in Nat /\ SizeMax > MaxBytes

VARIABLES rgcase, rgout
rangeVars == <<rgcase, rgout>>

NotGiven == -1
RangeNumbers == {NotGiven, SizeMax} \cup 0..(MaxBytes + 1)
RangeCases == [backend : {"memory", "fs", "s3"}, size : 0..MaxBytes, offset : RangeNumbers, length : RangeNumbers]

Unsent200 == [ok |-> FALSE, bytes |-> <<>>]
SentBytes(b) == [ok |-> TRUE, bytes |-> b]
RangeError == [ok |-> FALSE, bytes |-> <<0>>]
InitRanges == rgcase \in RangeCases /\ rgout = Unsent200

Bytes(n) == [i \in 1..n |-> i]
SizeT(n) == n % (SizeMax + 1)
OrElse(x, default) == IF x = NotGiven THEN default ELSE x
Least(x, y) == IF x < y THEN x ELSE y
NoRange(q) == q.offset = NotGiven /\ q.length = NotGiven

(* The length left of an offset past the end wraps, and is not used.       *)
memory_download(q) ==
    LET offset == OrElse(q.offset, 0)
        length == Least(OrElse(q.length, SizeT(q.size - offset)), q.size - offset)
    IN IF NoRange(q) THEN SentBytes(Bytes(q.size))
       ELSE IF offset >= q.size THEN RangeError
       ELSE SentBytes(SubSeq(Bytes(q.size), offset + 1, offset + length))

(* From a file, with the same arithmetic.                                  *)
fs_download(q) == memory_download(q)

(* A range is inclusive at both ends, may lack the last, is cut at the end *)
(* of the object, refused behind it, and ignored when it ends before it    *)
(* begins.                                                                 *)
S3Get(size, first, last) ==
    IF last # NotGiven /\ last < first THEN SentBytes(Bytes(size))
    ELSE IF first >= size THEN RangeError
    ELSE SentBytes(SubSeq(Bytes(size), first + 1, IF last = NotGiven THEN size ELSE Least(last + 1, size)))

s3_download(q) ==
    LET offset == OrElse(q.offset, 0)
    IN IF NoRange(q) THEN SentBytes(Bytes(q.size))
       ELSE S3Get(q.size, offset, IF q.length = NotGiven THEN NotGiven ELSE SizeT(offset + q.length - 1))

ReadRange ==
    /\ rgout = Unsent200
    /\ rgout' = CASE rgcase.backend = "memory" -> memory_download(rgcase)
                  [] rgcase.backend = "fs" -> fs_download(rgcase)
                  [] rgcase.backend = "s3" -> s3_download(rgcase)
    /\ UNCHANGED rgcase

SpecRanges == InitRanges /\ [][ReadRange]_rangeVars

-----------------------------------------------------------------------------
(* The positions a caller means, without arithmetic that can wrap.         *)
InRange(q, i) ==
    /\ i > OrElse(q.offset, 0)
    /\ q.length # NotGiven => i - OrElse(q.offset, 0) <= q.length

(* A range read that succeeds answers exactly the bytes of the blob inside *)
(* the range, on memory_download, fs_download and s3_download alike.  S3   *)
(* takes a length of zero, and one that wraps the end, for no range.       *)
RangeIsExact ==
    rgout.ok /\ (rgcase.backend = "s3" => rgcase.length # 0 /\ OrElse(rgcase.offset, 0) + rgcase.length <= SizeMax) =>
        /\ \A i \in 1..rgcase.size :
              InRange(rgcase, i) <=> \E j \in DOMAIN rgout.bytes : rgout.bytes[j] = i
        /\ \A j \in DOMAIN rgout.bytes : rgout.bytes[j] = rgout.bytes[1] + j - 1

(* A range that begins inside the blob is answered, however long it is,    *)
(* and a read without a range always is.                                   *)
ReadableIsRead ==
    rgout # Unsent200 /\ (NoRange(rgcase) \/ OrElse(rgcase.offset, 0) < rgcase.size) => rgout.ok
=============================================================================
