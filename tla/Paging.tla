------------------------------- MODULE Paging -------------------------------
(***************************************************************************)
(* The page arithmetic the two listings share: page numbers and sizes are  *)
(* int32, and so is the offset computed from them.  The width and the size *)
(* limits are parameters, so that TLC meets the overflow.                  *)
(***************************************************************************)
EXTENDS Integers, Sequences, SequencesExt

CONSTANTS
    Width,        \* bits of a page number: 32 in the code
    DefaultSize,  \* page_size when none is given: 20
    MaxSize,      \* the largest page_size: 100
    AskedPages, AskedSizes \* page and page_size values clients send

ASSUME PagingAssumption ==
    /\ Width \in Nat \ {0} /\ 2^(Width - 1) \in Nat
    /\ MaxSize \in Nat /\ DefaultSize \in 1..MaxSize
    /\ MaxSize < 2^(Width - 1)

Half == 2^(Width - 1)
Signed == (-Half)..(Half - 1)
Unsigned == 0..(2 * Half - 1)

(* Two's complement: what int32 keeps of an integer.                       *)
Int32(n) ==
    LET low == n % (2 * Half) IN IF low < Half THEN low ELSE low - 2 * Half

(* JSON numbers outside int32 do not decode; the uint32 of the protobuf    *)
(* PageRequest is converted.                                               *)
Transports == {"http", "grpc"}
Sent(transport) == IF transport = "http" THEN Signed ELSE Unsigned
Received(transport, n) == IF transport = "http" THEN n ELSE Int32(n)

PageOf(page) == IF page < 1 THEN 1 ELSE page

SizeOf(size) ==
    IF size < 1 THEN DefaultSize ELSE IF size > MaxSize THEN MaxSize ELSE size

(* Faulty variant: pages counted from 0.                                   *)
OffsetFromZero(page, size) == Int32(page * size)

Offset(page, size) == Int32((page - 1) * size)
Overflows(page, size) == Offset(page, size) # (page - 1) * size

(* ORDER BY and slices.SortFunc: the elements of S in their order.         *)
Sorted(S, Before(_, _)) ==
    CHOOSE s \in SetToSeqs(S) : \A m, n \in DOMAIN s : m < n => Before(s[m], s[n])

Slice(list, offset, size) ==
    SubSeq(list, offset + 1, IF offset + size < Len(list) THEN offset + size ELSE Len(list))
=============================================================================
