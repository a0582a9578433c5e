----------------------------- MODULE RingBuffer -----------------------------
(***************************************************************************)
(* lwrb, the ring buffer between an interrupt handler and a task: one side *)
(* only writes, the other only reads, without a lock.  Each side loads the *)
(* pointer of the other once, copies, and stores its own pointer at last;  *)
(* the other side may take steps between any two of these.                 *)
(***************************************************************************)
EXTENDS Integers, Sequences, FiniteSetsExt

CONSTANTS
    Size,    \* size of the memory, one more than what fits
    Byte     \* the values of a byte

ASSUME RingAssumption == Size \in Nat \ {0, 1} /\ Byte # {}

Cells == 0 .. Size - 1

VARIABLES
    buff,
    w_ptr,
    r_ptr,
    ringWriter,  \* where the writing side is, and what it puts in
    ringReader   \* where the reading side is, and what it took out

ringVars == <<buff, w_ptr, r_ptr, ringWriter, ringReader>>

---------------------------------------------------------------------------
(* lwrb_get_full() and lwrb_get_free() from the values of the pointers.    *)
Full(w, r) == IF w >= r THEN w - r ELSE Size - (r - w)

(* Mutant: the cell that tells a full buffer from an empty one is used. *)
FreeAll(w, r) == IF w >= r THEN Size - (w - r) ELSE r - w

Free(w, r) == (IF w >= r THEN Size - (w - r) ELSE r - w) - 1

(* How much can be read, or written, in one piece: lwrb_get_linear_block_  *)
(* read_length() and lwrb_get_linear_block_write_length().                 *)
LinearRead(w, r) == IF w > r THEN w - r ELSE IF r > w THEN Size - r ELSE 0
LinearWrite(w, r) ==
    IF w >= r THEN Size - w - (IF r = 0 THEN 1 ELSE 0) ELSE r - w - 1

(* A position that ran over the end goes on at the beginning. *)
Wrapped(p) == IF p >= Size THEN p - Size ELSE p

CellsFrom(p, n) == {Wrapped(p + i) : i \in 0 .. n - 1}
Copied(p, n) == [i \in 1 .. n |-> buff[Wrapped(p + i - 1)]]

(* The bytes that were written and not yet read. *)
RingContents == Copied(r_ptr, Full(w_ptr, r_ptr))

(* lwrb_find(): where the needle is, at or after start; none, or one place.*)
Find(needle, start) ==
    LET Matches(x) == \A i \in 1 .. Len(needle) :
                        buff[Wrapped(Wrapped(r_ptr + x) + i - 1)] = needle[i]
        places == {x \in start .. Full(w_ptr, r_ptr) - Len(needle) : Matches(x)}
    IN  IF places = {} THEN {} ELSE {Min(places)}

RingInit ==
    /\ buff = [c \in Cells |-> CHOOSE b \in Byte : TRUE]
    /\ w_ptr = 0 /\ r_ptr = 0
    /\ ringWriter = [at |-> "idle", data |-> <<>>]
    /\ ringReader = [at |-> "idle", kind |-> "read", skip |-> 0, n |-> 0, data |-> <<>>]

---------------------------------------------------------------------------
(* lwrb_write_ex(): how much fits is computed from the pointers as of now. *)
(* With nothing free, or too little for all of the data, it returns.       *)
WriteBegin(data, all) ==
    LET free == Free(w_ptr, r_ptr) IN
    /\ ringWriter.at = "idle"
    /\ free > 0
    /\ all => Len(data) <= free
    /\ ringWriter' = [at |-> "copy", data |-> SubSeq(data, 1, Min({free, Len(data)}))]
    /\ UNCHANGED <<buff, w_ptr, r_ptr, ringReader>>

(* The part up to the end of the memory, and the rest at its beginning. *)
WriteCopy ==
    /\ ringWriter.at = "copy"
    /\ buff' = [c \in Cells |->
                  IF c \in CellsFrom(w_ptr, Len(ringWriter.data))
                  THEN ringWriter.data[1 + (IF c >= w_ptr THEN c - w_ptr ELSE c - w_ptr + Size)]
                  ELSE buff[c]]
    /\ ringWriter' = [ringWriter EXCEPT !.at = "store"]
    /\ UNCHANGED <<w_ptr, r_ptr, ringReader>>

WriteStore ==
    /\ ringWriter.at = "store"
    /\ w_ptr' = Wrapped(w_ptr + Len(ringWriter.data))
    /\ ringWriter' = [at |-> "idle", data |-> <<>>]
    /\ UNCHANGED <<buff, r_ptr, ringReader>>

(* lwrb_advance(): the bytes are already in the memory, and only the       *)
(* pointer moves, over no more than is free.                               *)
Advance(n) ==
    /\ ringWriter.at = "idle"
    /\ ringWriter' = [at |-> "store", data |-> Copied(w_ptr, Min({n, Free(w_ptr, r_ptr)}))]
    /\ UNCHANGED <<buff, w_ptr, r_ptr, ringReader>>

---------------------------------------------------------------------------
(* lwrb_read_ex(), lwrb_peek() and lwrb_skip() compute how much there is   *)
(* as of now.  Only a peek leaves out some bytes before those it copies.   *)
ReadBegin(kind, skip, n, all) ==
    LET full == Full(w_ptr, r_ptr) IN
    /\ ringReader.at = "idle"
    /\ kind # "skip" => skip < full
    /\ all => n <= full
    /\ ringReader' = [at |-> IF kind = "skip" THEN "store" ELSE "copy", kind |-> kind,
                      skip |-> skip, n |-> Min({full - skip, n}), data |-> <<>>]
    /\ UNCHANGED <<buff, w_ptr, r_ptr, ringWriter>>

ReadCopy ==
    /\ ringReader.at = "copy"
    /\ ringReader' = [ringReader EXCEPT
                        !.at = "store",
                        !.data = Copied(Wrapped(r_ptr + ringReader.skip), ringReader.n)]
    /\ UNCHANGED <<buff, w_ptr, r_ptr, ringWriter>>

(* A peek has no pointer to store. *)
ReadStore ==
    /\ ringReader.at = "store"
    /\ r_ptr' = IF ringReader.kind = "peek" THEN r_ptr ELSE Wrapped(r_ptr + ringReader.n)
    /\ ringReader' = [ringReader EXCEPT !.at = "idle", !.skip = 0, !.n = 0]
    /\ UNCHANGED <<buff, w_ptr, ringWriter>>

(* lwrb_reset(), from which both sides have to keep away. *)
RingReset ==
    /\ ringWriter.at = "idle" /\ ringReader.at = "idle"
    /\ w_ptr' = 0 /\ r_ptr' = 0
    /\ UNCHANGED <<buff, ringWriter, ringReader>>

---------------------------------------------------------------------------
RingRequests == 1 .. Size

RingWrites == \/ \E n \in RingRequests, all \in BOOLEAN : \E data \in [1 .. n -> Byte] : WriteBegin(data, all)
              \/ \E n \in RingRequests : Advance(n)
              \/ WriteCopy \/ WriteStore

RingReads == \/ \E n \in RingRequests, all \in BOOLEAN : ReadBegin("read", 0, n, all)
             \/ \E n \in RingRequests, skip \in 0 .. Size : ReadBegin("peek", skip, n, FALSE)
             \/ \E n \in RingRequests : ReadBegin("skip", 0, n, FALSE)
             \/ ReadCopy \/ ReadStore

RingNext == RingWrites \/ RingReads \/ RingReset

RingSpec == RingInit /\ [][RingNext]_ringVars

---------------------------------------------------------------------------
RingTypeOK ==
    /\ buff \in [Cells -> Byte]
    /\ w_ptr \in Cells /\ r_ptr \in Cells
    /\ ringWriter \in [at : {"idle", "copy", "store"}, data : Seq(Byte)]
    /\ ringReader \in [at : {"idle", "copy", "store"}, kind : {"read", "peek", "skip"},
                       skip : 0 .. Size, n : 0 .. Size, data : Seq(Byte)]

(* The writing side never touches a cell that the reading side may be      *)
(* copying: what it writes lies outside of what is in the buffer.          *)
SidesApart ==
    ringWriter.at # "idle" =>
        CellsFrom(w_ptr, Len(ringWriter.data)) \cap CellsFrom(r_ptr, Full(w_ptr, r_ptr)) = {}

(* The lengths in one piece are the largest that neither leave the memory  *)
(* nor the bytes, or the room, there is; a search finds the first place at *)
(* which the bytes that would be read are the needle.                      *)
QueriesAgree ==
    /\ LinearRead(w_ptr, r_ptr) = Min({Full(w_ptr, r_ptr), Size - r_ptr})
    /\ LinearWrite(w_ptr, r_ptr) = Min({Free(w_ptr, r_ptr), Size - w_ptr})
    /\ \A n \in 1 .. 2, start \in 0 .. Size : \A needle \in [1 .. n -> Byte], x \in 0 .. Size :
         x \in Find(needle, start) <=>
             /\ x >= start /\ x + n <= Len(RingContents) /\ SubSeq(RingContents, x + 1, x + n) = needle
             /\ \A y \in start .. x - 1 : SubSeq(RingContents, y + 1, y + n) # needle

(* The steps of both sides, interleaved in any way, are those of a fifo:   *)
(* a write takes effect when its pointer is stored, a read when its own is,*)
(* and what was copied before is what is at the front at that time.        *)
RingFifo == INSTANCE ByteFifo WITH
          Capacity <- Size - 1,
          fifo <- RingContents,
          got <- IF ringReader.at = "idle" THEN ringReader.data ELSE <<>>
ImplementsByteFifo == RingFifo!FifoSpec
=============================================================================
