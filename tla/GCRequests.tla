----------------------------- MODULE GCRequests -----------------------------
(***************************************************************************)
(* What the end of a garbage collection asks of the disk.  HandleGC         *)
(* (src/base/layer_module.c) joins the copies that follow each other in one *)
(* block into one write, and the disk (src/base/disk_operator.c,            *)
(* src/utility/io_request.c) turns block and page into a byte offset of 32  *)
(* bits.  Offsets are counted in pages here: each is a multiple of          *)
(* PAGE_SIZE.                                                               *)
(***************************************************************************)
EXTENDS GCModule

CONSTANT diskPages  \* pages that the offset tells apart: 2^32 / PAGE_SIZE

ASSUME OffsetAssumption == diskPages \in Nat \ {0}

\* Faulty: a block is taken to be as long as its last page is far.
PlaceInShortBlock(loc) == (loc[1] * (PAGE_NUM_PER_BLOCK - 1) + loc[2]) % diskPages

\* The 64-bit offset of the page, cut to the 32 bits of SendWriteRequest's
\* parameter.
PlaceOnDisk(loc) == (loc[1] * PAGE_NUM_PER_BLOCK + loc[2]) % diskPages

\* Faulty: a copy in another block joins the write before it.
JoinAnyBlock(writes, loc) ==
    IF writes = <<>>
    THEN <<[loc |-> loc, size |-> 1]>>
    ELSE [writes EXCEPT ![Len(writes)].size = @ + 1]

\* One turn of the loop: the copy to loc joins the write before it, or begins
\* one of its own.
Join(writes, loc) ==
    IF writes = <<>> \/ Last(writes).loc[1] # loc[1]
    THEN Append(writes, [loc |-> loc, size |-> 1])
    ELSE [writes EXCEPT ![Len(writes)].size = @ + 1]

GCWrites == FoldLeft(Join, <<>>, writePageLoc)

\* pwrite64 goes on from the place of the first page.
PlacesOf(write) == {PlaceOnDisk(write.loc) + n : n \in 0 .. write.size - 1}

GCIsDone == pc = "scan" /\ recyleCnt = 0

\* The writes that a finished garbage collection hands to the disk cover the
\* copies it made, each once, and the place of no other VALID page: joining
\* them rests on copies that follow each other in a block without a gap.  It is
\* about tier 0, as CopiesAvoidVictims is, and a disk whose pages have places of
\* their own: on a larger one the cut offset brings two pages to one place.
GCWritesItsCopies ==
    GCIsDone =>
        LET covered == UNION {PlacesOf(w) : w \in ToSet(GCWrites)}
            copies  == ToSet(writePageLoc)
        IN  /\ covered = {PlaceOnDisk(loc) : loc \in copies}
            /\ Cardinality(covered) = Len(writePageLoc)
            /\ \A loc \in ValidLocs \ copies : PlaceOnDisk(loc) \notin covered
=============================================================================
