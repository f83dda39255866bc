------------------------------ MODULE MCHookGate ------------------------------
(*****************************************************************************)
(* An instance of HookGate for TLC, and of the sizes and addresses of        *)
(* BlockNumbers with words of 6 bits and ints of 4.                          *)
(*****************************************************************************)
EXTENDS HookGate, BlockNumbers

Sizes == 0..40
Buffers == 1..20
Alignments == {n \in 0..20 : memalign_serves(n)}

\* mc_set_allocated_buffer fills three parts that make up the buffer.
ASSUME PartsFillBuffer ==
    \A buf \in Buffers, size \in Sizes, al \in Alignments :
        LET usrptr == aligned_usrptr(buf, al)
            bufsize == aligned_bufsize(al, size)
        IN  buf + bufsize < WordSize /\ size + 2 * REDZONE_SIZE + al - 1 < WordSize =>
                /\ usrptr % al = 0
                /\ leading_redzone_size(buf, usrptr) >= REDZONE_SIZE
                /\ trailing_redzone_size(buf, bufsize, usrptr, size) >= REDZONE_SIZE
                /\ leading_redzone_size(buf, usrptr) + size
                     + trailing_redzone_size(buf, bufsize, usrptr, size) = bufsize

\* calloc's product and pvalloc's rounding, and where they wrap.
ASSUME SizesWrap ==
    /\ \A n \in 1..7, size \in Sizes :
        (calloc_usrsize(n, size) < size) => n * size >= WordSize
    /\ \A size \in Word :
        pvalloc_size(size) = 0 <=> size = 0 \/ size + PAGE_SIZE - 1 >= WordSize

\* Each block but an empty one is counted in the one bin whose label names it.
ASSUME BinIsLabelled ==
    \A size \in 0..100, i \in 0..(HISTO_BINS - 1) :
        (i = histogram_bin(size) /\ size > 0) <=> Labelled(size, i)

\* The listing is largest first below IntHalf; above it the comparison can go
\* round in a circle, and qsort has no order to follow.
ASSUME ListingOrder ==
    /\ \A a, b \in 0..(IntHalf - 1) : compare_by_alloc_memblk(a, b) < 0 <=> a > b
    /\ \E a, b, c \in Word :
        /\ compare_by_alloc_memblk(a, b) < 0
        /\ compare_by_alloc_memblk(b, c) < 0
        /\ compare_by_alloc_memblk(c, a) < 0
=============================================================================
