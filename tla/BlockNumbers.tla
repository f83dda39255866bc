----------------------------- MODULE BlockNumbers -----------------------------
(*****************************************************************************)
(* The arithmetic on addresses and sizes: how large a buffer the allocation  *)
(* calls ask libc for and where in it the program's block lies               *)
(* (memchk_hook.c), in which bin a block is counted and under which label    *)
(* that bin is printed (memchk_manage_memblk.c), and how the listings        *)
(* compare two blocks (memchk_sort.c). size_t and int wrap.                  *)
(*****************************************************************************)
EXTENDS Integers, FiniteSets, FiniteSetsExt

CONSTANTS
    REDZONE_SIZE,
    PAGE_SIZE,
    WordSize,           \* values of a size_t: 2^64
    IntHalf,            \* non-negative values of an int: 2^31
    HISTO_BINS, HISTO_MAGNIFICATION

ASSUME NumbersAssumption ==
    /\ REDZONE_SIZE \in Nat /\ PAGE_SIZE \in Nat \ {0} /\ PAGE_SIZE < WordSize
    /\ WordSize \in Nat /\ 2 * REDZONE_SIZE < WordSize
    /\ IntHalf \in Nat \ {0}
    /\ HISTO_BINS \in Nat \ {0} /\ HISTO_MAGNIFICATION \in Nat \ {0, 1}

Word == 0..(WordSize - 1)

-----------------------------------------------------------------------------
(* The buffer of an allocation call: size_t arithmetic *)

calloc_usrsize(nmems, size) == (nmems * size) % WordSize

malloc_bufsize(size) == (size + 2 * REDZONE_SIZE) % WordSize

is_power_of_2(val) == \E k \in 0..val : val = 2 ^ k

\* What posix_memalign, aligned_alloc and memalign let through; valloc always
\* passes PAGE_SIZE.
memalign_serves(alignment) == alignment # 0 /\ is_power_of_2(alignment)

\* Masking the low bits of a power of two off rounds down to its multiple.
RoundDown(n, alignment) == n - (n % alignment)

align_addr(addr, alignment) == RoundDown((addr + alignment - 1) % WordSize, alignment)

aligned_bufsize(alignment, size) ==
    (size + 2 * REDZONE_SIZE + alignment - 1) % WordSize

aligned_usrptr(buf, alignment) == align_addr((buf + REDZONE_SIZE) % WordSize, alignment)

pvalloc_size(size) == RoundDown((size + PAGE_SIZE - 1) % WordSize, PAGE_SIZE)

\* The red zones around a block of size bytes at usrptr, in the buffer
\* [buf, buf + bufsize): as mc_set_allocated_buffer computes them.
leading_redzone_size(buf, usrptr) == (usrptr - buf) % WordSize
trailing_redzone_size(buf, bufsize, usrptr, size) ==
    (bufsize - leading_redzone_size(buf, usrptr) - size) % WordSize

-----------------------------------------------------------------------------
(* The histogram *)

\* The loop multiplies the upper bound of a bin to get the next one's.
upper[i \in 0..(HISTO_BINS - 1)] ==
    IF i = 0 THEN HISTO_MAGNIFICATION ELSE upper[i - 1] * HISTO_MAGNIFICATION

histogram_bin(usrsize) ==
    LET holding == {i \in 0..(HISTO_BINS - 1) : usrsize <= upper[i]}
    IN  IF holding = {} THEN HISTO_BINS - 1 ELSE Min(holding)

\* The sizes the label of bin i names: "(1 - 4)", "(5 - 16)", .., "(262145 - )".
Labelled(usrsize, i) ==
    /\ usrsize >= IF i = 0 THEN 1 ELSE upper[i - 1] + 1
    /\ i < HISTO_BINS - 1 => usrsize <= upper[i]

-----------------------------------------------------------------------------
(* The order of the listings: largest first, in int arithmetic *)

Int32(n) == ((n + IntHalf) % (2 * IntHalf)) - IntHalf

compare_by_alloc_memblk(usrsize1, usrsize2) == Int32(Int32(usrsize2) - Int32(usrsize1))
=============================================================================
