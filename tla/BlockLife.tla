------------------------------- MODULE BlockLife -------------------------------
(*****************************************************************************)
(* What the tracker promises about each buffer it obtains from libc: it is   *)
(* tracked from malloc until one free of it, then held in quarantine until   *)
(* enough later frees have come, then given back to libc once. A buffer      *)
(* whose bookkeeping failed is the program's to use but is never given back. *)
(*****************************************************************************)
EXTENDS Naturals, FiniteSets

CONSTANTS Bufs,
          Capacity  \* blocks that can be in quarantine at a time

VARIABLE life

TypeOK ==
    life \in [Bufs -> {"libc", "new", "tracked", "closing", "quarantined", "leaving", "lost"}]

Init == life = [b \in Bufs |-> "libc"]

Quarantined == {b \in Bufs : life[b] = "quarantined"}

Move(b, from, to) == life[b] = from /\ life' = [life EXCEPT ![b] = to]

Obtain(b) == Move(b, "libc", "new")
Track(b) == Move(b, "new", "tracked")
Lose(b) == Move(b, "new", "lost") \/ Move(b, "closing", "lost")
Close(b) == Move(b, "tracked", "closing")
Hold(b) == Cardinality(Quarantined) < Capacity /\ Move(b, "closing", "quarantined")
Expel(b) == Move(b, "quarantined", "leaving")
Return(b) == Move(b, "leaving", "libc")

Next == \E b \in Bufs :
    \/ Obtain(b) \/ Track(b) \/ Lose(b) \/ Close(b) \/ Hold(b) \/ Expel(b) \/ Return(b)

Spec == Init /\ [][Next]_life
=============================================================================
