----------------------------- MODULE MCPageRegions -----------------------------
(*****************************************************************************)
(* Instances of PageRegions for TLC: pages of two bytes.                     *)
(*****************************************************************************)
EXTENDS PageRegions

\* Blocks inside a page, blocks that fill one, and blocks across two.
BlocksMC == {<<a, s>> \in (0..7) \X {1, 2} : a + s <= 8}

\* Two mapped areas next to each other, and one apart.
AreasMC == <<<<0, 4>>, <<4, 8>>, <<10, 12>>>>

\* Blocks of a byte, one to a page.
BlocksApart == {<<2 * p, 1>> : p \in 0..5}
=============================================================================
