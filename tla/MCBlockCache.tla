---------------------------- MODULE MCBlockCache ----------------------------
(* BlockCache for TLC: three blocks of two bytes behind a cache of two; whole
   blocks, parts of one, and a range that spans two. *)
EXTENDS BlockCache

Ranges == {<<0, 2>>, <<3, 2>>}
=============================================================================
