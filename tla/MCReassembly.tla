----------------------------- MODULE MCReassembly -----------------------------
(* Datagrams of two and of four units, the latter cut in halves or quarters. *)
EXTENDS Reassembly

SomeSizes == {<<2, 1>>, <<4, 1>>, <<4, 2>>}
===============================================================================
