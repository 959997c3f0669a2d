--------------------------- MODULE MCPagingTables ---------------------------
(***************************************************************************)
(* A word of the memory may look like a page table entry of any kind: one  *)
(* that is not present, or one that maps a page.                           *)
(***************************************************************************)
EXTENDS PagingTables

Words == {<<0, {}>>, <<1, {"P", "W"}>>}
=============================================================================
