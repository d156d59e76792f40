------------------------------ MODULE MCPaging ------------------------------
(* Four tables of four pages of eight bytes; the heap holds two address       *)
(* spaces, the second around and between the tables of the first when other   *)
(* code held blocks then.  Two pages are set and looked at: they lie at        *)
(* different places in different tables.                                      *)
EXTENDS Paging
=============================================================================
