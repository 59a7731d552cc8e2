--------------------------- MODULE MCVirtualMemory ---------------------------
(* VirtualMemory with pages of two words: eight pages, three levels. *)
EXTENDS VirtualMemory

\* Two pages under one table, a page under other tables, and the first
\* address beyond the end of 16 words.
MCAddresses == {0, 2, 10, 16}
=============================================================================
