--------------------------- MODULE MCJournalPages ---------------------------
(* JournalPages for TLC: one reader, pages of a few cells. *)
EXTENDS JournalPages
CONSTANTS r1
=============================================================================
