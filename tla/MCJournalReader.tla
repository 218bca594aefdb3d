--------------------------- MODULE MCJournalReader ---------------------------
(* JournalReader for TLC: two journals, pages of one frame; the first       *)
(* journal has two pages.                                                   *)
EXTENDS JournalReader
MCMaxLog == <<2, 1>>
=============================================================================
