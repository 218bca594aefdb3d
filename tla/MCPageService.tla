--------------------------- MODULE MCPageService ----------------------------
(***************************************************************************)
(* PageService for TLC.  w1, w2 and w3 are writers and r1 is a reader, all *)
(* of one journal; each handler has a name and a process of its own,       *)
(* except that w3 reuses the name of w2.                                   *)
(***************************************************************************)
EXTENDS PageService

CONSTANTS w1, w2, w3, r1, nw, nx, na, pw, px, py, pa, j1

MCName == [h \in Handlers |-> CASE h = w1 -> nw [] h = w2 -> nx
                                [] h = w3 -> nx [] h = r1 -> na]
MCPid == [h \in Handlers |-> CASE h = w1 -> pw [] h = w2 -> px
                               [] h = w3 -> py [] h = r1 -> pa]
MCNames == {MCName[h] : h \in Handlers}
MCPids == {MCPid[h] : h \in Handlers}
WantsAll == [h \in Handlers |-> Journals]

(* Writers seek when they are created; a reader may seek or expire once. *)
SeekOnce == [h \in Handlers |-> IF h \in Writers THEN 0 ELSE 1]
SeekNever == [h \in Handlers |-> 0]

OnePage == {<<j1, 1>>}
=============================================================================
