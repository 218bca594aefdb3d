------------------------ MODULE MCPageEngineLifecycle ------------------------
(* PageEngineLifecycle for TLC: the tasks of the test program. *)
EXTENDS PageEngineLifecycle
=============================================================================
