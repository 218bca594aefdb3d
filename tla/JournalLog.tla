----------------------------- MODULE JournalLog -----------------------------
(***************************************************************************)
(* What a journal promises: one continuous, append-only sequence of frames *)
(* of which every reader is given a contiguous run, in order.  Only a      *)
(* reader that seeks (seekTime) or expires moves otherwise.                *)
(***************************************************************************)
EXTENDS Naturals, Sequences

CONSTANTS Readers,
          Frames        \* what a frame can be

VARIABLES log,          \* the frames written so far
          cursor,       \* reader -> number of frames before its position
          seeking,      \* reader -> is it inside seekTime, or expired?
          out           \* reader -> the last frame it was given

LogVars == <<log, cursor, seeking, out>>

LogInit ==
    /\ log = <<>>
    /\ cursor = [r \in Readers |-> 0]
    /\ seeking = [r \in Readers |-> FALSE]
    /\ out = [r \in Readers |-> <<>>]

AppendFrame ==
    /\ \E f \in Frames : log' = Append(log, f)
    /\ UNCHANGED <<cursor, seeking, out>>

Deliver(r) ==
    /\ ~seeking[r]
    /\ cursor[r] < Len(log)
    /\ out' = [out EXCEPT ![r] = <<log[cursor[r] + 1]>>]
    /\ cursor' = [cursor EXCEPT ![r] = @ + 1]
    /\ UNCHANGED <<log, seeking>>

(* A reader that begins, continues or ends a seek goes anywhere; one that  *)
(* expires has no place until it seeks.                                    *)
SeekTo(r) ==
    /\ \E now \in BOOLEAN : /\ seeking[r] \/ now
                            /\ seeking' = [seeking EXCEPT ![r] = now]
    /\ \E n \in 0..Len(log) : cursor' = [cursor EXCEPT ![r] = n]
    /\ UNCHANGED <<log, out>>

LogNext == AppendFrame \/ \E r \in Readers : Deliver(r) \/ SeekTo(r)

LogSpec == LogInit /\ [][LogNext]_LogVars
=============================================================================
