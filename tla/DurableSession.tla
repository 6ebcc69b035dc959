--------------------------- MODULE DurableSession ---------------------------
(***************************************************************************)
(* What persistence promises, with no log, delta, marker or blob in sight: *)
(* a save atomically replaces the durable session by the session as it was *)
(* when the save began, whatever the program does to it meanwhile, and a   *)
(* resumed session is the durable one.                                     *)
(***************************************************************************)
EXTENDS Sequences

CONSTANT Reopened(_)   \* the session a durable image is resumed as

VARIABLES
  current,   \* the live session
  capture,   \* <<image>> while a save is under way
  durable,   \* <<image>> once something was saved
  up         \* the process is running

vars == <<current, capture, durable, up>>

Init == /\ capture = <<>> /\ durable = <<>> /\ up = TRUE

\* The program changes the live session, and nothing else.
Work == /\ up
        /\ UNCHANGED <<capture, durable, up>>

Begin == /\ up /\ capture = <<>>
         /\ capture' = <<current>>
         /\ UNCHANGED <<current, durable, up>>

Land == /\ capture # <<>>
        /\ durable' = capture
        /\ UNCHANGED <<current, capture, up>>

Settle == /\ capture' = <<>>
          /\ UNCHANGED <<current, durable, up>>

Crash == /\ up /\ up' = FALSE
         /\ capture' = <<>>
         /\ UNCHANGED durable

Resume == /\ ~up /\ up' = TRUE
          /\ durable # <<>>
          /\ current' = Reopened(durable[1])
          /\ UNCHANGED <<capture, durable>>

Next == Work \/ Begin \/ Land \/ Settle \/ Crash \/ Resume

Spec == Init /\ [][Next]_vars
=============================================================================
