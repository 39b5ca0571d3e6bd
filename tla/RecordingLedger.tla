--------------------------- MODULE RecordingLedger ---------------------------
(* What the recording lifecycle of the desktop gateway promises, without its    *)
(* queue, its awaits and its failures: one recorder owns the media at a time,   *)
(* it is given up before it is finalized or replaced, each call is recorded at  *)
(* most once, and the phone is granted a media session only for the owner.      *)
(* GatewayRecording implements it (GatewayRecording!LedgerSpec).                *)
CONSTANTS Calls, None

VARIABLES
  owner,    \* the call whose recorder is the active one
  file,     \* the recorder of every call: none, open or closed
  granted   \* the call whose session the phone holds

vars == <<owner, file, granted>>

Init == owner = None /\ file = [c \in Calls |-> "none"] /\ granted = None

Acquire(c) ==
  /\ owner = None /\ file[c] = "none"
  /\ owner' = c /\ file' = [file EXCEPT ![c] = "open"]
  /\ UNCHANGED granted

Grant ==
  /\ owner # None
  /\ granted' = owner
  /\ UNCHANGED <<owner, file>>

\* The owner is given up, at once with the revocation of the session or with the
\* finalization of its recorder, or ahead of both.
Release ==
  /\ owner # None /\ owner' = None
  /\ granted' \in {granted, None}
  /\ file' \in {file, [file EXCEPT ![owner] = "closed"]}

Revoke == granted' = None /\ UNCHANGED <<owner, file>>

Finalize(c) ==
  /\ file[c] = "open" /\ owner # c
  /\ file' = [file EXCEPT ![c] = "closed"]
  /\ UNCHANGED <<owner, granted>>

Next == Grant \/ Release \/ Revoke \/ \E c \in Calls : Acquire(c) \/ Finalize(c)

Spec == Init /\ [][Next]_vars
==============================================================================
