-------------------------- MODULE ReliableDownload --------------------------
(***************************************************************************)
(* What a user may rely on who downloads into one output path again and    *)
(* again, with whatever crashes and failures between: the file of that     *)
(* name is the one that was there before, or none, or a delivery of what   *)
(* the server had when the run that published it asked.                    *)
(*                                                                         *)
(* The promise ends when trusted does; Recovery says what that takes.      *)
(***************************************************************************)
CONSTANTS Versions,   \* what the server may have to offer, one after another
          Absent,     \* no file
          Contents,   \* whatever may be found under the output path
          Delivered   \* for each version, the contents that count as a delivery of it

VARIABLES remote,    \* what the server has now
          asked,     \* what it had when the running download asked, or Absent
          output,    \* what is under the output path
          trusted    \* nothing happened that the program cannot notice

vars == <<remote, asked, output, trusted>>

Init ==
  /\ remote \in Versions
  /\ asked = Absent
  /\ output \in Contents
  /\ trusted = TRUE

\* A change while a download runs may go unnoticed.
RemoteChanges ==
  /\ remote' \in Versions
  /\ trusted' \in {trusted, FALSE}
  /\ asked = Absent => trusted' = trusted
  /\ UNCHANGED <<asked, output>>

Ask ==
  /\ asked = Absent
  /\ asked' = remote
  /\ UNCHANGED <<remote, output, trusted>>

LoseTrust ==
  /\ asked # Absent
  /\ trusted' = FALSE
  /\ UNCHANGED <<remote, asked, output>>

\* An old file makes room for the new one.
Withdraw ==
  /\ asked # Absent
  /\ output' = Absent
  /\ UNCHANGED <<remote, asked, trusted>>

Publish ==
  /\ asked # Absent
  /\ output' \in Contents
  /\ trusted = TRUE => output' \in Delivered[asked]
  /\ UNCHANGED <<remote, asked, trusted>>

\* The download ends, or its process does.
Leave ==
  /\ asked' = Absent
  /\ UNCHANGED <<remote, output, trusted>>

Next ==
  \/ RemoteChanges
  \/ Ask
  \/ LoseTrust
  \/ Withdraw
  \/ Publish
  \/ Leave

Spec == Init /\ [][Next]_vars
=============================================================================
