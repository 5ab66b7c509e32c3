------------------------------ MODULE WorkPool ------------------------------
(***************************************************************************)
(* What the distribution of work promises, whatever ranges the work is cut *)
(* into: a byte is asked for by one worker at a time and fetched once; it  *)
(* goes back only after a failure; and unless something failed the end     *)
(* comes when nothing is left.                                             *)
(***************************************************************************)
CONSTANTS Work,      \* the bytes there may be to fetch
          Workers

VARIABLES todo,      \* bytes nobody was asked for
          leased,    \* by worker: bytes it was asked for and did not deliver
          done,      \* bytes that were delivered
          failed,
          over

vars == <<todo, leased, done, failed, over>>

Init ==
  /\ todo \in SUBSET Work
  /\ leased = [w \in Workers |-> {}]
  /\ done = {}
  /\ failed = FALSE
  /\ over = FALSE

Lease(w) ==
  /\ ~failed /\ ~over
  /\ leased[w] = {}
  /\ todo' \in SUBSET todo
  /\ leased' = [leased EXCEPT ![w] = todo \ todo']
  /\ UNCHANGED <<done, failed, over>>

Deliver(w) ==
  /\ ~failed /\ ~over
  /\ \E part \in SUBSET leased[w] :
       /\ leased' = [leased EXCEPT ![w] = @ \ part]
       /\ done' = done \cup part
  /\ UNCHANGED <<todo, failed, over>>

\* What a worker did not deliver is to be done again.
GiveBack(w) ==
  /\ todo' = todo \cup leased[w]
  /\ leased' = [leased EXCEPT ![w] = {}]

\* A failure may cost what was about to be leased; a later download has to find that out.
Fail ==
  /\ ~failed /\ ~over
  /\ failed' = TRUE
  /\ \/ todo' \in SUBSET todo /\ UNCHANGED leased
     \/ \E w \in Workers : GiveBack(w)
  /\ UNCHANGED <<done, over>>

Return(w) ==
  /\ failed /\ ~over
  /\ GiveBack(w)
  /\ UNCHANGED <<done, failed, over>>

End ==
  /\ ~over
  /\ over' = TRUE
  /\ ~failed => todo = {} /\ \A w \in Workers : leased[w] = {}
  /\ UNCHANGED <<todo, leased, done, failed>>

Next ==
  \/ \E w \in Workers : Lease(w) \/ Deliver(w) \/ Return(w)
  \/ Fail
  \/ End

Spec == Init /\ [][Next]_vars
=============================================================================
