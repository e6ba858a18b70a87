---------------------------- MODULE ProcessingLog ----------------------------
(***************************************************************************)
(* What attachment_queue promises the people who use it, without jobs,     *)
(* workers, locks or transactions: an attachment is open (pending or       *)
(* failed) or done; it is processed only while open, and processing closes *)
(* it; only an explicit request opens it again.  AttachmentQueue refines   *)
(* this module.                                                            *)
(***************************************************************************)
EXTENDS Naturals

CONSTANT Attachment

VARIABLES status,    \* the state field, or "absent" before create()
          requests,  \* how often the attachment was asked to be processed
          processed  \* how often the effects of _run were committed

vars == <<status, requests, processed>>

Status == {"absent", "pending", "done", "failed"}
Open == {"pending", "failed"}

TypeOK == /\ status \in [Attachment -> Status]
          /\ requests \in [Attachment -> Nat]
          /\ processed \in [Attachment -> Nat]

Init == /\ status = [a \in Attachment |-> "absent"]
        /\ requests = [a \in Attachment |-> 0]
        /\ processed = [a \in Attachment |-> 0]

Create(a) == /\ status[a] = "absent"
             /\ status' = [status EXCEPT ![a] = "pending"]
             /\ requests' = [requests EXCEPT ![a] = @ + 1]
             /\ UNCHANGED processed

\* button_reschedule, the wizard, or a click on the status bar.
Reopen(a) == /\ status[a] # "absent"
             /\ \E s \in Open: status' = [status EXCEPT ![a] = s]
             /\ requests' = [requests EXCEPT ![a] = @ + 1]
             /\ UNCHANGED processed

\* One successful run: its effects and "done" appear together.
Process(a) == /\ status[a] \in Open
              /\ status' = [status EXCEPT ![a] = "done"]
              /\ processed' = [processed EXCEPT ![a] = @ + 1]
              /\ UNCHANGED requests

\* One failed run: no effects.
Fail(a) == /\ status[a] \in Open
           /\ status' = [status EXCEPT ![a] = "failed"]
           /\ UNCHANGED <<requests, processed>>

\* set_done, or a click on "Done".
Close(a) == /\ status[a] # "absent"
            /\ status' = [status EXCEPT ![a] = "done"]
            /\ UNCHANGED <<requests, processed>>

Next == \E a \in Attachment:
           Create(a) \/ Reopen(a) \/ Process(a) \/ Fail(a) \/ Close(a)

Spec == Init /\ [][Next]_vars

\* Every request is processed at most once, and an attachment that is still
\* open has a request that was not processed yet.
OncePerRequest ==
  \A a \in Attachment:
     /\ processed[a] <= requests[a]
     /\ status[a] \in Open => processed[a] < requests[a]
==============================================================================
