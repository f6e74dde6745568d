----------------------------- MODULE PortalJob -----------------------------
(***************************************************************************)
(* What the captive-portal worker of src/src/CaptivePortalAutofill.cpp     *)
(* promises NetworkTimeService: of the job the service is waiting for it   *)
(* delivers at most one answer, on the association the job was asked on.   *)
(* NTP is retried after no other answer than kPortalOpened, once.          *)
(***************************************************************************)
CONSTANTS
  Ap, NoAp                   \* open access points; not associated

Answer == {"kPortalOpened", "kInternetAlreadyOpen", "kFailed"}

NoJob == [ap |-> NoAp, answer |-> "none"]

VARIABLES
  assoc,                     \* the access point the clock is associated with
  job,                       \* the job waited for, with its answer once there is one
  retried                    \* NTP is tried, or has been, a second time here

vars == <<assoc, job, retried>>

Init == assoc = NoAp /\ job = NoJob /\ retried = FALSE

Associate(ap) ==
  /\ assoc = NoAp
  /\ assoc' = ap
  /\ UNCHANGED <<job, retried>>

Leave ==
  /\ job = NoJob
  /\ assoc' = NoAp /\ retried' = FALSE
  /\ UNCHANGED job

Ask ==
  /\ job = NoJob /\ assoc # NoAp /\ ~retried
  /\ job' = [ap |-> assoc, answer |-> "none"]
  /\ UNCHANGED <<assoc, retried>>

Respond(answer) ==
  /\ job # NoJob /\ job.answer = "none"
  /\ job' = [job EXCEPT !.answer = answer]
  /\ UNCHANGED <<assoc, retried>>

Deliver ==
  /\ job.answer \in Answer
  /\ job' = NoJob
  /\ retried' = (job.answer = "kPortalOpened")
  /\ UNCHANGED assoc

\* The service stops waiting: a timeout, or a sync from elsewhere.
Drop ==
  /\ job # NoJob
  /\ job' = NoJob
  /\ UNCHANGED <<assoc, retried>>

Next ==
  \/ \E ap \in Ap : Associate(ap)
  \/ Leave \/ Ask \/ Deliver \/ Drop
  \/ \E answer \in Answer : Respond(answer)

Spec == Init /\ [][Next]_vars

=============================================================================
