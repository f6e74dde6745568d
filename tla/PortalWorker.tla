---------------------------- MODULE PortalWorker ----------------------------
(***************************************************************************)
(* src/src/CaptivePortalAutofill.cpp: a FreeRTOS task of its own that      *)
(* fetches and submits the forms of a captive portal, the two one-deep     *)
(* queues between it and the main task, and the generation by which the    *)
(* main task (src/src/NetworkTimeService.cpp) gives a job up.  Every queue *)
(* operation and every access to the atomic generation is a step, and the  *)
(* two tasks interleave freely.  What the portal answers, how long it      *)
(* takes and what its forms are is left open.                              *)
(***************************************************************************)
EXTENDS Naturals

CONSTANTS
  Ap, NoAp,                  \* open access points; not associated
  MaxSubmissions,            \* kCaptivePortalMaximumSubmissions
  MaxRedirects,              \* kMaximumRedirects
  MaxGeneration              \* bound on the generation of a job

ASSUME WorkerAssumption ==
  /\ NoAp \notin Ap
  /\ {MaxSubmissions, MaxRedirects, MaxGeneration} \subseteq Nat \ {0}

VARIABLES
  assoc,                     \* the access point the clock is associated with
  main,                      \* where the main task is
  waiting,                   \* mode_ = kWaitingForPortalAutomation
  retried,                   \* ntpRetriedAfterPortal_
  networkGeneration,         \* networkGeneration_
  currentGeneration,         \* the atomic currentGeneration_
  command,                   \* commandQueue_, one deep
  completion,                \* completionQueue_, one deep
  worker,                    \* the task's job: its locals and where it is
  late                       \* history: what it has done for this job since it was given up

mainVars == <<assoc, main, waiting, retried, networkGeneration>>
vars == <<mainVars, currentGeneration, command, completion, worker, late>>

\* A job may be given up twice: by its timeout and by the end of the Wi-Fi window.
Generation == 0..MaxGeneration + 2

Result == {"kPortalOpened", "kInternetAlreadyOpen", "kFailed", "kCancelled"}

NoCommand == [generation |-> 0, home |-> NoAp]
NoCompletion == [generation |-> 0, result |-> "none"]

\* home is the access point the job was asked on (history), socket the one its
\* connection runs over, NoAp when there is none.
Job(order) ==
  [at |-> "loop", generation |-> order.generation, home |-> order.home, socket |-> NoAp,
   submissions |-> 0, redirects |-> 0, redirected |-> FALSE, submitting |-> FALSE,
   method |-> "GET", part |-> "head", result |-> "none"]

Resting == [Job(NoCommand) EXCEPT !.at = "idle"]

WorkerType ==
  [at : {"idle", "loop", "connect", "check", "write", "read", "failed", "finish", "send"},
   generation : Generation, home : Ap \union {NoAp}, socket : Ap \union {NoAp},
   submissions : 0..MaxSubmissions, redirects : 0..MaxRedirects,
   redirected : BOOLEAN, submitting : BOOLEAN, method : {"GET", "POST"},
   part : {"head", "body"}, result : Result \union {"none"}]

TypeOK ==
  /\ assoc \in Ap \union {NoAp}
  /\ main \in {"tick", "reset", "send", "stop", "disconnect"}
  /\ waiting \in BOOLEAN /\ retried \in BOOLEAN
  /\ networkGeneration \in Generation /\ currentGeneration \in Generation
  /\ command \in [generation : Generation, home : Ap \union {NoAp}]
  /\ completion \in [generation : Generation, result : Result \union {"none"}]
  /\ worker \in WorkerType
  /\ late \in [connects : 0..2, writes : 0..2]

\* begin() of the service counts one job given up on a clock that has a route.  Without
\* one it starts at 0, a generation that no job gets: start() counts first.
Init ==
  /\ assoc = NoAp /\ main = "tick" /\ waiting = FALSE /\ retried = FALSE
  /\ networkGeneration = 1 /\ currentGeneration = 1
  /\ command = NoCommand /\ completion = NoCompletion
  /\ worker = Resting
  /\ late = [connects |-> 0, writes |-> 0]

----------------------------------------------------------------------------
(* The main task.                                                          *)

WorkerUnchanged == UNCHANGED <<worker, late>>

\* CaptivePortalAutofill::cancel(++networkGeneration_)
cancel ==
  /\ networkGeneration' = networkGeneration + 1
  /\ currentGeneration' = networkGeneration'

Associates(ap) ==
  /\ main = "tick" /\ assoc = NoAp
  /\ assoc' = ap
  /\ WorkerUnchanged
  /\ UNCHANGED <<main, waiting, retried, networkGeneration, currentGeneration, command, completion>>

\* NTP has failed on this access point: its portal is tried, in start()'s three steps.
StartStore ==
  /\ main = "tick" /\ assoc # NoAp /\ ~waiting /\ ~retried
  /\ networkGeneration < MaxGeneration
  /\ cancel /\ main' = "reset"
  /\ WorkerUnchanged
  /\ UNCHANGED <<assoc, waiting, retried, command, completion>>

StartReset ==
  /\ main = "reset"
  /\ completion' = NoCompletion /\ main' = "send"
  /\ WorkerUnchanged
  /\ UNCHANGED <<assoc, waiting, retried, networkGeneration, currentGeneration, command>>

\* A full queue still holds a job that was given up: the candidate fails.
StartSend ==
  /\ main = "send"
  /\ IF command = NoCommand
     THEN /\ command' = [generation |-> networkGeneration, home |-> assoc]
          /\ waiting' = TRUE /\ main' = "tick"
     ELSE main' = "disconnect" /\ UNCHANGED <<command, waiting>>
  /\ WorkerUnchanged
  /\ UNCHANGED <<assoc, retried, networkGeneration, currentGeneration, completion>>

\* MUTANT: an answer is taken for the job's whatever its generation.
MatchesAny(answer) == answer # NoCompletion

completionMatchesGeneration(answer) == answer.generation = networkGeneration

\* poll and finishPortalAutomation.  An answer to another job is thrown away.
Poll ==
  /\ main = "tick" /\ waiting /\ completion # NoCompletion
  /\ completion' = NoCompletion
  /\ IF ~completionMatchesGeneration(completion) THEN UNCHANGED <<main, waiting, retried>>
     ELSE /\ waiting' = FALSE
          /\ retried' = (completion.result = "kPortalOpened")
          /\ main' = IF retried' THEN "tick" ELSE "disconnect"
  /\ WorkerUnchanged
  /\ UNCHANGED <<assoc, networkGeneration, currentGeneration, command>>

\* The job's time is over, or the whole Wi-Fi window's.
Expires(windowExpired) ==
  /\ main = "tick" /\ waiting
  /\ cancel /\ waiting' = FALSE
  /\ main' = IF windowExpired THEN "stop" ELSE "disconnect"
  /\ WorkerUnchanged
  /\ UNCHANGED <<assoc, retried, command, completion>>

\* The rest of the window's end, or a sync from elsewhere.
stopNetworkActivity ==
  /\ main = "stop" \/ (main = "tick" /\ networkGeneration < MaxGeneration)
  /\ cancel /\ waiting' = FALSE /\ main' = "disconnect"
  /\ WorkerUnchanged
  /\ UNCHANGED <<assoc, retried, command, completion>>

\* NTP has failed again.
FailCandidate ==
  /\ main = "tick" /\ assoc # NoAp /\ ~waiting
  /\ main' = "disconnect"
  /\ WorkerUnchanged
  /\ UNCHANGED <<assoc, waiting, retried, networkGeneration, currentGeneration, command, completion>>

\* Connections do not outlive the association they run over.
Disconnect ==
  /\ main = "disconnect"
  /\ main' = "tick" /\ assoc' = NoAp /\ retried' = FALSE
  /\ worker' = [worker EXCEPT !.socket = NoAp]
  /\ UNCHANGED <<waiting, networkGeneration, currentGeneration, command, completion, late>>

Main ==
  \/ \E ap \in Ap : Associates(ap)
  \/ StartStore \/ StartReset \/ StartSend
  \/ Poll \/ stopNetworkActivity \/ FailCandidate \/ Disconnect
  \/ \E windowExpired \in BOOLEAN : Expires(windowExpired)

----------------------------------------------------------------------------
(* The worker.                                                             *)

isCurrent == currentGeneration = worker.generation

AtWorker(place) == worker.at = place /\ UNCHANGED mainVars /\ UNCHANGED currentGeneration

Finished(w, result) == [w EXCEPT !.at = "finish", !.result = result]

\* A request for something else: the probe, the form or a redirect.
Request(w, method) == [w EXCEPT !.at = "connect", !.method = method, !.part = "head"]

Receive ==
  /\ AtWorker("idle") /\ command # NoCommand
  /\ command' = NoCommand
  /\ worker' = Job(command)
  /\ late' = [connects |-> 0, writes |-> 0]
  /\ UNCHANGED completion

RunLoop ==
  /\ AtWorker("loop")
  /\ worker' = IF isCurrent
               THEN [Request(worker, "GET") EXCEPT !.redirected = FALSE, !.submitting = FALSE]
               ELSE Finished(worker, "kCancelled")
  /\ UNCHANGED <<command, completion, late>>

CountLate(what) ==
  late' = IF isCurrent \/ late[what] = 2 THEN late ELSE [late EXCEPT ![what] = @ + 1]

\* Whatever keeps requestOnce from a connection and a request is ok = FALSE.
Connect(ok) ==
  /\ AtWorker("connect")
  /\ worker' = IF ok /\ assoc # NoAp THEN [worker EXCEPT !.at = "check", !.socket = assoc]
               ELSE [worker EXCEPT !.at = "failed"]
  /\ CountLate("connects")
  /\ UNCHANGED <<command, completion>>

\* MUTANT: a job that was given up goes on writing.
InTimeOnly(inTime) == inTime

MayWrite(inTime) == isCurrent /\ inTime

\* writeAll's test; inTime: the job's time is not over.  The chunks of a part, each
\* tested like this, are one write.
CheckWrite(inTime) ==
  /\ AtWorker("check")
  /\ worker' = IF MayWrite(inTime) THEN [worker EXCEPT !.at = "write"]
               ELSE [worker EXCEPT !.at = "failed", !.socket = NoAp]
  /\ UNCHANGED <<command, completion, late>>

\* MUTANT: the body follows the head without a test of its own.
BodyAtOnce(w) ==
  IF w.method = "POST" /\ w.part = "head" THEN [w EXCEPT !.part = "body"]
  ELSE [w EXCEPT !.at = "read"]

Written(w) ==
  IF w.method = "POST" /\ w.part = "head" THEN [w EXCEPT !.at = "check", !.part = "body"]
  ELSE [w EXCEPT !.at = "read"]

\* Nothing is written to a connection that is gone, which writeAll tries until its time
\* is over.
Write ==
  /\ AtWorker("write")
  /\ IF worker.socket = NoAp THEN worker' = [worker EXCEPT !.at = "check"] /\ UNCHANGED late
     ELSE worker' = Written(worker) /\ CountLate("writes")
  /\ UNCHANGED <<command, completion>>

\* MUTANT: redirects are not counted.
FollowsUncounted(w, method) ==
  IF w.redirects < MaxRedirects THEN [Request(w, method) EXCEPT !.redirected = TRUE]
  ELSE [w EXCEPT !.at = "failed"]

consumeRedirect(w, method) ==
  IF w.redirects < MaxRedirects
  THEN [Request(w, method) EXCEPT !.redirects = @ + 1, !.redirected = TRUE]
  ELSE [w EXCEPT !.at = "failed"]

\* The rest of run()'s loop body, after the probe: a form, or none that can be sent.
Probed(w, status, form) ==
  IF status = "204" /\ ~w.redirected
  THEN Finished(w, IF w.submissions = 0 THEN "kInternetAlreadyOpen" ELSE "kPortalOpened")
  ELSE IF w.submissions >= MaxSubmissions \/ status # "page" \/ form = "none"
  THEN Finished(w, "kFailed")
  ELSE [Request(w, form) EXCEPT !.submitting = TRUE]

\* Without an answer, or with one that cannot be read, the request fails.  301 to 303
\* turn into GET, 307 and 308 keep the method.
Read(status, form) ==
  /\ AtWorker("read")
  /\ LET w == [worker EXCEPT !.socket = NoAp]
     IN worker' = CASE status = "none" -> [w EXCEPT !.at = "failed"]
                    [] status = "303"  -> consumeRedirect(w, "GET")
                    [] status = "307"  -> consumeRedirect(w, w.method)
                    [] OTHER -> IF w.submitting
                                THEN [w EXCEPT !.at = "loop", !.submissions = @ + 1]
                                ELSE Probed(w, status, form)
  /\ UNCHANGED <<command, completion, late>>

\* run() tells a failure from a cancellation by the generation.
RequestFailed ==
  /\ AtWorker("failed")
  /\ worker' = Finished(worker, IF isCurrent THEN "kFailed" ELSE "kCancelled")
  /\ UNCHANGED <<command, completion, late>>

FinishCheck ==
  /\ AtWorker("finish")
  /\ worker' = IF isCurrent THEN [worker EXCEPT !.at = "send"] ELSE Resting
  /\ UNCHANGED <<command, completion, late>>

\* A full queue keeps the completion it has.
SendCompletion ==
  /\ AtWorker("send")
  /\ completion' = IF completion # NoCompletion THEN completion
                   ELSE [generation |-> worker.generation, result |-> worker.result]
  /\ worker' = Resting
  /\ UNCHANGED <<command, late>>

Worker ==
  \/ Receive \/ RunLoop \/ Write \/ RequestFailed \/ FinishCheck \/ SendCompletion
  \/ \E ok \in BOOLEAN : Connect(ok) \/ CheckWrite(ok)
  \/ \E status \in {"none", "303", "307", "204", "page", "error"},
        form \in {"none", "GET", "POST"} : Read(status, form)

Next == Main \/ Worker

(* The worker's blocking calls return, by timeouts of their own.           *)
Spec == Init /\ [][Next]_vars /\ WF_vars(Worker)

----------------------------------------------------------------------------
(* Properties                                                              *)

\* The job the service waits for, answered once its own completion is in the queue.
WaitedFor ==
  IF ~waiting THEN [ap |-> NoAp, answer |-> "none"]
  ELSE [ap |-> assoc,
        answer |-> IF completion.generation = networkGeneration THEN completion.result ELSE "none"]

Promise == INSTANCE PortalJob WITH job <- WaitedFor

\* The queues and generations keep the promise of PortalJob: whatever the tasks'
\* steps, no answer to a job that was given up is taken for the current one's.
ImplementsPortalJob == Promise!Spec

\* What a job has written went over the access point it was asked on, although the
\* worker may connect over the next one before it learns that its job is over.
WritesStayHome == worker.at = "read" => worker.socket \in {worker.home, NoAp}

\* A job that was given up makes at most one more connection, which may be to the target of
\* a redirect it had just been answered with, and one more write: it gets no further.
LateWorkIsBounded == late.connects <= 1 /\ late.writes <= 1

\* The worker comes back to its queue after every job, whatever the portal answers:
\* otherwise every later job would be refused.
WorkerComesBack == worker.at # "idle" ~> worker.at = "idle"

=============================================================================
