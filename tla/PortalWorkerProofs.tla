------------------------- MODULE PortalWorkerProofs -------------------------
(***************************************************************************)
(* Proofs about PortalWorker, for every set of access points and every     *)
(* bound on submissions, redirects and generations: its safety properties, *)
(* and that queues and generations keep the promise of PortalJob.          *)
(***************************************************************************)
EXTENDS PortalWorker, TLAPS

\* The main task's own view: it waits only between two handlers, for a job of the
\* present association, and nothing of the job it is about to start exists yet.
MainOrder ==
  /\ networkGeneration >= 1 /\ currentGeneration = networkGeneration
  /\ main # "tick" => ~waiting
  /\ waiting => assoc # NoAp
  /\ main \in {"reset", "send"} =>
       /\ assoc # NoAp /\ ~retried
       /\ command.generation # networkGeneration
       /\ worker.generation # networkGeneration
       /\ completion.generation # networkGeneration
  /\ waiting \/ main \in {"reset", "send"} => networkGeneration <= MaxGeneration
  /\ main = "stop" => networkGeneration <= MaxGeneration + 1

\* Generations only grow: a job that was given up is never current again.
GenerationsGrow ==
  /\ command.generation <= networkGeneration
  /\ worker.generation <= networkGeneration
  /\ completion.generation <= networkGeneration

\* The current job is in one place, the command queue, the worker or the completion
\* queue, and is waited for on the association it was asked on.
JobIsInOnePlace ==
  /\ command.generation = networkGeneration =>
       /\ waiting /\ command.home = assoc
       /\ worker.generation # networkGeneration
       /\ completion.generation # networkGeneration
  /\ worker.generation = networkGeneration =>
       /\ waiting /\ worker.home = assoc
       /\ completion.generation # networkGeneration

\* A current job is never called cancelled, and every finished one has a result.
ResultsFit ==
  /\ worker.at \in {"finish", "send"} => worker.result \in Result
  /\ worker.result = "kCancelled" => worker.generation # networkGeneration
  /\ completion.generation = networkGeneration =>
       completion.result \in Result \ {"kCancelled"}

\* A form is sent only while submissions are left.
FormsFit ==
  worker.at \in {"connect", "check", "write", "read"} /\ worker.submitting =>
    worker.submissions < MaxSubmissions

\* The connection of a job that may write runs over its own access point.
SocketsFit ==
  /\ worker.at = "check" /\ worker.generation = networkGeneration =>
       worker.socket \in {worker.home, NoAp}
  /\ worker.at \in {"write", "read"} => worker.socket \in {worker.home, NoAp}

\* What a job may still do once it has been given up.
LateFits ==
  /\ worker.generation = networkGeneration => late = [connects |-> 0, writes |-> 0]
  /\ late.connects <= 1 /\ late.writes <= 1
  /\ late.connects > 0 => worker.at \in {"check", "failed", "finish", "send", "idle"}
  /\ late.writes > 0 => worker.at # "write"

IInv ==
  /\ TypeOK /\ MainOrder /\ GenerationsGrow /\ JobIsInOnePlace
  /\ ResultsFit /\ FormsFit /\ SocketsFit /\ LateFits

----------------------------------------------------------------------------
(* Types.                                                                  *)

USE WorkerAssumption DEF WorkerAssumption

\* A job fresh from the queue.
LEMMA JobTyped ==
  ASSUME NEW order \in [generation : Generation, home : Ap \union {NoAp}]
  PROVE  Job(order) \in WorkerType
  BY DEF Job, WorkerType

LEMMA RestingTyped == Resting \in WorkerType
  <1>1. NoCommand \in [generation : Generation, home : Ap \union {NoAp}]
    BY DEF NoCommand, Generation
  <1>2. Job(NoCommand) \in WorkerType
    BY <1>1, JobTyped
  <1> QED
    BY <1>2 DEF Resting, WorkerType

\* What a resting worker has to say for itself.
LEMMA RestingRests ==
  /\ Resting.at = "idle" /\ Resting.generation = 0 /\ Resting.result = "none"
  BY DEF Resting, Job, NoCommand

LEMMA InitInductive == Init => IInv
  <1> SUFFICES ASSUME Init PROVE IInv
    OBVIOUS
  <1> USE DEF Init, NoCommand, NoCompletion
  <1>1. waiting \in BOOLEAN /\ retried \in BOOLEAN
    OBVIOUS
  <1>2. TypeOK
    BY <1>1, RestingTyped DEF TypeOK, Generation, Result
  <1>3. MainOrder /\ GenerationsGrow /\ JobIsInOnePlace
    BY RestingRests DEF MainOrder, GenerationsGrow, JobIsInOnePlace
  <1>4. ResultsFit /\ FormsFit /\ SocketsFit /\ LateFits
    BY RestingRests DEF ResultsFit, FormsFit, SocketsFit, LateFits, Result
  <1> QED
    BY <1>2, <1>3, <1>4 DEF IInv

LEMMA FinishedTyped ==
  ASSUME NEW w \in WorkerType, NEW result \in Result
  PROVE  Finished(w, result) \in WorkerType
  BY DEF Finished, WorkerType

LEMMA RequestTyped ==
  ASSUME NEW w \in WorkerType, NEW method \in {"GET", "POST"}
  PROVE  Request(w, method) \in WorkerType
  BY DEF Request, WorkerType

\* The job's flags, which a request sets.
LEMMA FlagsTyped ==
  ASSUME NEW w \in WorkerType, NEW flag \in BOOLEAN
  PROVE  /\ [w EXCEPT !.submitting = flag] \in WorkerType
         /\ [w EXCEPT !.redirected = flag] \in WorkerType
  BY DEF WorkerType

LEMMA RedirectTyped ==
  ASSUME NEW w \in WorkerType, NEW method \in {"GET", "POST"}
  PROVE  consumeRedirect(w, method) \in WorkerType
  <1>1. CASE w.redirects < MaxRedirects
    <2> DEFINE r == [Request(w, method) EXCEPT !.redirects = @ + 1]
    <2>1. w.redirects + 1 \in 0..MaxRedirects
      BY <1>1 DEF WorkerType
    <2>2. r \in WorkerType
      BY <2>1 DEF Request, WorkerType
    <2>3. consumeRedirect(w, method) = [r EXCEPT !.redirected = TRUE]
      BY <1>1, <2>2 DEF consumeRedirect, Request, WorkerType
    <2> QED
      BY <2>2, <2>3, FlagsTyped
  <1>2. CASE ~(w.redirects < MaxRedirects)
    BY <1>2 DEF consumeRedirect, WorkerType
  <1> QED
    BY <1>1, <1>2

LEMMA ProbedTyped ==
  ASSUME NEW w \in WorkerType, NEW status, NEW form \in {"none", "GET", "POST"}
  PROVE  Probed(w, status, form) \in WorkerType
  <1>1. form # "none" => [Request(w, form) EXCEPT !.submitting = TRUE] \in WorkerType
    BY RequestTyped, FlagsTyped
  <1>2. {"kInternetAlreadyOpen", "kPortalOpened", "kFailed"} \subseteq Result
    BY DEF Result
  <1> QED
    BY <1>1, <1>2, FinishedTyped DEF Probed

LEMMA MainTyped ==
  ASSUME IInv, Main
  PROVE  TypeOK'
  <1> USE DEF IInv, TypeOK, MainOrder, Generation
  <1>0. waiting' \in BOOLEAN /\ retried' \in BOOLEAN
    BY DEF Main, Associates, StartStore, StartReset, StartSend, Poll, Expires,
           stopNetworkActivity, FailCandidate, Disconnect
  <1>1. ASSUME NEW ap \in Ap, Associates(ap) PROVE TypeOK'
    BY <1>1 DEF Associates, WorkerUnchanged
  <1>2. CASE StartStore
    BY <1>2 DEF StartStore, cancel, WorkerUnchanged
  <1>3. CASE StartReset
    BY <1>3 DEF StartReset, WorkerUnchanged, NoCompletion
  <1>4. CASE StartSend
    BY <1>0, <1>4 DEF StartSend, WorkerUnchanged
  <1>5. CASE Poll
    <2>1. main' \in {"tick", "disconnect"}
      BY <1>5 DEF Poll
    <2>2. completion' = NoCompletion
          /\ UNCHANGED <<worker, late, assoc, networkGeneration, currentGeneration, command>>
      BY <1>5 DEF Poll, WorkerUnchanged
    <2> QED
      BY <1>0, <2>1, <2>2 DEF NoCompletion
  <1>6. ASSUME NEW windowExpired \in BOOLEAN, Expires(windowExpired) PROVE TypeOK'
    BY <1>0, <1>6 DEF Expires, cancel, WorkerUnchanged
  <1>7. CASE stopNetworkActivity
    BY <1>0, <1>7 DEF stopNetworkActivity, cancel, WorkerUnchanged
  <1>8. CASE FailCandidate
    BY <1>8 DEF FailCandidate, WorkerUnchanged
  <1>9. CASE Disconnect
    <2>1. worker' \in WorkerType
      BY <1>9 DEF Disconnect, WorkerType
    <2> QED
      BY <1>9, <2>1 DEF Disconnect
  <1> QED
    BY <1>1, <1>2, <1>3, <1>4, <1>5, <1>6, <1>7, <1>8, <1>9 DEF Main

LEMMA CountLateTyped ==
  ASSUME TypeOK, NEW what \in {"connects", "writes"}, CountLate(what)
  PROVE  late' \in [connects : 0..2, writes : 0..2]
  BY DEF TypeOK, CountLate

LEMMA WorkerTyped ==
  ASSUME IInv, Worker
  PROVE  TypeOK'
  <1> USE DEF IInv, TypeOK, AtWorker, mainVars
  <1>1. CASE Receive
    BY <1>1, JobTyped DEF Receive, NoCommand, Generation
  <1>2. CASE RunLoop
    <2>1. worker' \in WorkerType
      <3>1. [[Request(worker, "GET") EXCEPT !.redirected = FALSE]
               EXCEPT !.submitting = FALSE] \in WorkerType
        BY RequestTyped, FlagsTyped
      <3>2. [Request(worker, "GET") EXCEPT !.redirected = FALSE, !.submitting = FALSE]
              \in WorkerType
        BY <3>1
      <3> QED
        BY <1>2, <3>2, FinishedTyped DEF RunLoop, Result
    <2> QED
      BY <1>2, <2>1 DEF RunLoop
  <1>3. ASSUME NEW ok \in BOOLEAN, Connect(ok) PROVE TypeOK'
    <2>1. worker' \in WorkerType
      BY <1>3 DEF Connect, WorkerType
    <2> QED
      BY <1>3, <2>1, CountLateTyped DEF Connect
  <1>4. ASSUME NEW inTime \in BOOLEAN, CheckWrite(inTime) PROVE TypeOK'
    <2>1. worker' \in WorkerType
      BY <1>4 DEF CheckWrite, WorkerType
    <2> QED
      BY <1>4, <2>1 DEF CheckWrite
  <1>5. CASE Write
    <2>1. Written(worker) \in WorkerType
      BY DEF Written, WorkerType
    <2>2. [worker EXCEPT !.at = "check"] \in WorkerType
      BY DEF WorkerType
    <2>3. worker' \in WorkerType
      BY <1>5, <2>1, <2>2 DEF Write
    <2> QED
      BY <1>5, <2>3, CountLateTyped DEF Write
  <1>6. ASSUME NEW status \in {"none", "303", "307", "204", "page", "error"},
               NEW form \in {"none", "GET", "POST"}, Read(status, form)
        PROVE  TypeOK'
    <2> DEFINE w == [worker EXCEPT !.socket = NoAp]
    <2>1. w \in WorkerType /\ w.method \in {"GET", "POST"}
      BY DEF WorkerType
    <2>2. [w EXCEPT !.at = "failed"] \in WorkerType
      BY <2>1 DEF WorkerType
    <2>3. ASSUME w.submitting
          PROVE  [w EXCEPT !.at = "loop", !.submissions = @ + 1] \in WorkerType
      <3>1. w.submissions + 1 \in 0..MaxSubmissions
        BY <1>6, <2>3 DEF Read, FormsFit, WorkerType
      <3> QED
        BY <2>1, <3>1 DEF WorkerType
    <2>4. worker' \in WorkerType
      BY <1>6, <2>1, <2>2, <2>3, RedirectTyped, ProbedTyped DEF Read
    <2> QED
      BY <1>6, <2>4 DEF Read
  <1>7. CASE RequestFailed
    <2>1. worker' \in WorkerType
      BY <1>7, FinishedTyped DEF RequestFailed, Result
    <2> QED
      BY <1>7, <2>1 DEF RequestFailed
  <1>8. CASE FinishCheck
    <2>1. worker' \in WorkerType
      BY <1>8, RestingTyped DEF FinishCheck, WorkerType
    <2> QED
      BY <1>8, <2>1 DEF FinishCheck
  <1>9. CASE SendCompletion
    <2>1. worker' \in WorkerType /\ worker.generation \in Generation
          /\ worker.result \in Result \union {"none"}
      BY <1>9, RestingTyped DEF SendCompletion, WorkerType
    <2> QED
      BY <1>9, <2>1 DEF SendCompletion
  <1> QED
    BY <1>1, <1>2, <1>3, <1>4, <1>5, <1>6, <1>7, <1>8, <1>9 DEF Worker

----------------------------------------------------------------------------
(* The main task keeps the invariant: a job is given up for good.          *)

LEMMA MainInductive ==
  ASSUME IInv, Main
  PROVE  IInv'
  <1> USE DEF IInv, Generation
  <1>a. TypeOK'
    BY MainTyped
  <1>b. /\ command.generation \in Generation /\ worker.generation \in Generation
        /\ completion.generation \in Generation /\ networkGeneration \in Generation
    BY DEF TypeOK, WorkerType
  \* Handlers that leave the generation alone.
  <1>1. ASSUME NEW ap \in Ap, Associates(ap) PROVE IInv'
    BY <1>1, <1>a, <1>b DEF Associates, WorkerUnchanged, MainOrder, GenerationsGrow,
       JobIsInOnePlace, ResultsFit, FormsFit, SocketsFit, LateFits
  <1>2. CASE StartReset
    BY <1>2, <1>a, <1>b DEF StartReset, WorkerUnchanged, NoCompletion, MainOrder,
       GenerationsGrow, JobIsInOnePlace, ResultsFit, FormsFit, SocketsFit, LateFits
  <1>3. CASE StartSend
    BY <1>3, <1>a, <1>b DEF StartSend, WorkerUnchanged, MainOrder, GenerationsGrow,
       JobIsInOnePlace, ResultsFit, FormsFit, SocketsFit, LateFits
  <1>4. CASE Poll
    <2>1. CASE completionMatchesGeneration(completion)
      BY <1>4, <2>1, <1>a, <1>b DEF Poll, completionMatchesGeneration, WorkerUnchanged,
         NoCompletion, MainOrder, GenerationsGrow, JobIsInOnePlace, ResultsFit, FormsFit,
         SocketsFit, LateFits
    <2>2. CASE ~completionMatchesGeneration(completion)
      BY <1>4, <2>2, <1>a, <1>b DEF Poll, WorkerUnchanged, NoCompletion, MainOrder,
         GenerationsGrow, JobIsInOnePlace, ResultsFit, FormsFit, SocketsFit, LateFits
    <2> QED
      BY <2>1, <2>2
  <1>5. CASE FailCandidate
    BY <1>5, <1>a, <1>b DEF FailCandidate, WorkerUnchanged, MainOrder, GenerationsGrow,
       JobIsInOnePlace, ResultsFit, FormsFit, SocketsFit, LateFits
  \* Connections end with the association; the worker goes on.
  <1>6. CASE Disconnect
    <2>1. /\ worker'.socket = NoAp
          /\ \A field \in {"at", "generation", "home", "submissions", "redirects", "redirected",
                          "submitting", "method", "part", "result"} :
               worker'[field] = worker[field]
      BY <1>6 DEF Disconnect, TypeOK, WorkerType
    <2> QED
      BY <1>6, <2>1, <1>a, <1>b DEF Disconnect, MainOrder, GenerationsGrow,
         JobIsInOnePlace, ResultsFit, FormsFit, SocketsFit, LateFits
  \* Handlers that give the job up: no generation in flight is the new one.
  <1>7. ASSUME /\ networkGeneration' = networkGeneration + 1
               /\ currentGeneration' = networkGeneration'
               /\ UNCHANGED <<command, completion, worker, late, assoc>>
        PROVE  /\ GenerationsGrow' /\ JobIsInOnePlace' /\ ResultsFit'
               /\ FormsFit' /\ SocketsFit' /\ LateFits'
               /\ command.generation # networkGeneration'
               /\ worker.generation # networkGeneration'
               /\ completion.generation # networkGeneration'
    BY <1>7, <1>b DEF GenerationsGrow, JobIsInOnePlace, ResultsFit, FormsFit, SocketsFit,
       LateFits
  <1>8. CASE StartStore
    BY <1>7, <1>8, <1>a, <1>b DEF StartStore, cancel, WorkerUnchanged, MainOrder
  <1>9. ASSUME NEW windowExpired \in BOOLEAN, Expires(windowExpired) PROVE IInv'
    BY <1>7, <1>9, <1>a, <1>b DEF Expires, cancel, WorkerUnchanged, MainOrder
  <1>10. CASE stopNetworkActivity
    BY <1>7, <1>10, <1>a, <1>b DEF stopNetworkActivity, cancel, WorkerUnchanged, MainOrder
  <1> QED
    BY <1>1, <1>2, <1>3, <1>4, <1>5, <1>6, <1>8, <1>9, <1>10 DEF Main

----------------------------------------------------------------------------
(* The worker keeps the invariant.                                         *)

\* A step of the worker that stays within its job.
WithinJob(w) == w.generation = worker.generation /\ w.home = worker.home

\* Such a step, with the queues and the generation as they were, concerns only what the
\* worker is about and what it has done.
LEMMA StaysWithinJob ==
  ASSUME IInv, TypeOK', WithinJob(worker'),
         UNCHANGED <<mainVars, currentGeneration, command, completion>>,
         ResultsFit', FormsFit', SocketsFit', LateFits'
  PROVE  IInv'
  BY DEF IInv, WithinJob, mainVars, MainOrder, GenerationsGrow, JobIsInOnePlace

LEMMA WorkerInductive ==
  ASSUME IInv, Worker
  PROVE  IInv'
  <1> USE DEF IInv, AtWorker, Generation, isCurrent
  <1>a. TypeOK'
    BY WorkerTyped
  <1>b. /\ command.generation \in Generation /\ worker.generation \in Generation
        /\ completion.generation \in Generation /\ networkGeneration \in Generation
        /\ late.connects \in 0..2 /\ late.writes \in 0..2
        /\ late = [connects |-> late.connects, writes |-> late.writes]
        /\ worker \in WorkerType
    BY DEF TypeOK, WorkerType
  <1>1. CASE Receive
    <2>1. /\ worker'.at = "loop" /\ worker'.result = "none"
          /\ worker'.generation = command.generation /\ worker'.home = command.home
      BY <1>1 DEF Receive, Job
    <2> QED
      BY <1>1, <2>1, <1>a, <1>b DEF Receive, NoCommand, mainVars, MainOrder, GenerationsGrow,
         JobIsInOnePlace, ResultsFit, FormsFit, SocketsFit, LateFits
  <1>2. CASE RunLoop
    <2>1. CASE isCurrent
      <3>1. /\ worker'.at = "connect" /\ ~worker'.submitting /\ WithinJob(worker')
            /\ worker'.result = worker.result
        BY <1>2, <2>1, <1>b DEF RunLoop, Request, WithinJob, WorkerType
      <3> QED
        BY <1>2, <2>1, <3>1, <1>a, <1>b, StaysWithinJob DEF RunLoop, WithinJob, mainVars,
           MainOrder, ResultsFit, FormsFit, SocketsFit, LateFits
    <2>2. CASE ~isCurrent
      <3>1. worker'.at = "finish" /\ worker'.result = "kCancelled" /\ WithinJob(worker')
        BY <1>2, <2>2, <1>b DEF RunLoop, Finished, WithinJob, WorkerType
      <3> QED
        BY <1>2, <2>2, <3>1, <1>a, <1>b, StaysWithinJob DEF RunLoop, WithinJob, mainVars,
           MainOrder, ResultsFit, FormsFit, SocketsFit, LateFits, Result
    <2> QED
      BY <2>1, <2>2
  <1>3. ASSUME NEW ok \in BOOLEAN, Connect(ok) PROVE IInv'
    <2>1. /\ worker'.at \in {"check", "failed"} /\ WithinJob(worker')
          /\ worker'.result = worker.result /\ worker'.submitting = worker.submitting
          /\ worker'.submissions = worker.submissions
          /\ worker'.at = "check" => worker'.socket = assoc
      BY <1>3, <1>b DEF Connect, WithinJob, WorkerType
    <2>2. /\ isCurrent => late' = late
          /\ late'.writes = late.writes /\ late'.connects <= late.connects + 1
      BY <1>3, <1>b DEF Connect, CountLate
    <2> QED
      BY <1>3, <2>1, <2>2, <1>a, <1>b, StaysWithinJob DEF Connect, WithinJob, mainVars, MainOrder,
         JobIsInOnePlace, ResultsFit, FormsFit, SocketsFit, LateFits
  <1>4. ASSUME NEW inTime \in BOOLEAN, CheckWrite(inTime) PROVE IInv'
    <2>1. /\ WithinJob(worker')
          /\ worker'.result = worker.result /\ worker'.submitting = worker.submitting
          /\ worker'.submissions = worker.submissions
          /\ worker'.at = "failed" \/ (worker'.at = "write" /\ isCurrent
                                      /\ worker'.socket = worker.socket)
      BY <1>4, <1>b DEF CheckWrite, MayWrite, WithinJob, WorkerType
    <2> QED
      BY <1>4, <2>1, <1>a, <1>b, StaysWithinJob DEF CheckWrite, WithinJob, mainVars, MainOrder,
         ResultsFit, FormsFit, SocketsFit, LateFits
  <1>5. CASE Write
    <2>1. /\ worker'.at \in {"check", "read"} /\ WithinJob(worker')
          /\ worker'.result = worker.result /\ worker'.submitting = worker.submitting
          /\ worker'.submissions = worker.submissions /\ worker'.socket = worker.socket
      BY <1>5, <1>b DEF Write, Written, WithinJob, WorkerType
    <2>2. /\ isCurrent => late' = late
          /\ late'.connects = late.connects /\ late'.writes <= late.writes + 1
      BY <1>5, <1>b DEF Write, CountLate
    <2> QED
      BY <1>5, <2>1, <2>2, <1>a, <1>b, StaysWithinJob DEF Write, WithinJob, mainVars, MainOrder,
         ResultsFit, FormsFit, SocketsFit, LateFits
  <1>6. ASSUME NEW status \in {"none", "303", "307", "204", "page", "error"},
               NEW form \in {"none", "GET", "POST"}, Read(status, form)
        PROVE  IInv'
    <2> DEFINE w == [worker EXCEPT !.socket = NoAp]
    <2>1. /\ w.generation = worker.generation /\ w.home = worker.home
          /\ w.result = worker.result /\ w.submitting = worker.submitting
          /\ w.submissions = worker.submissions /\ w \in WorkerType
      BY <1>b DEF WorkerType
    <2>2. ASSUME NEW method
          PROVE  LET v == consumeRedirect(w, method)
                 IN  /\ v.at \in {"connect", "failed"} /\ WithinJob(v)
                     /\ v.result = w.result /\ v.submitting = w.submitting
                     /\ v.submissions = w.submissions
      BY <2>1 DEF consumeRedirect, Request, WithinJob, WorkerType
    <2>3. LET v == Probed(w, status, form)
          IN  /\ WithinJob(v)
              /\ \/ v.at = "finish" /\ v.result \in Result \ {"kCancelled"}
                 \/ v.at = "connect" /\ v.result = w.result /\ v.submissions < MaxSubmissions
      BY <2>1 DEF Probed, Finished, Request, WithinJob, WorkerType, Result
    <2>4. /\ WithinJob(worker')
          /\ \/ worker'.at \in {"failed", "loop"} /\ worker'.result = worker.result
             \/ worker'.at = "finish" /\ worker'.result \in Result \ {"kCancelled"}
             \/ /\ worker'.at = "connect" /\ worker'.result = worker.result
                /\ worker'.submitting => worker'.submissions < MaxSubmissions
      <3>1. CASE status = "none"
        BY <1>6, <2>1, <3>1 DEF Read, WithinJob, WorkerType
      <3>2. CASE status = "303" \/ status = "307"
        BY <1>6, <2>1, <2>2, <3>2 DEF Read, FormsFit
      <3>3. CASE status \in {"204", "page", "error"} /\ w.submitting
        BY <1>6, <2>1, <3>3 DEF Read, WithinJob, WorkerType
      <3>4. CASE status \in {"204", "page", "error"} /\ ~w.submitting
        BY <1>6, <2>1, <2>3, <3>4 DEF Read
      <3> QED
        BY <3>1, <3>2, <3>3, <3>4
    <2> QED
      BY <1>6, <2>4, <1>a, <1>b, StaysWithinJob DEF Read, WithinJob, mainVars, MainOrder,
         ResultsFit, FormsFit, SocketsFit, LateFits
  <1>7. CASE RequestFailed
    <2>1. /\ worker'.at = "finish" /\ WithinJob(worker')
          /\ worker'.result = IF isCurrent THEN "kFailed" ELSE "kCancelled"
      BY <1>7, <1>b DEF RequestFailed, Finished, WithinJob, WorkerType
    <2> QED
      BY <1>7, <2>1, <1>a, <1>b, StaysWithinJob DEF RequestFailed, WithinJob, mainVars, MainOrder,
         ResultsFit, FormsFit, SocketsFit, LateFits, Result
  <1>8. CASE FinishCheck
    <2>1. CASE isCurrent
      <3>1. worker'.at = "send" /\ worker'.result = worker.result /\ WithinJob(worker')
        BY <1>8, <2>1, <1>b DEF FinishCheck, WithinJob, WorkerType
      <3> QED
        BY <1>8, <3>1, <1>a, <1>b, StaysWithinJob DEF FinishCheck, WithinJob, mainVars,
           MainOrder, ResultsFit, FormsFit, SocketsFit, LateFits
    <2>2. CASE ~isCurrent
      BY <1>8, <2>2, <1>a, <1>b, RestingRests DEF FinishCheck, mainVars, MainOrder,
         GenerationsGrow, JobIsInOnePlace, ResultsFit, FormsFit, SocketsFit, LateFits
    <2> QED
      BY <2>1, <2>2
  <1>9. CASE SendCompletion
    <2>1. /\ worker' = Resting /\ UNCHANGED <<mainVars, currentGeneration, command, late>>
          /\ \/ completion' = completion
             \/ completion' = [generation |-> worker.generation, result |-> worker.result]
      BY <1>9 DEF SendCompletion
    <2> QED
      BY <1>9, <2>1, <1>a, <1>b, RestingRests DEF SendCompletion, mainVars, MainOrder,
         GenerationsGrow, JobIsInOnePlace, ResultsFit, FormsFit, SocketsFit, LateFits
  <1> QED
    BY <1>1, <1>2, <1>3, <1>4, <1>5, <1>6, <1>7, <1>8, <1>9 DEF Worker

LEMMA Inductive == Spec => []IInv
  <1>1. IInv /\ [Next]_vars => IInv'
    <2>1. IInv /\ UNCHANGED vars => IInv'
      BY DEF vars, mainVars, IInv, TypeOK, MainOrder, GenerationsGrow, JobIsInOnePlace,
         ResultsFit, FormsFit, SocketsFit, LateFits
    <2> QED
      BY <2>1, MainInductive, WorkerInductive DEF Next
  <1> QED
    BY <1>1, InitInductive, PTL DEF Spec

----------------------------------------------------------------------------
(* The safety properties.                                                  *)

\* Both tasks' variables keep their types: at most MaxSubmissions forms and MaxRedirects
\* redirects per job.
THEOREM TypeCorrect == Spec => []TypeOK
  <1>1. IInv => TypeOK
    BY DEF IInv
  <1> QED
    BY <1>1, Inductive, PTL

\* What a job writes goes over the access point it was asked on.
THEOREM StaysHome == Spec => []WritesStayHome
  <1>1. IInv => WritesStayHome
    BY DEF IInv, SocketsFit, WritesStayHome
  <1> QED
    BY <1>1, Inductive, PTL

\* A job that was given up makes at most one more connection and one more write.
THEOREM LateWorkBounded == Spec => []LateWorkIsBounded
  <1>1. IInv => LateWorkIsBounded
    BY DEF IInv, LateFits, LateWorkIsBounded
  <1> QED
    BY <1>1, Inductive, PTL

----------------------------------------------------------------------------
(* The promise of PortalJob.                                               *)

\* With the main task's variables and the completion, the job waited for stays.
LEMMA SameJob ==
  ASSUME UNCHANGED <<assoc, waiting, networkGeneration, completion>>
  PROVE  WaitedFor' = WaitedFor
  BY DEF WaitedFor

LEMMA InitPromise == Init => Promise!Init
  BY DEF Init, Promise!Init, WaitedFor, Promise!NoJob

\* A job waited for is a job of the present association.
LEMMA WaitedForIsAsked ==
  ASSUME IInv
  PROVE  /\ waiting <=> WaitedFor # Promise!NoJob
         /\ WaitedFor.ap = IF waiting THEN assoc ELSE NoAp
         /\ WaitedFor.answer = IF waiting /\ completion.generation = networkGeneration
                               THEN completion.result ELSE "none"
  <1>1. waiting => assoc # NoAp
    BY DEF IInv, MainOrder
  <1> QED
    BY <1>1 DEF WaitedFor, Promise!NoJob

LEMMA NextPromise ==
  ASSUME IInv, IInv', [Next]_vars
  PROVE  [Promise!Next]_(Promise!vars)
  <1> USE DEF Promise!vars, WorkerUnchanged
  <1>1. ASSUME NEW ap \in Ap, Associates(ap) PROVE Promise!Associate(ap)
    <2>1. ~waiting /\ ~waiting'
      BY <1>1, WorkerAssumption DEF Associates, IInv, MainOrder
    <2>2. WaitedFor' = WaitedFor
      BY <2>1 DEF WaitedFor
    <2> QED
      BY <1>1, <2>2 DEF Associates, Promise!Associate
  <1>2. CASE StartStore
    <2>1. WaitedFor' = WaitedFor
      BY <1>2 DEF StartStore, WaitedFor
    <2> QED
      BY <1>2, <2>1 DEF StartStore
  <1>3. CASE StartReset
    <2>1. WaitedFor' = WaitedFor
      BY <1>3 DEF StartReset, WaitedFor, IInv, MainOrder
    <2> QED
      BY <1>3, <2>1 DEF StartReset
  <1>4. CASE StartSend
    <2>1. ~waiting /\ assoc # NoAp /\ ~retried /\ completion.generation # networkGeneration
      BY <1>4 DEF StartSend, IInv, MainOrder
    <2>2. CASE command = NoCommand
      <3>1. WaitedFor = Promise!NoJob /\ WaitedFor' = [ap |-> assoc, answer |-> "none"]
        BY <1>4, <2>1, <2>2 DEF StartSend, WaitedFor, Promise!NoJob
      <3>2. Promise!Ask
        BY <1>4, <2>1, <3>1 DEF StartSend, Promise!Ask
      <3> QED
        BY <3>2 DEF Promise!Next
    <2>3. CASE command # NoCommand
      BY <1>4, <2>3, SameJob DEF StartSend
    <2> QED
      BY <2>2, <2>3
  <1>5. CASE Poll
    <2>1. CASE completionMatchesGeneration(completion)
      <3>1. WaitedFor.answer = completion.result /\ completion.result \in Promise!Answer
        BY <1>5, <2>1, WaitedForIsAsked
           DEF Poll, completionMatchesGeneration, IInv, ResultsFit, Result, Promise!Answer
      <3>2. WaitedFor' = Promise!NoJob
        BY <1>5, <2>1 DEF Poll, WaitedFor, Promise!NoJob
      <3>3. Promise!Deliver
        BY <1>5, <2>1, <3>1, <3>2 DEF Poll, Promise!Deliver
      <3> QED
        BY <3>3 DEF Promise!Next
    <2>2. CASE ~completionMatchesGeneration(completion)
      <3>1. NoCompletion.generation # networkGeneration
        BY DEF NoCompletion, IInv, MainOrder, TypeOK, Generation
      <3>2. WaitedFor' = WaitedFor
        BY <1>5, <2>2, <3>1 DEF Poll, completionMatchesGeneration, WaitedFor
      <3> QED
        BY <1>5, <2>2, <3>2 DEF Poll
    <2> QED
      BY <2>1, <2>2
  \* Giving up a job, if there is one.
  <1>6. ASSUME ~waiting', UNCHANGED <<assoc, retried>> PROVE [Promise!Next]_(Promise!vars)
    <2>1. WaitedFor' = Promise!NoJob
      BY <1>6 DEF WaitedFor, Promise!NoJob
    <2>2. CASE waiting
      <3>1. Promise!Drop
        BY <1>6, <2>1, <2>2, WaitedForIsAsked DEF Promise!Drop
      <3> QED
        BY <3>1 DEF Promise!Next
    <2>3. CASE ~waiting
      BY <1>6, <2>1, <2>3, WaitedForIsAsked
    <2> QED
      BY <2>2, <2>3
  <1>7. ASSUME NEW windowExpired \in BOOLEAN, Expires(windowExpired)
        PROVE  [Promise!Next]_(Promise!vars)
    BY <1>6, <1>7 DEF Expires
  <1>8. CASE stopNetworkActivity
    BY <1>6, <1>8 DEF stopNetworkActivity
  <1>9. CASE FailCandidate
    BY <1>9, SameJob DEF FailCandidate
  <1>10. CASE Disconnect
    <2>1. ~waiting /\ ~waiting'
      BY <1>10 DEF Disconnect, IInv, MainOrder
    <2>2. WaitedFor = Promise!NoJob /\ WaitedFor' = Promise!NoJob
      BY <2>1 DEF WaitedFor, Promise!NoJob
    <2>3. Promise!Leave
      BY <1>10, <2>2 DEF Disconnect, Promise!Leave
    <2> QED
      BY <2>3 DEF Promise!Next
  \* Of the worker's steps only the last one shows, if its job is still waited for.
  <1>11. CASE SendCompletion
    <2>0. UNCHANGED <<assoc, waiting, retried, networkGeneration>>
      BY <1>11 DEF SendCompletion, AtWorker, mainVars
    <2>1. CASE completion' = completion
      BY <2>0, <2>1, SameJob
    <2>2. CASE completion' # completion /\ worker.generation = networkGeneration
      <3>1. /\ completion.generation # networkGeneration /\ waiting
            /\ worker.result \in Result \ {"kCancelled"}
            /\ completion' = [generation |-> networkGeneration, result |-> worker.result]
        BY <1>11, <2>2 DEF SendCompletion, AtWorker, IInv, JobIsInOnePlace, ResultsFit
      <3>2. worker.result \in Promise!Answer
        BY <3>1 DEF Result, Promise!Answer
      <3>3. WaitedFor = [ap |-> assoc, answer |-> "none"]
            /\ WaitedFor' = [ap |-> assoc, answer |-> worker.result]
        BY <2>0, <3>1 DEF WaitedFor
      <3>4. Promise!Respond(worker.result)
        BY <2>0, <3>1, <3>3, WaitedForIsAsked DEF Promise!Respond
      <3> QED
        BY <3>2, <3>4 DEF Promise!Next
    <2>3. CASE completion' # completion /\ worker.generation # networkGeneration
      <3>1. /\ completion = NoCompletion
            /\ completion' = [generation |-> worker.generation, result |-> worker.result]
        BY <1>11, <2>3 DEF SendCompletion
      <3>2. completion.generation # networkGeneration
        BY <3>1 DEF NoCompletion, IInv, MainOrder, TypeOK, Generation
      <3>3. WaitedFor' = WaitedFor
        BY <2>0, <2>3, <3>1, <3>2 DEF WaitedFor
      <3> QED
        BY <2>0, <3>3
    <2> QED
      BY <2>1, <2>2, <2>3
  <1>12. ASSUME Worker, ~SendCompletion PROVE UNCHANGED <<mainVars, completion>>
    BY <1>12 DEF Worker, AtWorker, Receive, RunLoop, Connect, CheckWrite, Write, Read,
       RequestFailed, FinishCheck
  <1>13. CASE Worker
    BY <1>11, <1>12, <1>13, SameJob DEF mainVars
  <1>14. CASE UNCHANGED vars
    BY <1>14, SameJob DEF vars, mainVars
  <1>15. CASE Main
    BY <1>1, <1>2, <1>3, <1>4, <1>5, <1>7, <1>8, <1>9, <1>10, <1>15 DEF Main, Promise!Next
  <1> QED
    BY <1>13, <1>14, <1>15 DEF Next

\* Whatever the interleaving of the two tasks, an answer is taken only for the job the
\* main task waits for, at most once and on the association it was asked on.
THEOREM KeepsPromise == Spec => ImplementsPortalJob
  BY InitPromise, NextPromise, Inductive, PTL DEF Spec, ImplementsPortalJob, Promise!Spec

=============================================================================
