----------------------------- MODULE GuestCache -----------------------------
(***************************************************************************)
(* A MicroVM that is reused: the host (run_execution in                    *)
(* platform/src/node.rs), the guest agent (guest/scraperack-init) and the  *)
(* executor it talks to (guest/scraperack-python-executor).                *)
(*                                                                         *)
(* Functions and working directories are sent to a MicroVM once.  The host *)
(* notes what it believes the guest to have and leaves it out of the next  *)
(* request; the executor keeps functions in memory, where they end with    *)
(* its process, and working directories in the MicroVM's /tmp.  The guest  *)
(* agent sends a request again, to an executor it starts anew, when the    *)
(* one it had does not answer.                                             *)
(*                                                                         *)
(* A MicroVM has one execution at a time and shares nothing with others,   *)
(* so there is one; when it is destroyed the next one takes its place.     *)
(***************************************************************************)
EXTENDS Integers

CONSTANTS
  Function,  \* cache_key, or hash: what a function is known by
  Dir,       \* digests of working directories
  Job,       \* the executions users submit
  None       \* other payloads have no function; few have a working directory

ASSUME GuestAssumption ==
  /\ None \notin Function /\ None \notin Dir
  /\ Job \subseteq [function : Function \cup {None}, dir : Dir \cup {None}]

VARIABLES
  functions, workingDirs,  \* LiveVm, at the host
  executor,                \* executor_process is running
  connected,               \* executor_connection
  cached, unpacked,        \* FUNCTIONS and WORKING_DIRS
  request

guest == <<executor, connected, cached, unpacked>>
vars == <<functions, workingDirs, guest, request>>

\* `given` is what the host has not left out, `attempt` that of executor_request,
\* `starts` how often user code was called.
Request == [job : Job, given : SUBSET {"function", "archive"}, attempt : 1..2, starts : 0..2,
            at : {"send", "dir", "load", "call", "answer"}, error : BOOLEAN]

ASSUME NoneIsNoRequest == None \notin Request

GuestTypeOK ==
  /\ functions \subseteq Function /\ cached \subseteq Function
  /\ workingDirs \subseteq Dir /\ unpacked \subseteq Dir
  /\ executor \in BOOLEAN /\ connected \in BOOLEAN
  /\ request \in Request \cup {None}

\* start_vm: restored from a snapshot, with an executor that has answered before.
Fresh ==
  /\ functions' = {} /\ workingDirs' = {}
  /\ executor' = TRUE /\ connected' = TRUE
  /\ cached' = {} /\ unpacked' = {}
  /\ request' = None

GuestInit ==
  /\ functions = {} /\ workingDirs = {}
  /\ executor = TRUE /\ connected = TRUE
  /\ cached = {} /\ unpacked = {}
  /\ request = None

At(step) == request # None /\ request.at = step

GoTo(step) == request' = [request EXCEPT !.at = step]

-----------------------------------------------------------------------------
(* The host. *)

\* A pool's MicroVM is destroyed and another one started.
Replace == request = None /\ Fresh

Given(job) ==
  {what \in {"function", "archive"} :
     IF what = "function" THEN job.function \notin functions \cup {None}
                          ELSE job.dir \notin workingDirs \cup {None}}

\* Mutant: what goes out is noted at once.
Submit_NotedAtOnce(job) ==
  /\ request = None
  /\ request' = [job |-> job, given |-> Given(job), attempt |-> 1, starts |-> 0,
                 at |-> "send", error |-> FALSE]
  /\ functions' = functions \cup ({job.function} \ {None})
  /\ UNCHANGED <<workingDirs, guest>>

Submit(job) ==
  /\ request = None
  /\ request' = [job |-> job, given |-> Given(job), attempt |-> 1, starts |-> 0,
                 at |-> "send", error |-> FALSE]
  /\ UNCHANGED <<functions, workingDirs, guest>>

\* The archive is to be sent and cannot be read.
ArchiveUnreadable(job) ==
  /\ request = None
  /\ "archive" \in Given(job)
  /\ Fresh

\* The guest has answered: the MicroVM is healthy, whether or not the execution failed.
Record ==
  /\ At("answer")
  /\ workingDirs' = workingDirs \cup ({request.job.dir} \ {None})
  /\ functions' = IF request.job.dir = None \/ ~ request.error
                  THEN functions \cup ({request.job.function} \ {None})
                  ELSE functions
  /\ request' = None
  /\ UNCHANGED guest

\* It has not, in time or at all.
GiveUp == request # None /\ Fresh

-----------------------------------------------------------------------------
(* The guest agent: executor_request. *)

\* Mutant: it tries again and again.
Retry_Endless ==
  /\ connected' = FALSE
  /\ GoTo("send")

\* The attempt is over: the next one, or the exception becomes the answer.
Retry ==
  /\ connected' = FALSE
  /\ request' = IF request.attempt = 1 THEN [request EXCEPT !.attempt = 2, !.at = "send"]
                ELSE [request EXCEPT !.at = "answer", !.error = TRUE]

\* Over the connection there is, which may be one to an executor that has died.
Send ==
  /\ At("send") /\ connected
  /\ IF executor THEN GoTo("dir") /\ UNCHANGED connected ELSE Retry
  /\ UNCHANGED <<functions, workingDirs, executor, cached, unpacked>>

\* connect_executor: with a new process unless there is one.
Connect ==
  /\ At("send") /\ ~ connected
  /\ executor' = TRUE
  /\ connected' = TRUE
  /\ GoTo("dir")
  /\ UNCHANGED <<functions, workingDirs, cached, unpacked>>

\* The new one exits or is too slow, or the old one has not been reaped yet, so that it
\* passes for one that runs.
ConnectFails ==
  /\ At("send") /\ ~ connected
  /\ executor' \in BOOLEAN
  /\ executor => executor'
  /\ Retry
  /\ UNCHANGED <<functions, workingDirs, cached, unpacked>>

\* The executor is gone before it has answered.
HungUp ==
  /\ At("dir") \/ At("load") \/ At("call")
  /\ ~ executor
  /\ Retry
  /\ UNCHANGED <<functions, workingDirs, executor, cached, unpacked>>

-----------------------------------------------------------------------------
(* The executor. *)

Answer(error) == request' = [request EXCEPT !.at = "answer", !.error = error]

Rest == UNCHANGED <<functions, workingDirs, executor, connected>>

\* prepare_working_dir; an archive may be damaged, or too large for /tmp.
PrepareDir ==
  /\ At("dir") /\ executor
  /\ LET dir == request.job.dir
     IN  \/ dir \in unpacked \cup {None} /\ GoTo("load") /\ UNCHANGED unpacked
         \/ /\ dir \notin unpacked \cup {None} /\ "archive" \in request.given
            /\ GoTo("load")
            /\ unpacked' = unpacked \cup {dir}
         \/ dir \notin unpacked \cup {None} /\ Answer(TRUE) /\ UNCHANGED unpacked
  /\ Rest /\ UNCHANGED cached

\* execute, up to the call: the function, unless it is there, and its parameters.
Load ==
  /\ At("load") /\ executor
  /\ LET function == request.job.function
     IN  \/ /\ function \in cached \cup {None} \/ "function" \in request.given
            /\ cached' = cached \cup ({function} \ {None})
            /\ \/ request' = [request EXCEPT !.at = "call", !.starts = @ + 1]
               \/ Answer(TRUE)
         \/ function \notin cached \cup {None} /\ Answer(TRUE) /\ UNCHANGED cached
  /\ Rest /\ UNCHANGED unpacked

\* User code returns or raises.
Return ==
  /\ At("call") /\ executor
  /\ \E error \in BOOLEAN : Answer(error)
  /\ Rest /\ UNCHANGED <<cached, unpacked>>

\* The executor's process ends: by what user code does, or for want of memory.
Die ==
  /\ executor
  /\ executor' = FALSE
  /\ cached' = {}
  /\ UNCHANGED <<functions, workingDirs, connected, unpacked, request>>

-----------------------------------------------------------------------------

GuestStep == Send \/ Connect \/ ConnectFails \/ HungUp \/ PrepareDir \/ Load \/ Return

GuestNext ==
  \/ \E job \in Job : Submit(job) \/ ArchiveUnreadable(job)
  \/ Replace \/ Record \/ GiveUp \/ Die
  \/ GuestStep

\* The guest agent and the executor go on, and user code comes to an end.
GuestSpec == GuestInit /\ [][GuestNext]_vars /\ WF_vars(GuestStep)
-----------------------------------------------------------------------------
(* Safety. *)

\* What the host leaves out of requests and the guest does not have: an execution that
\* needs it fails in this MicroVM, and so does every one after it.
MissingFunctions == functions \ cached
MissingDirs == workingDirs \ unpacked

\* The host comes to be wrong about a function only as the executor that had it dies,
\* or before its answer is noted, or where an execution failed before it was loaded; and
\* about a working directory only where the execution that brought it failed.
FalseBeliefsExplained ==
  [][/\ ~ MissingFunctions' \subseteq MissingFunctions =>
          \/ executor /\ ~ executor'
          \/ At("answer") /\ (request.error \/ ~ executor)
     /\ ~ MissingDirs' \subseteq MissingDirs => At("answer") /\ request.error]_vars

\* User code is called a second time for an execution only in an executor started for the
\* second attempt, and never where the function had been left out: the host's
\* belief keeps a retry from running the code twice.
RerunsBounded ==
  request # None =>
    /\ request.starts <= request.attempt
    /\ request.job.function # None /\ "function" \notin request.given => request.starts <= 1

-----------------------------------------------------------------------------
(* Liveness. *)

\* Every request is answered without the host's timeout, however often the
\* executor dies.
GuestAnswers == request # None ~> request = None \/ At("answer")
=============================================================================
