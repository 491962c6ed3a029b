-------------------------- MODULE GuestCacheProofs --------------------------
(***************************************************************************)
(* Proofs about GuestCache, for all functions, directories and executions. *)
(*                                                                         *)
(* What keeps user code from being called too often is where a request is: *)
(* before a call it has been called fewer times than there were attempts;  *)
(* and where the function was left out, one call already made means that   *)
(* the executor has died since, which took the function with it.           *)
(***************************************************************************)
EXTENDS GuestCache, TLAPS

Withheld(r) == r.job.function # None /\ "function" \notin r.given

BeforeCall(r) == r.at \in {"send", "dir", "load"}

\* A process that has ended holds nothing.
DeadIsEmpty == ~ executor => cached = {}

\* Fewer calls than attempts, until the next call.
CallsCounted ==
  request # None =>
    /\ request.starts <= request.attempt
    /\ BeforeCall(request) => request.starts < request.attempt

\* A function that was left out is called once, while the executor that has it lives.
WithheldOnce ==
  request # None /\ Withheld(request) =>
    /\ request.starts <= 1
    /\ BeforeCall(request) /\ request.starts = 1 => request.job.function \notin cached

GInv == GuestTypeOK /\ DeadIsEmpty /\ CallsCounted /\ WithheldOnce

-----------------------------------------------------------------------------

\* What a request is made of.
LEMMA RequestFields ==
  ASSUME GuestTypeOK, request # None
  PROVE  /\ request \in Request
         /\ request.job \in Job
         /\ request.job.function \in Function \cup {None}
         /\ request.job.dir \in Dir \cup {None}
         /\ request.given \in SUBSET {"function", "archive"}
         /\ request.attempt \in 1..2
         /\ request.starts \in 0..2
         /\ request.at \in {"send", "dir", "load", "call", "answer"}
         /\ request.error \in BOOLEAN
  BY GuestAssumption DEF GuestTypeOK, Request

\* The initial state satisfies the invariant.
LEMMA InitInv == GuestInit => GInv
  BY DEF GuestInit, GInv, GuestTypeOK, DeadIsEmpty, CallsCounted, WithheldOnce

\* So does a MicroVM just restored.
LEMMA FreshInv == Fresh => GInv'
  BY DEF Fresh, GInv, GuestTypeOK, DeadIsEmpty, CallsCounted, WithheldOnce

\* What the host does keeps it.
LEMMA HostInv ==
  ASSUME GInv, \/ \E job \in Job : Submit(job)
               \/ Record
  PROVE  GInv'
<1>1. ASSUME NEW job \in Job, Submit(job) PROVE GInv'
  <2>. DEFINE r == [job |-> job, given |-> Given(job), attempt |-> 1, starts |-> 0,
                    at |-> "send", error |-> FALSE]
  <2>1. request' = r /\ UNCHANGED <<functions, workingDirs, guest>>
    BY <1>1 DEF Submit
  <2>2. r \in Request
    BY <1>1 DEF Request, Given
  <2>3. GuestTypeOK'
    BY <2>1, <2>2 DEF GInv, GuestTypeOK, guest
  <2>4. CallsCounted' /\ WithheldOnce'
    BY <2>1 DEF CallsCounted, WithheldOnce
  <2>5. DeadIsEmpty'
    BY <2>1 DEF GInv, DeadIsEmpty, guest
  <2>. QED  BY <2>3, <2>4, <2>5 DEF GInv
<1>2. CASE Record
  <2>1. request.job.function \in Function \cup {None} /\ request.job.dir \in Dir \cup {None}
    BY <1>2, RequestFields DEF Record, At, GInv
  <2>2. GuestTypeOK'
    BY <1>2, <2>1 DEF Record, GInv, GuestTypeOK, guest
  <2>. QED  BY <1>2, <2>2 DEF Record, GInv, DeadIsEmpty, CallsCounted, WithheldOnce, guest
<1>. QED  BY <1>1, <1>2

\* The end of an attempt, with the function gone or never called.
LEMMA RetryInv ==
  ASSUME GInv, request # None, Retry,
         executor' \in BOOLEAN, cached' = cached,
         UNCHANGED <<functions, workingDirs, unpacked>>,
         executor' = executor \/ executor' = TRUE,
         request.at # "answer", request.at = "call" => ~ executor
  PROVE  GInv'
<1>1. /\ request \in Request /\ request.job \in Job
      /\ request.given \in SUBSET {"function", "archive"}
      /\ request.attempt \in 1..2 /\ request.starts \in 0..2
  BY RequestFields DEF GInv
<1>2. /\ request' # None /\ request' \in Request
      /\ request'.job = request.job /\ request'.given = request.given
      /\ request'.starts = request.starts
      /\ \/ request.attempt = 1 /\ request'.attempt = 2 /\ request'.at = "send"
         \/ request.attempt = 2 /\ request'.attempt = 2 /\ request'.at = "answer"
  <2>1. CASE request.attempt = 1
    <3>1. request' = [job |-> request.job, given |-> request.given, attempt |-> 2,
                      starts |-> request.starts, at |-> "send", error |-> request.error]
      BY <1>1, <2>1 DEF Retry, Request
    <3>2. request' \in Request
      BY <1>1, <3>1 DEF Request
    <3>. QED  BY <2>1, <3>1, <3>2, NoneIsNoRequest
  <2>2. CASE request.attempt # 1
    <3>1. request' = [job |-> request.job, given |-> request.given,
                      attempt |-> request.attempt, starts |-> request.starts,
                      at |-> "answer", error |-> TRUE]
      BY <1>1, <2>2 DEF Retry, Request
    <3>2. request' \in Request /\ request.attempt = 2
      BY <1>1, <2>2, <3>1 DEF Request
    <3>. QED  BY <3>1, <3>2, NoneIsNoRequest
  <2>. QED  BY <2>1, <2>2
<1>3. GuestTypeOK'
  BY <1>2 DEF GInv, GuestTypeOK, Retry
<1>4. DeadIsEmpty'
  BY DEF GInv, DeadIsEmpty
<1>5. CallsCounted'
  BY <1>1, <1>2 DEF GInv, CallsCounted, BeforeCall
<1>6. WithheldOnce'
  <2>1. SUFFICES ASSUME Withheld(request)
                 PROVE  /\ request.starts <= 1
                        /\ request'.at = "send" /\ request.starts = 1
                             => request.job.function \notin cached
    BY <1>2 DEF WithheldOnce, Withheld, BeforeCall
  <2>2. request.starts <= 1
    BY <2>1 DEF GInv, WithheldOnce
  <2>3. ASSUME request.starts = 1, request.attempt = 1 PROVE request.job.function \notin cached
    <3>1. request.at \in {"call", "answer"} \/ request.starts < request.attempt
      BY RequestFields DEF GInv, CallsCounted, BeforeCall
    <3>2. CASE request.at = "call"
      BY <3>2 DEF GInv, DeadIsEmpty
    <3>. QED  BY <2>3, <3>1, <3>2
  <2>. QED  BY <1>2, <2>2, <2>3
<1>. QED  BY <1>3, <1>4, <1>5, <1>6 DEF GInv

\* A request that goes on, short of a call.
LEMMA MovedInv ==
  ASSUME GInv, request # None, NEW step \in {"dir", "load"},
         BeforeCall(request),
         request' = [request EXCEPT !.at = step],
         executor', cached' = cached, connected' \in BOOLEAN, unpacked' \subseteq Dir,
         UNCHANGED <<functions, workingDirs>>
  PROVE  GInv'
<1>1. /\ request \in Request /\ request.job \in Job
      /\ request.given \in SUBSET {"function", "archive"}
      /\ request.attempt \in 1..2 /\ request.starts \in 0..2 /\ request.error \in BOOLEAN
  BY RequestFields DEF GInv
<1>2. request' = [job |-> request.job, given |-> request.given, attempt |-> request.attempt,
                  starts |-> request.starts, at |-> step, error |-> request.error]
  BY <1>1 DEF Request
<1>3. request' \in Request
  BY <1>1, <1>2 DEF Request
<1>4. GuestTypeOK' /\ DeadIsEmpty'
  BY <1>3 DEF GInv, GuestTypeOK, DeadIsEmpty
<1>5. CallsCounted' /\ WithheldOnce'
  BY <1>2 DEF GInv, CallsCounted, WithheldOnce, Withheld, BeforeCall
<1>. QED  BY <1>4, <1>5 DEF GInv

\* A request that is answered.
LEMMA AnsweredInv ==
  ASSUME GInv, request # None, NEW error \in BOOLEAN, Answer(error),
         executor, cached' \subseteq Function, unpacked' \subseteq Dir,
         UNCHANGED <<functions, workingDirs, executor, connected>>
  PROVE  GInv'
<1>1. /\ request \in Request /\ request.job \in Job
      /\ request.given \in SUBSET {"function", "archive"}
      /\ request.attempt \in 1..2 /\ request.starts \in 0..2
  BY RequestFields DEF GInv
<1>2. request' = [job |-> request.job, given |-> request.given, attempt |-> request.attempt,
                  starts |-> request.starts, at |-> "answer", error |-> error]
  BY <1>1 DEF Request, Answer
<1>3. request' \in Request
  BY <1>1, <1>2 DEF Request
<1>4. GuestTypeOK' /\ DeadIsEmpty'
  BY <1>3 DEF GInv, GuestTypeOK, DeadIsEmpty
<1>5. CallsCounted' /\ WithheldOnce'
  BY <1>2 DEF GInv, CallsCounted, WithheldOnce, Withheld, BeforeCall
<1>. QED  BY <1>4, <1>5 DEF GInv

\* What the guest agent does keeps it.
LEMMA AgentInv ==
  ASSUME GInv, Send \/ Connect \/ ConnectFails \/ HungUp
  PROVE  GInv'
<1>. USE DEF At
<1>1. CASE Send
  <2>1. CASE executor
    <3>1. request' = [request EXCEPT !.at = "dir"]
      BY <1>1, <2>1 DEF Send, GoTo
    <3>. QED  BY <3>1, <1>1, <2>1, MovedInv DEF Send, BeforeCall, GInv, GuestTypeOK
  <2>2. CASE ~ executor
    <3>1. Retry /\ UNCHANGED <<functions, workingDirs, executor, cached, unpacked>>
      BY <1>1, <2>2 DEF Send
    <3>. QED  BY <1>1, <3>1, RetryInv DEF Send, GInv, GuestTypeOK
  <2>. QED  BY <2>1, <2>2
<1>2. CASE Connect
  <2>1. request' = [request EXCEPT !.at = "dir"]
    BY <1>2 DEF Connect, GoTo
  <2>. QED  BY <2>1, <1>2, MovedInv DEF Connect, BeforeCall, GInv, GuestTypeOK
<1>3. CASE ConnectFails
  BY <1>3, RetryInv DEF ConnectFails, GInv, GuestTypeOK
<1>4. CASE HungUp
  BY <1>4, RetryInv DEF HungUp, GInv, GuestTypeOK
<1>. QED  BY <1>1, <1>2, <1>3, <1>4

\* What the executor does keeps it.
LEMMA ExecutorInv ==
  ASSUME GInv, PrepareDir \/ Load \/ Return \/ Die
  PROVE  GInv'
<1>. USE DEF At, Rest
<1>1. CASE PrepareDir
  <2>1. PICK dir \in Dir \cup {None} : dir = request.job.dir
    BY <1>1, RequestFields DEF PrepareDir, GInv
  <2>2. /\ unpacked' \subseteq Dir
        /\ cached' = cached /\ executor
        /\ UNCHANGED <<functions, workingDirs, executor, connected>>
    BY <1>1, <2>1 DEF PrepareDir, GInv, GuestTypeOK
  <2>3. CASE request' = [request EXCEPT !.at = "load"]
    BY <1>1, <2>2, <2>3, MovedInv DEF PrepareDir, BeforeCall, GInv, GuestTypeOK
  <2>4. CASE Answer(TRUE)
    BY <1>1, <2>2, <2>4, AnsweredInv DEF PrepareDir, GInv, GuestTypeOK
  <2>. QED  BY <1>1, <2>3, <2>4 DEF PrepareDir, GoTo
<1>2. CASE Load
  <2>1. request.job.function \in Function \cup {None} /\ request.job \in Job
    BY <1>2, RequestFields DEF Load, GInv
  <2>2. /\ cached' \subseteq Function /\ executor
        /\ UNCHANGED <<functions, workingDirs, executor, connected, unpacked>>
    BY <1>2, <2>1 DEF Load, GInv, GuestTypeOK
  <2>3. CASE Answer(TRUE)
    BY <1>2, <2>2, <2>3, AnsweredInv DEF Load, GInv, GuestTypeOK
  <2>4. CASE /\ \/ request.job.function \in cached \cup {None}
                \/ "function" \in request.given
             /\ request' = [request EXCEPT !.at = "call", !.starts = @ + 1]
    <3>1. /\ request \in Request /\ request.given \in SUBSET {"function", "archive"}
          /\ request.attempt \in 1..2 /\ request.starts \in 0..2
          /\ request.error \in BOOLEAN /\ request.at = "load"
      BY <1>2, RequestFields DEF Load, GInv
    <3>2. request.starts < request.attempt
      BY <1>2 DEF Load, GInv, CallsCounted, BeforeCall
    <3>3. request' = [job |-> request.job, given |-> request.given,
                      attempt |-> request.attempt, starts |-> request.starts + 1,
                      at |-> "call", error |-> request.error]
      BY <2>4, <3>1 DEF Request
    <3>4. request.starts + 1 \in 0..2 /\ request.starts + 1 <= request.attempt
      BY <3>1, <3>2
    <3>5. request' \in Request
      BY <2>1, <3>1, <3>3, <3>4 DEF Request
    <3>6. GuestTypeOK' /\ DeadIsEmpty'
      BY <2>2, <3>5 DEF GInv, GuestTypeOK, DeadIsEmpty
    <3>7. CallsCounted'
      BY <3>3, <3>4 DEF CallsCounted, BeforeCall
    <3>8. WithheldOnce'
      <4>1. SUFFICES ASSUME Withheld(request) PROVE request.starts + 1 <= 1
        BY <3>3 DEF WithheldOnce, Withheld, BeforeCall
      <4>2. request.job.function \in cached
        BY <2>4, <4>1 DEF Withheld
      <4>3. request.starts <= 1 /\ request.starts # 1
        BY <1>2, <4>1, <4>2 DEF Load, GInv, WithheldOnce, BeforeCall
      <4>. QED  BY <3>1, <4>3
    <3>. QED  BY <3>6, <3>7, <3>8 DEF GInv
  <2>. QED  BY <1>2, <2>3, <2>4 DEF Load
<1>3. CASE Return
  BY <1>3, AnsweredInv DEF Return, GInv, GuestTypeOK
<1>4. CASE Die
  <2>1. GuestTypeOK' /\ DeadIsEmpty' /\ CallsCounted'
    BY <1>4 DEF Die, GInv, GuestTypeOK, DeadIsEmpty, CallsCounted, BeforeCall
  <2>2. WithheldOnce'
    BY <1>4 DEF Die, GInv, WithheldOnce, Withheld, BeforeCall
  <2>. QED  BY <2>1, <2>2 DEF GInv
<1>. QED  BY <1>1, <1>2, <1>3, <1>4

\* The invariant is inductive.
LEMMA NextInv == GInv /\ [GuestNext]_vars => GInv'
<1>. SUFFICES ASSUME GInv, [GuestNext]_vars PROVE GInv'
  OBVIOUS
<1>1. ASSUME NEW job \in Job, ArchiveUnreadable(job) PROVE GInv'
  BY <1>1, FreshInv DEF ArchiveUnreadable
<1>2. CASE Replace \/ GiveUp
  BY <1>2, FreshInv DEF Replace, GiveUp
<1>3. CASE UNCHANGED vars
  BY <1>3 DEF vars, guest, GInv, GuestTypeOK, DeadIsEmpty, CallsCounted, WithheldOnce,
              Withheld, BeforeCall
<1>. QED  BY <1>1, <1>2, <1>3, HostInv, AgentInv, ExecutorInv DEF GuestNext, GuestStep

\* The invariant holds in every reachable state.
LEMMA Invariance == GuestSpec => []GInv
<1>. QED  BY InitInv, NextInv, PTL DEF GuestSpec

\* The caches, and where a request is, keep their types: there are two attempts
\* and no third.
THEOREM GuestTypeCorrect == GuestSpec => []GuestTypeOK
<1>1. GInv => GuestTypeOK
  BY DEF GInv
<1>. QED  BY <1>1, Invariance, PTL

\* executor_request calls user code twice at most, and once where the host has left
\* the function out.
THEOREM UserCodeRunsOnceOrTwice == GuestSpec => []RerunsBounded
<1>1. GInv => RerunsBounded
  BY DEF GInv, RerunsBounded, CallsCounted, WithheldOnce, Withheld
<1>. QED  BY <1>1, Invariance, PTL

-----------------------------------------------------------------------------

\* From where the working directory is prepared, and from where user code is called
\* to the answer, the guest has what the execution needs, unless the executor has died.
Delivered ==
  request # None =>
    /\ request.at \in {"load", "call"} \/ (request.at = "answer" /\ ~ request.error)
         => request.job.dir \in unpacked \cup {None}
    /\ executor /\ (request.at = "call" \/ (request.at = "answer" /\ ~ request.error))
         => request.job.function \in cached \cup {None}

\* The fields an EXCEPT leaves alone, and the one it sets.
LEMMA GoToFields ==
  ASSUME GInv, request # None, NEW step, GoTo(step)
  PROVE  /\ request'.at = step /\ request'.job = request.job
         /\ request'.error = request.error
  BY RequestFields DEF GInv, GoTo, Request

LEMMA AnswerFields ==
  ASSUME GInv, request # None, NEW error, Answer(error)
  PROVE  /\ request'.at = "answer" /\ request'.job = request.job
         /\ request'.error = error
  BY RequestFields DEF GInv, Answer, Request

\* An attempt that ends has delivered nothing yet, or failed.
LEMMA RetryFields ==
  ASSUME GInv, request # None, Retry
  PROVE  request'.at = "send" \/ (request'.at = "answer" /\ request'.error = TRUE)
<1>1. CASE request.attempt = 1
  <2>1. request' = [job |-> request.job, given |-> request.given, attempt |-> 2,
                    starts |-> request.starts, at |-> "send", error |-> request.error]
    BY <1>1, RequestFields DEF GInv, Retry, Request
  <2>. QED  BY <2>1
<1>2. CASE request.attempt # 1
  <2>1. request' = [request EXCEPT !.at = "answer", !.error = TRUE]
    BY <1>2 DEF Retry
  <2>. QED  BY <2>1, RequestFields DEF GInv, Request
<1>. QED  BY <1>1, <1>2

LEMMA DeliveredStep == GInv /\ Delivered /\ [GuestNext]_vars => Delivered'
<1>. SUFFICES ASSUME GInv, Delivered, [GuestNext]_vars PROVE Delivered'
  OBVIOUS
<1>. USE DEF Delivered, At, Rest
<1>1. CASE Fresh
  BY <1>1 DEF Fresh
<1>2. ASSUME NEW job \in Job, Submit(job) PROVE Delivered'
  BY <1>2 DEF Submit
<1>3. CASE Record
  BY <1>3 DEF Record
<1>4. CASE request # None /\ Retry
  BY <1>4, RetryFields
<1>5. CASE Send \/ Connect
  BY <1>4, <1>5, GoToFields DEF Send, Connect
<1>6. CASE ConnectFails \/ HungUp
  BY <1>4, <1>6 DEF ConnectFails, HungUp
<1>7. CASE PrepareDir
  <2>1. request # None /\ UNCHANGED <<executor, cached>>
    BY <1>7 DEF PrepareDir
  <2>2. CASE GoTo("load") /\ request.job.dir \in unpacked' \cup {None}
    BY <2>1, <2>2, GoToFields
  <2>3. CASE Answer(TRUE)
    BY <2>1, <2>3, AnswerFields
  <2>. QED  BY <1>7, <2>2, <2>3 DEF PrepareDir
<1>8. CASE Load
  <2>1. request # None /\ UNCHANGED <<executor, unpacked>>
    BY <1>8 DEF Load
  <2>2. CASE Answer(TRUE)
    BY <2>1, <2>2, AnswerFields
  <2>3. CASE /\ request' = [request EXCEPT !.at = "call", !.starts = @ + 1]
             /\ cached' = cached \cup ({request.job.function} \ {None})
    <3>1. request'.at = "call" /\ request'.job = request.job
      BY <2>1, <2>3, RequestFields DEF GInv, Request
    <3>. QED  BY <1>8, <2>1, <2>3, <3>1 DEF Load
  <2>. QED  BY <1>8, <2>2, <2>3 DEF Load
<1>9. CASE Return
  <2>1. Answer(TRUE) \/ Answer(FALSE)
    BY <1>9 DEF Return
  <2>2. request'.at = "answer" /\ request'.job = request.job
    BY <1>9, <2>1, AnswerFields DEF Return
  <2>3. request # None /\ request.at = "call" /\ UNCHANGED <<executor, cached, unpacked>>
    BY <1>9 DEF Return
  <2>4. /\ request.job.dir \in unpacked \cup {None}
        /\ executor => request.job.function \in cached \cup {None}
    BY <2>3
  <2>. QED  BY <2>2, <2>3, <2>4
<1>10. CASE Die
  BY <1>10 DEF Die
<1>11. CASE UNCHANGED vars
  BY <1>11 DEF vars, guest
<1>. QED
  BY <1>1, <1>2, <1>3, <1>5, <1>6, <1>7, <1>8, <1>9, <1>10, <1>11
  DEF GuestNext, GuestStep, ArchiveUnreadable, Replace, GiveUp

\* Where the host's beliefs become wrong, in one step.
LEMMA StepExplained ==
  ASSUME Delivered, [GuestNext]_vars
  PROVE  /\ ~ MissingFunctions' \subseteq MissingFunctions =>
              \/ executor /\ ~ executor'
              \/ At("answer") /\ (request.error \/ ~ executor)
         /\ ~ MissingDirs' \subseteq MissingDirs => At("answer") /\ request.error
<1>. USE DEF Rest, MissingFunctions, MissingDirs
<1>1. CASE Fresh
  BY <1>1 DEF Fresh
<1>2. CASE /\ UNCHANGED <<functions, workingDirs>>
           /\ cached \subseteq cached' /\ unpacked \subseteq unpacked'
  BY <1>2
<1>3. ASSUME NEW job \in Job, Submit(job) PROVE UNCHANGED <<functions, workingDirs, guest>>
  BY <1>3 DEF Submit
<1>4. CASE Record
  BY <1>4 DEF Record, Delivered, At, guest
<1>5. CASE GuestStep
  BY <1>2, <1>5 DEF GuestStep, Send, Connect, ConnectFails, HungUp, PrepareDir, Load, Return
<1>6. CASE Die
  BY <1>6 DEF Die
<1>. QED
  BY <1>1, <1>2, <1>3, <1>4, <1>5, <1>6
  DEF GuestNext, ArchiveUnreadable, Replace, GiveUp, vars, guest

\* The host comes to be wrong about what a MicroVM has only where its executor dies or
\* an execution fails, whatever is executed in whatever order.
THEOREM BeliefsExplained == GuestSpec => FalseBeliefsExplained
<1>1. GuestInit => Delivered
  BY DEF GuestInit, Delivered
<1>2. Delivered /\ [GuestNext]_vars =>
        [/\ ~ MissingFunctions' \subseteq MissingFunctions =>
              \/ executor /\ ~ executor'
              \/ At("answer") /\ (request.error \/ ~ executor)
         /\ ~ MissingDirs' \subseteq MissingDirs => At("answer") /\ request.error]_vars
  BY StepExplained
<1>. QED  BY <1>1, <1>2, DeliveredStep, Invariance, PTL DEF GuestSpec, FalseBeliefsExplained
=============================================================================
