--------------------------- MODULE VmStartLimiter ---------------------------
(***************************************************************************)
(* VmStartLimiter of platform/src/node.rs: how many MicroVMs an agent      *)
(* starts at a time.  A count behind a std mutex says who may start; a     *)
(* tokio Notify wakes those who may not yet.  The two are separate, so     *)
(* what is delicate is that no wake-up is lost between them.               *)
(*                                                                         *)
(* Tasks are the spawned run_execution calls and the agent's main loop,    *)
(* which starts warm MicroVMs itself and, between that, applies the limit  *)
(* the controller answers to a heartbeat.                                  *)
(***************************************************************************)
EXTENDS Integers, FiniteSets

CONSTANTS
  Task,       \* bound: the tasks that start MicroVMs
  Main,       \* the agent's main loop, one of them
  Requested   \* the limits the controller and the command line ask for

ASSUME LimiterAssumption ==
  /\ IsFiniteSet(Task)
  /\ Main \in Task
  /\ Requested \subseteq Nat /\ Requested # {}

VARIABLES
  active,       \* VmStartLimiterState.active
  limit,        \* VmStartLimiterState.limit
  unannounced,  \* set_limit has stored a limit and has yet to call notify_waiters
  pc,           \* where a task is in acquire, or with its permit
  note,         \* the state of the task's Notified future
  permit        \* the Notify holds a notification nobody was waiting for

vars == <<active, limit, unannounced, pc, note, permit>>

TypeOK ==
  /\ active \in Nat
  /\ limit \in Nat \ {0}
  /\ unannounced \in BOOLEAN
  /\ pc \in [Task -> {"out", "created", "checking", "parked", "took",
                      "starting", "freed"}]
  /\ note \in [Task -> {"none", "init", "waiting", "one", "all", "done"}]
  /\ permit \in BOOLEAN

\* limit.max(1).
AtLeastOne(l) == IF l = 0 THEN 1 ELSE l

Init ==
  /\ active = 0
  /\ limit \in {AtLeastOne(l) : l \in Requested}
  /\ unannounced = FALSE
  /\ pc = [t \in Task |-> "out"]
  /\ note = [t \in Task |-> "none"]
  /\ permit = FALSE

-----------------------------------------------------------------------------
(* tokio's Notify.  Whom notify_one wakes is left open: FIFO is not needed.*)

Waiting(notes) == {t \in Task : notes[t] = "waiting"}

\* notify_one: one waiter is woken, or the notification is kept for the next.
NotifyOne(notes) ==
  IF Waiting(notes) = {}
  THEN permit' = TRUE /\ note' = notes
  ELSE /\ \E w \in Waiting(notes) : note' = [notes EXCEPT ![w] = "one"]
       /\ UNCHANGED permit

\* notify_waiters: every future that exists by now is woken.
NotifyWaiters(notes) ==
  note' = [t \in Task |-> IF notes[t] \in {"init", "waiting"} THEN "all" ELSE notes[t]]

\* The first poll of a Notified, which enable() is: it takes a notification
\* that was kept or joins the waiters, unless all have been woken meanwhile.
Register(t) ==
  /\ note' = [note EXCEPT ![t] = IF permit THEN "done"
                                 ELSE IF note[t] = "all" THEN "all" ELSE "waiting"]
  /\ permit' = FALSE

\* A Notified is dropped: what woke it alone goes to another waiter.
DropNotified(t) ==
  LET dropped == [note EXCEPT ![t] = "none"]
  IN  IF note[t] = "one" THEN NotifyOne(dropped)
      ELSE note' = dropped /\ UNCHANGED permit

-----------------------------------------------------------------------------
(* acquire, one step for each access to the mutex or the Notify.           *)

Goto(t, label) == pc' = [pc EXCEPT ![t] = label]

\* A call begins, or another turn of its loop: notified().
Create(t) ==
  /\ \/ pc[t] = "out" /\ (t = Main => ~ unannounced)
     \/ pc[t] = "parked" /\ note[t] \in {"one", "all", "done"}
  /\ note' = [note EXCEPT ![t] = "init"]
  /\ Goto(t, "created")
  /\ UNCHANGED <<active, limit, unannounced, permit>>

Enable(t) ==
  /\ pc[t] = "created"
  /\ Register(t)
  /\ Goto(t, "checking")
  /\ UNCHANGED <<active, limit, unannounced>>

Check(t) ==
  /\ pc[t] = "checking"
  /\ IF active < limit
     THEN active' = active + 1 /\ Goto(t, "took")
     ELSE UNCHANGED active /\ Goto(t, "parked")
  /\ UNCHANGED <<limit, unannounced, note, permit>>

\* acquire returns and its Notified goes out of scope.
Return(t) ==
  /\ pc[t] = "took"
  /\ DropNotified(t)
  /\ Goto(t, "starting")
  /\ UNCHANGED <<active, limit, unannounced>>

\* The permit is dropped once start_vm is over, in two steps.
Free(t) ==
  /\ pc[t] = "starting"
  /\ active' = IF active = 0 THEN 0 ELSE active - 1
  /\ Goto(t, "freed")
  /\ UNCHANGED <<limit, unannounced, note, permit>>

\* Mutant: nobody is told.
Announce_Silent(t) ==
  /\ pc[t] = "freed"
  /\ Goto(t, "out")
  /\ UNCHANGED <<active, limit, unannounced, note, permit>>

Announce(t) ==
  /\ pc[t] = "freed"
  /\ NotifyOne(note)
  /\ Goto(t, "out")
  /\ UNCHANGED <<active, limit, unannounced>>

\* set_limit by the main loop: a new limit is stored, then announced.
StoreLimit(l) ==
  /\ pc[Main] = "out"
  /\ ~ unannounced
  /\ limit # AtLeastOne(l)
  /\ limit' = AtLeastOne(l)
  /\ unannounced' = TRUE
  /\ UNCHANGED <<active, pc, note, permit>>

\* Mutant: a new limit wakes a single waiter.
AnnounceLimit_One ==
  /\ unannounced
  /\ NotifyOne(note)
  /\ unannounced' = FALSE
  /\ UNCHANGED <<active, limit, pc>>

AnnounceLimit ==
  /\ unannounced
  /\ NotifyWaiters(note)
  /\ unannounced' = FALSE
  /\ UNCHANGED <<active, limit, pc, permit>>

Acquiring(t) == Create(t) \/ Enable(t) \/ Check(t) \/ Return(t)

Next ==
  \/ \E t \in Task : Acquiring(t) \/ Free(t) \/ Announce(t)
  \/ \E l \in Requested : StoreLimit(l)
  \/ AnnounceLimit

Spec == Init /\ [][Next]_vars

-----------------------------------------------------------------------------
(* Safety. *)

\* `active` counts the permits that are out: neither a permit dropped by a start
\* that fails nor the saturating subtraction lets it drift, which would lose
\* starts for good or let too many happen at once.
PermitsCounted == active = Cardinality({t \in Task : pc[t] \in {"took", "starting"}})

\* A task that sleeps until it is notified.
Asleep(t) == pc[t] = "parked" /\ note[t] = "waiting"

\* A task that will look at the count again, or will wake one that does.
Stirring(t) ==
  \/ pc[t] \in {"created", "checking", "freed"}
  \/ pc[t] = "parked" /\ note[t] \in {"one", "all", "done"}
  \/ pc[t] = "took" /\ note[t] = "one"

\* Nobody sleeps on a free permit, whatever the order of drops, checks and
\* changes of the limit, unless someone is about to look again or to wake.
NoLostWakeup ==
  active < limit /\ (\E t \in Task : Asleep(t))
    => unannounced \/ \E t \in Task : Stirring(t)

-----------------------------------------------------------------------------
(* Liveness. *)

\* The runtime polls every task that is woken, and start_vm ends, its waits for
\* the guest being limited to 10 and 30 seconds.
Fairness ==
  /\ \A t \in Task : WF_vars(pc[t] # "out" /\ Acquiring(t))
  /\ \A t \in Task : WF_vars(Free(t) \/ Announce(t))
  /\ WF_vars(AnnounceLimit)

LiveSpec == Spec /\ Fairness

\* Once nobody else asks, everyone who has asked for a permit gets one and is
\* done with it.  (A newcomer may take a permit ahead of one just woken, so
\* without the premise a task may starve.)
StartsAreGranted ==
  <>[][\A t \in Task : pc[t] = "out" => pc'[t] = "out"]_vars
    => <>[](\A t \in Task : pc[t] = "out")
=============================================================================
