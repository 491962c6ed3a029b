------------------------ MODULE VmStartLimiterProofs ------------------------
(***************************************************************************)
(* Proofs about VmStartLimiter, for any number of tasks and any limits.    *)
(*                                                                         *)
(* That nobody sleeps on a free permit is not inductive: a step may use up *)
(* one of two wake-ups while two permits are free.  What is inductive is a *)
(* count: while somebody sleeps and no new limit is to be announced, there *)
(* are at least as many wake-ups on their way as there are free permits.   *)
(***************************************************************************)
EXTENDS VmStartLimiter, FiniteSetTheorems, TLAPS

Woken == {"one", "all", "done"}

\* What the state of a task says of its future.
NotesMatch ==
  \A t \in Task :
    /\ pc[t] \in {"out", "starting", "freed"} => note[t] = "none"
    /\ pc[t] = "created" => note[t] \in {"init", "all"}
    /\ pc[t] \in {"checking", "parked", "took"} => note[t] \in {"waiting"} \cup Woken

\* The tasks that will look at the count, or wake another, of their own.
Looking == {t \in Task : \/ pc[t] \in {"created", "checking", "freed"}
                         \/ pc[t] = "parked" /\ note[t] \in Woken}

\* The tasks woken alone while not asleep: they pass it on if they get a permit.
Passing == {t \in Task : pc[t] \in {"checking", "took"} /\ note[t] = "one"}

Wakeups == Cardinality(Looking) + Cardinality(Passing)

Enough == (\E t \in Task : Asleep(t)) /\ ~ unannounced => limit <= active + Wakeups

Out == {t \in Task : pc[t] \in {"took", "starting"}}

IInv == TypeOK /\ NotesMatch /\ PermitsCounted /\ Enough

-----------------------------------------------------------------------------

\* The sets that are counted are finite.
LEMMA Subsets == /\ IsFiniteSet(Looking) /\ IsFiniteSet(Passing) /\ IsFiniteSet(Out)
                 /\ Cardinality(Looking) \in Nat
                 /\ Cardinality(Passing) \in Nat
                 /\ Cardinality(Out) \in Nat
<1>1. Looking \subseteq Task /\ Passing \subseteq Task /\ Out \subseteq Task
  BY DEF Looking, Passing, Out
<1> QED BY <1>1, LimiterAssumption, FS_Subset, FS_CardinalityType

\* What adding or removing one element does to a finite set's cardinality.
LEMMA OneMore ==
  ASSUME NEW S, IsFiniteSet(S), NEW x
  PROVE  /\ x \notin S => Cardinality(S \cup {x}) = Cardinality(S) + 1
         /\ x \in S => Cardinality(S \ {x}) = Cardinality(S) - 1
         /\ Cardinality(S) \in Nat
BY FS_AddElement, FS_RemoveElement, FS_CardinalityType

\* The arithmetic of the counts.
LEMMA Slack ==
  /\ \A l, a, w \in Nat : l <= a => l <= a + w
  /\ \A l, a, w, v \in Nat : v >= w /\ l <= a + w => l <= a + v
  /\ \A l, a, w, b, v \in Nat : b >= a - 1 /\ v = w + 1 /\ l <= a + w => l <= b + v
OBVIOUS

LEMMA Limits ==
  ASSUME NEW l \in Requested
  PROVE  AtLeastOne(l) \in Nat \ {0}
BY LimiterAssumption DEF AtLeastOne

LEMMA InitIInv == Init => IInv
<1> SUFFICES ASSUME Init PROVE IInv
  OBVIOUS
<1>1. TypeOK
  BY Limits DEF Init, TypeOK
<1>2. NotesMatch /\ Enough
  BY DEF Init, NotesMatch, Enough, Asleep
<1>3. {t \in Task : pc[t] \in {"took", "starting"}} = {}
  BY DEF Init
<1>4. PermitsCounted
  BY <1>3, FS_EmptySet DEF Init, PermitsCounted
<1> QED BY <1>1, <1>2, <1>4 DEF IInv

-----------------------------------------------------------------------------
(* The types and the futures of the tasks. *)

LEMMA NotifyOneNotes ==
  ASSUME NEW notes \in [Task -> {"none", "init", "waiting", "one", "all", "done"}],
         permit \in BOOLEAN, NotifyOne(notes)
  PROVE  /\ note' \in [Task -> {"none", "init", "waiting", "one", "all", "done"}]
         /\ permit' \in BOOLEAN
         /\ \A t \in Task : note'[t] = notes[t] \/ (notes[t] = "waiting" /\ note'[t] = "one")
BY DEF NotifyOne, Waiting

LEMMA StepTypes == TypeOK /\ NotesMatch /\ Next => TypeOK' /\ NotesMatch'
<1> SUFFICES ASSUME TypeOK, NotesMatch, Next PROVE TypeOK' /\ NotesMatch'
  OBVIOUS
<1>1. ASSUME NEW t \in Task, Create(t) PROVE TypeOK' /\ NotesMatch'
  BY <1>1 DEF Create, Goto, TypeOK, NotesMatch, Woken
<1>2. ASSUME NEW t \in Task, Enable(t) PROVE TypeOK' /\ NotesMatch'
  BY <1>2 DEF Enable, Register, Goto, TypeOK, NotesMatch, Woken
<1>3. ASSUME NEW t \in Task, Check(t) PROVE TypeOK' /\ NotesMatch'
  BY <1>3 DEF Check, Goto, TypeOK, NotesMatch, Woken
<1>4. ASSUME NEW t \in Task, Return(t) PROVE TypeOK' /\ NotesMatch'
  <2> DEFINE notes == [note EXCEPT ![t] = "none"]
  <2>1. notes \in [Task -> {"none", "init", "waiting", "one", "all", "done"}]
    BY DEF TypeOK
  <2>2. /\ note' \in [Task -> {"none", "init", "waiting", "one", "all", "done"}]
        /\ permit' \in BOOLEAN
        /\ \A u \in Task : note'[u] = notes[u] \/ (notes[u] = "waiting" /\ note'[u] = "one")
    BY <1>4, <2>1, NotifyOneNotes DEF Return, DropNotified, TypeOK
  <2>3. TypeOK'
    BY <1>4, <2>2 DEF Return, Goto, TypeOK
  <2>4. NotesMatch'
    BY <1>4, <2>2 DEF Return, Goto, TypeOK, NotesMatch, Woken
  <2> QED BY <2>3, <2>4
<1>5. ASSUME NEW t \in Task, Free(t) PROVE TypeOK' /\ NotesMatch'
  BY <1>5 DEF Free, Goto, TypeOK, NotesMatch, Woken
<1>6. ASSUME NEW t \in Task, Announce(t) PROVE TypeOK' /\ NotesMatch'
  <2>1. /\ note' \in [Task -> {"none", "init", "waiting", "one", "all", "done"}]
        /\ permit' \in BOOLEAN
        /\ \A u \in Task : note'[u] = note[u] \/ (note[u] = "waiting" /\ note'[u] = "one")
    BY <1>6, NotifyOneNotes DEF Announce, TypeOK
  <2>2. TypeOK'
    BY <1>6, <2>1 DEF Announce, Goto, TypeOK
  <2>3. NotesMatch'
    BY <1>6, <2>1 DEF Announce, Goto, TypeOK, NotesMatch, Woken
  <2> QED BY <2>2, <2>3
<1>7. ASSUME NEW l \in Requested, StoreLimit(l) PROVE TypeOK' /\ NotesMatch'
  BY <1>7, Limits DEF StoreLimit, TypeOK, NotesMatch
<1>8. ASSUME AnnounceLimit PROVE TypeOK' /\ NotesMatch'
  BY <1>8 DEF AnnounceLimit, NotifyWaiters, TypeOK, NotesMatch, Woken
<1> QED BY <1>1, <1>2, <1>3, <1>4, <1>5, <1>6, <1>7, <1>8 DEF Next, Acquiring

-----------------------------------------------------------------------------
(* The count of permits. *)

LEMMA StepCounted == TypeOK /\ PermitsCounted /\ Next => PermitsCounted'
<1> SUFFICES ASSUME TypeOK, PermitsCounted, Next PROVE active' = Cardinality(Out')
  BY DEF PermitsCounted, Out
<1>0. active = Cardinality(Out) /\ IsFiniteSet(Out) /\ active \in Nat
  BY Subsets DEF PermitsCounted, Out, TypeOK
<1>1. ASSUME NEW t \in Task, Create(t) \/ Enable(t) \/ Return(t) \/ Announce(t)
      PROVE  active' = Cardinality(Out')
  <2>1. Out' = Out /\ active' = active
    BY <1>1 DEF Create, Enable, Return, Announce, Goto, TypeOK, Out
  <2> QED BY <1>0, <2>1
<1>2. ASSUME NEW t \in Task, Check(t) PROVE active' = Cardinality(Out')
  <2>1. CASE active < limit
    <3>1. Out' = Out \cup {t} /\ t \notin Out /\ active' = active + 1
      BY <1>2, <2>1 DEF Check, Goto, TypeOK, Out
    <3> QED BY <1>0, <3>1, OneMore
  <2>2. CASE ~ (active < limit)
    <3>1. Out' = Out /\ active' = active
      BY <1>2, <2>2 DEF Check, Goto, TypeOK, Out
    <3> QED BY <1>0, <3>1
  <2> QED BY <2>1, <2>2
<1>3. ASSUME NEW t \in Task, Free(t) PROVE active' = Cardinality(Out')
  <2>1. Out' = Out \ {t} /\ t \in Out
    BY <1>3 DEF Free, Goto, TypeOK, Out
  <2>2. Cardinality(Out') = active - 1 /\ Cardinality(Out') \in Nat
    BY <1>0, <2>1, OneMore, FS_RemoveElement, FS_CardinalityType
  <2>3. active' = active - 1
    BY <1>0, <1>3, <2>2 DEF Free
  <2> QED BY <2>2, <2>3
<1>4. ASSUME (\E l \in Requested : StoreLimit(l)) \/ AnnounceLimit
      PROVE  active' = Cardinality(Out')
  <2>1. Out' = Out /\ active' = active
    BY <1>4 DEF StoreLimit, AnnounceLimit, Out
  <2> QED BY <1>0, <2>1
<1> QED BY <1>1, <1>2, <1>3, <1>4 DEF Next, Acquiring

-----------------------------------------------------------------------------
(* The count of wake-ups. *)

\* Task t gives a wake-up of its own: if somebody waits, it moves to that task.
LEMMA Handed ==
  ASSUME TypeOK, NotesMatch, NEW t \in Task,
         pc[t] = "freed" \/ (pc[t] = "took" /\ note[t] = "one"),
         NEW label \in {"out", "starting"}, Goto(t, label),
         NotifyOne([note EXCEPT ![t] = "none"])
  PROVE  \/ \A u \in Task : ~ Asleep(u)'
         \/ /\ Wakeups' = Wakeups
            /\ \A u \in Task : Asleep(u)' => Asleep(u)
<1> DEFINE notes == [note EXCEPT ![t] = "none"]
<1>1. CASE Waiting(notes) = {}
  <2>1. note' = notes
    BY <1>1 DEF NotifyOne
  <2> QED BY <1>1, <2>1 DEF Waiting, Asleep
<1>2. CASE Waiting(notes) # {}
  <2>1. PICK w \in Waiting(notes) : note' = [notes EXCEPT ![w] = "one"]
    BY <1>2 DEF NotifyOne
  <2>2. w \in Task /\ w # t /\ note[w] = "waiting"
    BY DEF Waiting, TypeOK
  <2>3. /\ note'[w] = "one" /\ note'[t] = "none"
        /\ \A u \in Task \ {t, w} : note'[u] = note[u]
    BY <2>1, <2>2 DEF TypeOK
  <2>4. /\ pc'[t] = label
        /\ \A u \in Task \ {t} : pc'[u] = pc[u]
    BY DEF Goto, TypeOK
  <2>5. pc[w] \in {"checking", "parked", "took"}
    BY <2>2 DEF NotesMatch, TypeOK, Woken
  <2>6. \A u \in Task : Asleep(u)' => Asleep(u)
    BY <2>2, <2>3, <2>4 DEF Asleep
  <2>7. w \notin Passing /\ (pc[w] = "parked" => w \notin Looking)
    BY <2>2 DEF Looking, Passing, Woken
  <2> DEFINE L == IF pc[t] = "freed" THEN Looking \ {t} ELSE Looking
             P == IF pc[t] = "freed" THEN Passing ELSE Passing \ {t}
  <2>8. /\ IsFiniteSet(L) /\ IsFiniteSet(P) /\ Cardinality(L) \in Nat /\ Cardinality(P) \in Nat
        /\ Cardinality(L) + Cardinality(P) = Wakeups - 1
        /\ w \notin P /\ (pc[w] = "parked" => w \notin L)
    <3>1. CASE pc[t] = "freed"
      <4>1. t \in Looking
        BY <3>1 DEF Looking
      <4> QED BY <3>1, <4>1, <2>7, Subsets, OneMore, FS_RemoveElement, FS_CardinalityType DEF Wakeups
    <3>2. CASE pc[t] = "took" /\ note[t] = "one"
      <4>1. t \in Passing
        BY <3>2 DEF Passing
      <4> QED BY <3>2, <4>1, <2>7, Subsets, OneMore, FS_RemoveElement, FS_CardinalityType DEF Wakeups
    <3> QED BY <3>1, <3>2
  <2>9. CASE pc[w] = "parked"
    <3>1. Looking' = L \cup {w}
      BY <2>2, <2>3, <2>4, <2>9 DEF Looking, Woken
    <3>2. Passing' = P
      BY <2>2, <2>3, <2>4, <2>9 DEF Passing
    <3> HIDE DEF L, P
    <3>3. Cardinality(L \cup {w}) = Cardinality(L) + 1
      BY <2>8, <2>9, OneMore
    <3>4. Wakeups' = Cardinality(L \cup {w}) + Cardinality(P)
      BY <3>1, <3>2 DEF Wakeups
    <3> QED BY <2>6, <2>8, <3>3, <3>4, Subsets DEF Wakeups
  <2>10. CASE pc[w] \in {"checking", "took"}
    <3>1. Looking' = L
      BY <2>2, <2>3, <2>4, <2>10 DEF Looking, Woken
    <3>2. Passing' = P \cup {w}
      BY <2>2, <2>3, <2>4, <2>10 DEF Passing
    <3> HIDE DEF L, P
    <3>3. Cardinality(P \cup {w}) = Cardinality(P) + 1
      BY <2>8, OneMore
    <3>4. Wakeups' = Cardinality(L) + Cardinality(P \cup {w})
      BY <3>1, <3>2 DEF Wakeups
    <3> QED BY <2>6, <2>8, <3>3, <3>4, Subsets DEF Wakeups
  <2> QED BY <2>5, <2>9, <2>10
<1> QED BY <1>1, <1>2

LEMMA StepEnough == IInv /\ Next => Enough'
<1> SUFFICES ASSUME TypeOK, NotesMatch, PermitsCounted, Enough, Next PROVE Enough'
  BY DEF IInv
<1>0. active \in Nat /\ limit \in Nat /\ Wakeups \in Nat
  BY Subsets DEF TypeOK, Wakeups
<1>a. ASSUME Wakeups' \in Nat, active' \in Nat, limit' \in Nat,
             unannounced' = unannounced,
             \/ \A u \in Task : ~ Asleep(u)'
             \/ limit' <= active'
             \/ /\ \A u \in Task : Asleep(u)' => Asleep(u)
                /\ (limit <= active + Wakeups => limit' <= active' + Wakeups')
      PROVE  Enough'
  <2> SUFFICES ASSUME NEW t \in Task, Asleep(t)', ~ unannounced'
               PROVE  limit' <= active' + Wakeups'
    BY DEF Enough
  <2>1. CASE limit' <= active'
    BY <1>a, <2>1, Slack
  <2>2. CASE /\ Asleep(t)
             /\ (limit <= active + Wakeups => limit' <= active' + Wakeups')
    <3>1. limit <= active + Wakeups
      BY <1>a, <2>2 DEF Enough
    <3> QED BY <1>0, <1>a, <2>2, <3>1
  <2> QED BY <1>a, <2>1, <2>2
<1>b. TypeOK' /\ NotesMatch' /\ active' \in Nat /\ limit' \in Nat
  BY StepTypes DEF TypeOK
<1>c. Wakeups' \in Nat /\ IsFiniteSet(Looking')
  <2>1. Looking' \subseteq Task /\ Passing' \subseteq Task
    BY DEF Looking, Passing
  <2> QED BY <2>1, LimiterAssumption, FS_Subset, FS_CardinalityType DEF Wakeups
<1>1. ASSUME NEW t \in Task, Create(t) PROVE Enough'
  <2>1. \A u \in Task : Asleep(u)' => Asleep(u)
    BY <1>1 DEF Create, Goto, Asleep, TypeOK
  <2>2. Passing' = Passing
    BY <1>1 DEF Create, Goto, Passing, TypeOK
  <2>3. Looking' = Looking \cup {t}
    BY <1>1 DEF Create, Goto, Looking, TypeOK, Woken
  <2>4. Cardinality(Looking') >= Cardinality(Looking)
    BY <2>3, <1>c, Subsets, FS_Subset, FS_CardinalityType
  <2>5. Wakeups' >= Wakeups
    BY <2>2, <2>4, <1>c, Subsets, FS_CardinalityType DEF Wakeups
  <2>6. limit' = limit /\ active' = active /\ unannounced' = unannounced
    BY <1>1 DEF Create
  <2>7. (limit <= active + Wakeups => limit' <= active' + Wakeups')
    BY <1>0, <1>c, <2>5, <2>6, Slack
  <2> QED BY <1>a, <1>b, <1>c, <2>1, <2>6, <2>7
<1>2. ASSUME NEW t \in Task, Enable(t) PROVE Enough'
  <2>1. \A u \in Task : Asleep(u)' => Asleep(u)
    BY <1>2 DEF Enable, Register, Goto, Asleep, TypeOK
  <2>2. Looking' = Looking /\ Passing' = Passing
    BY <1>2 DEF Enable, Register, Goto, Looking, Passing, TypeOK, NotesMatch, Woken
  <2> QED BY <1>0, <1>2, <1>a, <1>b, <1>c, <2>1, <2>2 DEF Enable, Wakeups
<1>3. ASSUME NEW t \in Task, Check(t) PROVE Enough'
  <2>1. CASE active < limit
    <3>1. \A u \in Task : Asleep(u)' => Asleep(u)
      BY <1>3, <2>1 DEF Check, Goto, Asleep, TypeOK
    <3>2. Looking' = Looking \ {t} /\ t \in Looking /\ Passing' = Passing
      BY <1>3, <2>1 DEF Check, Goto, Looking, Passing, TypeOK
    <3>3. Wakeups' = Wakeups - 1
      BY <3>2, Subsets, OneMore DEF Wakeups
    <3>4. limit' = limit /\ active' = active + 1 /\ unannounced' = unannounced
      BY <1>3, <2>1 DEF Check
    <3> QED BY <1>0, <1>a, <1>b, <1>c, <3>1, <3>3, <3>4
  <2>2. CASE ~ (active < limit)
    <3>1. limit' <= active' /\ unannounced' = unannounced
      BY <1>0, <1>3, <2>2 DEF Check
    <3> QED BY <1>a, <1>b, <1>c, <3>1
  <2> QED BY <2>1, <2>2
<1>4. ASSUME NEW t \in Task, Return(t) PROVE Enough'
  <2>0. pc[t] = "took" /\ Goto(t, "starting") /\ UNCHANGED <<active, limit, unannounced>>
    BY <1>4 DEF Return
  <2>1. CASE note[t] = "one"
    <3>1. NotifyOne([note EXCEPT ![t] = "none"])
      BY <1>4, <2>1 DEF Return, DropNotified
    <3>2. \/ \A u \in Task : ~ Asleep(u)'
          \/ Wakeups' = Wakeups /\ \A u \in Task : Asleep(u)' => Asleep(u)
      BY <2>0, <2>1, <3>1, Handed
    <3>3. Wakeups' = Wakeups => (limit <= active + Wakeups => limit' <= active' + Wakeups')
      BY <1>0, <2>0
    <3> QED BY <1>a, <1>b, <1>c, <2>0, <3>2, <3>3
  <2>2. CASE note[t] # "one"
    <3>1. note' = [note EXCEPT ![t] = "none"]
      BY <1>4, <2>2 DEF Return, DropNotified
    <3>2. \A u \in Task : Asleep(u)' => Asleep(u)
      BY <2>0, <3>1 DEF Goto, Asleep, TypeOK
    <3>3. Looking' = Looking /\ Passing' = Passing
      BY <2>0, <2>2, <3>1 DEF Goto, Looking, Passing, TypeOK, Woken
    <3> QED BY <1>0, <1>a, <1>b, <1>c, <2>0, <3>2, <3>3 DEF Wakeups
  <2> QED BY <2>1, <2>2
<1>5. ASSUME NEW t \in Task, Free(t) PROVE Enough'
  <2>1. \A u \in Task : Asleep(u)' => Asleep(u)
    BY <1>5 DEF Free, Goto, Asleep, TypeOK
  <2>2. Looking' = Looking \cup {t} /\ t \notin Looking /\ Passing' = Passing
    BY <1>5 DEF Free, Goto, Looking, Passing, TypeOK
  <2>3. Wakeups' = Wakeups + 1
    BY <2>2, Subsets, OneMore DEF Wakeups
  <2>4. limit' = limit /\ active' >= active - 1 /\ unannounced' = unannounced
    BY <1>0, <1>5 DEF Free
  <2>5. (limit <= active + Wakeups => limit' <= active' + Wakeups')
    BY <1>0, <1>b, <1>c, <2>3, <2>4, Slack
  <2> QED BY <1>a, <1>b, <1>c, <2>1, <2>4, <2>5
<1>6. ASSUME NEW t \in Task, Announce(t) PROVE Enough'
  <2>0. pc[t] = "freed" /\ Goto(t, "out") /\ UNCHANGED <<active, limit, unannounced>>
    BY <1>6 DEF Announce
  <2>1. note = [note EXCEPT ![t] = "none"]
    BY <2>0 DEF TypeOK, NotesMatch
  <2>2. NotifyOne([note EXCEPT ![t] = "none"])
    BY <1>6, <2>1 DEF Announce
  <2>3. \/ \A u \in Task : ~ Asleep(u)'
        \/ Wakeups' = Wakeups /\ \A u \in Task : Asleep(u)' => Asleep(u)
    BY <2>0, <2>2, Handed
  <2>4. Wakeups' = Wakeups => (limit <= active + Wakeups => limit' <= active' + Wakeups')
    BY <1>0, <2>0
  <2> QED BY <1>a, <1>b, <1>c, <2>0, <2>3, <2>4
<1>7. ASSUME NEW l \in Requested, StoreLimit(l) PROVE Enough'
  BY <1>7 DEF StoreLimit, Enough
<1>8. ASSUME AnnounceLimit PROVE Enough'
  BY <1>8 DEF AnnounceLimit, NotifyWaiters, Enough, Asleep, TypeOK
<1> QED BY <1>1, <1>2, <1>3, <1>4, <1>5, <1>6, <1>7, <1>8 DEF Next, Acquiring

-----------------------------------------------------------------------------

\* The three parts together are inductive.
THEOREM LimiterInvariance == Spec => []IInv
<1>1. IInv /\ [Next]_vars => IInv'
  <2> SUFFICES ASSUME IInv, [Next]_vars PROVE IInv'
    OBVIOUS
  <2>1. CASE Next
    BY <2>1, StepTypes, StepCounted, StepEnough DEF IInv
  <2>2. CASE UNCHANGED vars
    BY <2>2 DEF vars, IInv, TypeOK, NotesMatch, PermitsCounted, Enough, Asleep,
                Wakeups, Looking, Passing
  <2> QED BY <2>1, <2>2
<1> QED BY <1>1, InitIInv, PTL DEF Spec

\* node.rs: the limit stays positive whatever set_limit is asked for, so that starts never
\* stop for good, and the states of acquire and of Notify are the ones modelled.
THEOREM LimiterTypeCorrect == Spec => []TypeOK
<1>1. IInv => TypeOK
  BY DEF IInv
<1> QED BY <1>1, LimiterInvariance, PTL

\* node.rs: the count of permits never drifts from the permits that are out,
\* so the saturating subtraction of VmStartPermit's drop never saturates.
THEOREM PermitsExact == Spec => []PermitsCounted
<1>1. IInv => PermitsCounted
  BY DEF IInv
<1> QED BY <1>1, LimiterInvariance, PTL

\* node.rs: acquire, set_limit and the drop of a permit lose no wake-up, for any
\* number of tasks, any limits and any order in which waiters are woken.
THEOREM NoWakeupLost == Spec => []NoLostWakeup
<1>1. IInv => NoLostWakeup
  <2> SUFFICES ASSUME IInv, active < limit, \E t \in Task : Asleep(t), ~ unannounced
               PROVE  \E t \in Task : Stirring(t)
    BY DEF NoLostWakeup
  <2>1. active \in Nat /\ limit \in Nat /\ limit <= active + Wakeups
    BY DEF IInv, TypeOK, Enough
  <2>2. Looking # {} \/ Passing # {}
    BY <2>1, FS_EmptySet DEF Wakeups
  <2> QED BY <2>2 DEF Looking, Passing, Stirring, Woken
<1> QED BY <1>1, LimiterInvariance, PTL
=============================================================================
