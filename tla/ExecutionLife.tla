---------------------------- MODULE ExecutionLife ----------------------------
(***************************************************************************)
(* What an execution is to those who submitted it, whatever becomes of     *)
(* pools, nodes, rows and writes.  One that was accepted is never lost     *)
(* before it is over; it is handed to a node once, and again only after a  *)
(* restart of the controller.                                              *)
(*                                                                         *)
(* Two things are weaker than one would like, and are here because the     *)
(* code has them.  An execution whose end was reported is `ending` until   *)
(* that is written, and a controller that stops before queues it again; a  *)
(* node that outlived the controller may report what is waiting again.     *)
(* And a write that comes late takes those that are over back to `ending`. *)
(***************************************************************************)
EXTENDS Naturals

CONSTANT Exec

VARIABLES
  life,
  starts  \* how often the controller was started again

Init == life = [e \in Exec |-> "unknown"] /\ starts = 0

TypeOK ==
  /\ life \in [Exec -> {"unknown", "waiting", "running", "ending", "over"}]
  /\ starts \in Nat

Over == {e \in Exec : life[e] = "over"}

\* e goes on to `to`; what retention or room takes away goes with it.
Goes(e, from, to) ==
  /\ life[e] \in from
  /\ \E gone \in SUBSET (Over \ {e}) :
       life' = [f \in Exec |-> IF f = e THEN to
                               ELSE IF f \in gone THEN "unknown" ELSE life[f]]

Accept(e) == Goes(e, {"unknown"}, "waiting")
HandOut(e) == Goes(e, {"waiting"}, "running")
Report(e) == Goes(e, {"running", "waiting"}, "ending")
Conclude(e) == Goes(e, {"ending"}, "over")

TakeBack ==
  \E back \in SUBSET {e \in Exec : life[e] \in {"over", "unknown"}} :
    life' = [e \in Exec |-> IF e \in back THEN "ending" ELSE life[e]]

Forget == \E gone \in SUBSET Over :
            life' = [e \in Exec |-> IF e \in gone THEN "unknown" ELSE life[e]]

\* Whatever is not over waits again.
Restart ==
  /\ starts' = starts + 1
  /\ \E gone \in SUBSET Over :
       life' = [e \in Exec |->
         IF e \in gone THEN "unknown"
         ELSE IF life[e] \in {"running", "ending"} THEN "waiting" ELSE life[e]]

Proceed ==
  \/ \E e \in Exec : Accept(e) \/ HandOut(e) \/ Report(e) \/ Conclude(e)
  \/ TakeBack \/ Forget

Next == (Proceed /\ UNCHANGED starts) \/ Restart

Spec == Init /\ [][Next]_<<life, starts>>
==============================================================================
