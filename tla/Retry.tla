------------------------------- MODULE Retry -------------------------------
(***************************************************************************)
(* retry_until_timeout: the helper behind most waits.  It tells an attempt *)
(* how long it may take, and goes by the clock when the attempt is over;   *)
(* it does not interrupt one.  The waits of base.py pass the budget on to  *)
(* the command they run; LXDInstance.start(), restart() and stop() and the *)
(* request to the archive of old releases do not look at it.               *)
(*                                                                         *)
(* Times are counted from the call, in units of the clock.                 *)
(***************************************************************************)
EXTENDS Integers

\* One call: its parameters, the time that has passed, the time at which its
\* latest attempt began, and by how much its attempts have exceeded their budgets.
Call(timeout, wait) ==
  [deadline |-> timeout, wait |-> wait, now |-> 0, begun |-> 0, over |-> 0,
   result |-> "none"]

SoftDeadline(c) == c.deadline - c.wait

Results == {"none", "value", "error"}

Calls ==
  [deadline : Nat, wait : Nat, now : Nat, begun : Nat, over : Nat, result : Results]

\* What func is told: the time that is left, and in the last attempt one wait.
Budget(c) == IF c.now < SoftDeadline(c) THEN c.deadline - c.now ELSE c.wait

\* By how much an attempt exceeds its budget.
Excess(c, took) == IF took > Budget(c) THEN took - Budget(c) ELSE 0

\* func(budget) takes `took`, and this is what comes of it.
Called(c, took, result) ==
  [deadline |-> c.deadline, wait |-> c.wait, now |-> c.now + took, begun |-> c.now,
   over |-> c.over + Excess(c, took), result |-> result]

\* A mutant: it sleeps after every failure.
Slept_Always(c) == [c EXCEPT !.now = c.now + c.wait]

\* time.sleep(retry_wait), unless the soft deadline has passed
Slept(c) ==
  IF c.now < SoftDeadline(c) THEN [c EXCEPT !.now = c.now + c.wait]
  ELSE c

\* An attempt of the loop, with the sleep after a failure, or the last attempt.
Attempt(c, took, ok) ==
  IF c.now < SoftDeadline(c)
  THEN IF ok THEN Called(c, took, "value") ELSE Slept(Called(c, took, "none"))
  ELSE Called(c, took, IF ok THEN "value" ELSE "error")

\* The call goes on as long as it has no result, whatever the attempts take.
Goes(c, d) ==
  /\ c.result = "none"
  /\ \E took \in Nat, ok \in BOOLEAN : d = Attempt(c, took, ok)

-----------------------------------------------------------------------------
(* Property *)

\* The helper itself is never late: a call is past its deadline, while an attempt
\* is still to come, by no more than its attempts have exceeded their budgets, and
\* ends at most one wait later; no sleep goes beyond the deadline.  And it does not
\* give up early: it raises its error only when an attempt has failed that began
\* within one wait of the deadline.
InTime(c) ==
  /\ c.result = "none" => c.now <= c.deadline + c.over
  /\ c.result # "none" =>
       c.begun <= c.deadline + c.over /\ c.now <= c.deadline + c.wait + c.over
  /\ c.result = "error" => c.begun >= SoftDeadline(c)
=============================================================================
