---------------------------- MODULE RetryProofs ----------------------------
(***************************************************************************)
(* What retry_until_timeout does with its time, for every timeout and wait *)
(* and every time that an attempt takes, within its budget or not.         *)
(***************************************************************************)
EXTENDS Retry, TLAPS

\* A call begins in time.
LEMMA CallInTime ==
  ASSUME NEW timeout \in Nat, NEW wait \in Nat
  PROVE  Call(timeout, wait) \in Calls /\ InTime(Call(timeout, wait))
  BY DEF Call, Calls, Results, InTime

LEMMA BudgetFacts ==
  ASSUME NEW c \in Calls, NEW took \in Nat
  PROVE  /\ Budget(c) \in Nat
         /\ Excess(c, took) \in Nat
         /\ took <= Budget(c) + Excess(c, took)
         /\ took <= Budget(c) => Excess(c, took) = 0
<1>1. c.now \in Nat /\ c.deadline \in Nat /\ c.wait \in Nat
  BY DEF Calls
<1>2. Budget(c) \in Nat
  BY <1>1 DEF Budget, SoftDeadline
<1> QED  BY <1>2 DEF Excess

\* An attempt may take longer than its budget.
LEMMA CalledIsCall ==
  ASSUME NEW c \in Calls, NEW took \in Nat, NEW result \in Results
  PROVE  Called(c, took, result) \in Calls
<1>1. c.over \in Nat /\ Excess(c, took) \in Nat
  BY BudgetFacts DEF Calls
<1>2. c.deadline \in Nat /\ c.wait \in Nat /\ c.now + took \in Nat /\ c.now \in Nat
  BY DEF Calls
<1>3. c.over + Excess(c, took) \in Nat
  BY <1>1
<1> QED  BY <1>2, <1>3 DEF Called, Calls

\* A sleep begins before the soft deadline only, and so ends before the deadline.
LEMMA SleptInTime ==
  ASSUME NEW c \in Calls, NEW d, d = Slept(c)
  PROVE  /\ d \in Calls
         /\ d.deadline = c.deadline /\ d.wait = c.wait /\ d.result = c.result
         /\ d.over = c.over
         /\ d.now <= d.deadline \/ d.now = c.now
<1>1. c.now \in Nat /\ c.wait \in Nat /\ c.deadline \in Nat
  BY DEF Calls
<1>2. CASE c.now < SoftDeadline(c)
  <2>1. c.now + c.wait <= c.deadline /\ c.now + c.wait \in Nat
    BY <1>1, <1>2 DEF SoftDeadline
  <2>2. d = [deadline |-> c.deadline, wait |-> c.wait, now |-> c.now + c.wait,
             begun |-> c.begun, over |-> c.over, result |-> c.result]
    BY <1>2 DEF Slept, Calls
  <2>3. d \in Calls
    BY <2>1, <2>2 DEF Calls
  <2> QED  BY <2>1, <2>2, <2>3
<1>3. CASE ~(c.now < SoftDeadline(c))
  BY <1>3 DEF Slept
<1> QED  BY <1>2, <1>3

\* An attempt, with the sleep after it, keeps the call in time: while it takes no
\* longer than its budget it adds nothing to what the call is late.
LEMMA AttemptInTime ==
  ASSUME NEW c \in Calls, c.result = "none", InTime(c), NEW took \in Nat, NEW ok \in BOOLEAN
  PROVE  /\ Attempt(c, took, ok) \in Calls
         /\ InTime(Attempt(c, took, ok))
         /\ took <= Budget(c) => Attempt(c, took, ok).over = c.over
<1>1. /\ c.deadline \in Nat /\ c.now \in Nat /\ c.wait \in Nat /\ c.over \in Nat
      /\ c.now <= c.deadline + c.over
  BY DEF Calls, InTime
<1>2. PICK excess \in Nat :
        /\ excess = Excess(c, took)
        /\ took <= Budget(c) + excess
        /\ took <= Budget(c) => excess = 0
  BY BudgetFacts
<1>3. "none" \in Results /\ "value" \in Results /\ "error" \in Results
  BY DEF Results
<1>4. CASE c.now < SoftDeadline(c)
  <2>1. Budget(c) = c.deadline - c.now
    BY <1>4 DEF Budget
  <2>2. PICK result \in {"value", "none"} : result = IF ok THEN "value" ELSE "none"
    OBVIOUS
  <2>3. PICK d : d = Called(c, took, result)
    OBVIOUS
  <2>4. /\ d \in Calls /\ d.deadline = c.deadline /\ d.wait = c.wait /\ d.result = result
        /\ d.begun = c.now /\ d.now = c.now + took /\ d.over = c.over + excess
    <3>1. result \in Results
      BY <2>2 DEF Results
    <3>2. Called(c, took, result) \in Calls
      BY <3>1, CalledIsCall
    <3> QED  BY <1>2, <2>3, <3>2 DEF Called
  <2>5. d.now <= d.deadline + d.over /\ d.begun <= d.deadline
    BY <1>1, <1>2, <1>4, <2>1, <2>4 DEF SoftDeadline
  <2>6. CASE ok
    <3>1. InTime(d)
      BY <1>1, <2>2, <2>4, <2>5, <2>6 DEF InTime
    <3>2. Attempt(c, took, ok) = d
      BY <1>4, <2>2, <2>3, <2>6 DEF Attempt
    <3> QED  BY <1>1, <1>2, <2>4, <3>1, <3>2
  <2>7. CASE ~ok
    <3>1. PICK e : e = Slept(d)
      OBVIOUS
    <3>2. /\ e \in Calls /\ e.deadline = d.deadline /\ e.result = "none" /\ e.over = d.over
          /\ e.now <= e.deadline \/ e.now = d.now
      BY <2>2, <2>4, <2>7, <3>1, SleptInTime
    <3>3. InTime(e)
      BY <1>1, <1>2, <2>4, <2>5, <3>2 DEF InTime, Calls
    <3>4. Attempt(c, took, ok) = e
      BY <1>4, <2>2, <2>3, <2>7, <3>1 DEF Attempt
    <3> QED  BY <1>1, <1>2, <2>4, <3>2, <3>3, <3>4
  <2> QED  BY <2>6, <2>7
<1>5. CASE ~(c.now < SoftDeadline(c))
  <2>1. Budget(c) = c.wait
    BY <1>5 DEF Budget
  <2>2. PICK result \in {"value", "error"} : result = IF ok THEN "value" ELSE "error"
    OBVIOUS
  <2>3. PICK d : d = Called(c, took, result)
    OBVIOUS
  <2>4. /\ d \in Calls /\ d.deadline = c.deadline /\ d.wait = c.wait /\ d.result = result
        /\ d.begun = c.now /\ d.now = c.now + took /\ d.over = c.over + excess
    <3>1. result \in Results
      BY <2>2 DEF Results
    <3>2. Called(c, took, result) \in Calls
      BY <3>1, CalledIsCall
    <3> QED  BY <1>2, <2>3, <3>2 DEF Called
  <2>5. /\ d.now <= d.deadline + d.wait + d.over
        /\ d.begun <= d.deadline + d.over
        /\ d.begun >= SoftDeadline(d)
    BY <1>1, <1>2, <1>5, <2>1, <2>4 DEF SoftDeadline
  <2>6. InTime(d)
    BY <2>2, <2>4, <2>5 DEF InTime
  <2>7. Attempt(c, took, ok) = d
    BY <1>5, <2>2, <2>3 DEF Attempt
  <2> QED  BY <1>1, <1>2, <2>4, <2>6, <2>7
<1> QED  BY <1>4, <1>5

\* At every moment of a call of retry_until_timeout, whatever its attempts take and
\* however they end, it is in time: late by what they have exceeded their budgets,
\* and by one wait after the last.
THEOREM CallsAreInTime ==
  ASSUME NEW timeout \in Nat, NEW wait \in Nat, NEW VARIABLE c
  PROVE  c = Call(timeout, wait) /\ [][Goes(c, c')]_c => [](c \in Calls /\ InTime(c))
<1>1. c = Call(timeout, wait) => c \in Calls /\ InTime(c)
  BY CallInTime
<1>2. (c \in Calls /\ InTime(c)) /\ [Goes(c, c')]_c => (c \in Calls /\ InTime(c))'
  <2> SUFFICES ASSUME c \in Calls, InTime(c), [Goes(c, c')]_c
               PROVE  c' \in Calls /\ InTime(c')
    OBVIOUS
  <2>1. CASE Goes(c, c')
    BY <2>1, AttemptInTime DEF Goes
  <2>2. CASE c' = c
    BY <2>2
  <2> QED  BY <2>1, <2>2
<1> QED  BY <1>1, <1>2, PTL

\* An attempt that fails and is not the last takes time, its own or that of the sleep:
\* where sleeping takes time the loop comes to its last attempt.
THEOREM AttemptTakesTime ==
  ASSUME NEW c \in Calls, c.wait > 0, c.result = "none", NEW took \in Nat, NEW ok \in BOOLEAN,
         NEW d, d = Attempt(c, took, ok)
  PROVE  d.deadline = c.deadline /\ d.wait = c.wait /\ (d.result = "none" => d.now > c.now)
<1>1. c.now \in Nat /\ c.deadline \in Nat /\ c.wait \in Nat
  BY DEF Calls
<1>2. "none" \in Results /\ "value" \in Results /\ "error" \in Results
  BY DEF Results
<1>3. CASE c.now < SoftDeadline(c) /\ ok
  <2>1. d = Called(c, took, "value")
    BY <1>3 DEF Attempt
  <2> QED  BY <2>1 DEF Called, Calls
<1>4. CASE c.now < SoftDeadline(c) /\ ~ok
  <2>1. PICK e : e = Called(c, took, "none")
    OBVIOUS
  <2>2. d = Slept(e)
    BY <1>4, <2>1 DEF Attempt
  <2>3. /\ e \in Calls /\ e.now = c.now + took
        /\ e.deadline = c.deadline /\ e.wait = c.wait
    <3>1. Called(c, took, "none") \in Calls
      BY <1>2, CalledIsCall
    <3> QED  BY <2>1, <3>1 DEF Called
  <2>4. CASE e.now < SoftDeadline(e)
    <3>1. d = [e EXCEPT !.now = e.now + e.wait]
      BY <2>2, <2>4 DEF Slept
    <3>2. d.now = e.now + e.wait /\ d.deadline = e.deadline /\ d.wait = e.wait
      BY <2>3, <3>1 DEF Calls
    <3> QED  BY <1>1, <2>3, <3>2
  <2>5. CASE ~(e.now < SoftDeadline(e))
    <3>1. d = e
      BY <2>2, <2>5 DEF Slept
    <3>2. took # 0
      <4>1. c.now < SoftDeadline(e)
        BY <1>4, <2>3 DEF SoftDeadline
      <4> QED  BY <1>1, <2>3, <2>5, <4>1
    <3> QED  BY <1>1, <2>3, <3>1, <3>2
  <2> QED  BY <2>4, <2>5
<1>5. CASE ~(c.now < SoftDeadline(c))
  <2>1. PICK result \in {"value", "error"} : result = IF ok THEN "value" ELSE "error"
    OBVIOUS
  <2>2. d = Called(c, took, result)
    BY <1>5, <2>1 DEF Attempt
  <2> QED  BY <2>1, <2>2 DEF Called, Calls
<1> QED  BY <1>3, <1>4, <1>5
=============================================================================
