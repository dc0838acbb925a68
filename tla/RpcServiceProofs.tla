-------------------------- MODULE RpcServiceProofs --------------------------
(***************************************************************************)
(* Theorems about RpcService, for every set of tasks, threshold, cooldown  *)
(* and number of attempts.                                                 *)
(***************************************************************************)
EXTENDS RpcService, TLAPS

\* The steps of one task, and of the clock and the endpoint, as a single
\* disjunction: every step proof below follows it.
LEMMA NextSteps ==
  ASSUME Next
  PROVE  \/ \E c \in Callers :
              \/ PollCheck(c) \/ Call(c) \/ AllowLoad(c) \/ CooldownCheck(c)
              \/ ProbeStore(c) \/ AttemptOk(c) \/ AttemptFails(c)
              \/ SuccessLoad(c) \/ CloseStore(c) \/ ResetStore(c)
              \/ FailLoad(c) \/ FailCount(c) \/ TripStore(c) \/ StampStore(c)
         \/ Second
         \/ EndpointChanges
BY DEF Next, Begin, Proceed

-----------------------------------------------------------------------------
\* Every variable keeps its type: in particular execute_with_retry makes at
\* most ATTEMPTS attempts.
THEOREM TypeCorrect == Spec => []TypeOK
<1>1. Init => TypeOK
  BY RpcConstants DEF Init, TypeOK, CircuitStates, Locations
<1>2. TypeOK /\ [Next]_vars => TypeOK'
  <2> SUFFICES ASSUME TypeOK, [Next]_vars PROVE TypeOK'
    OBVIOUS
  <2> USE RpcConstants DEF TypeOK, CircuitStates, Locations, breaker, history
  <2>1. CASE UNCHANGED vars
    BY <2>1 DEF vars
  <2>2. CASE Second
    BY <2>2 DEF Second, UpTo
  <2>3. CASE EndpointChanges
    BY <2>3 DEF EndpointChanges
  <2>4. ASSUME NEW c \in Callers, PollCheck(c) \/ Call(c) PROVE TypeOK'
    BY <2>4 DEF PollCheck, Call, Goto
  <2>5. ASSUME NEW c \in Callers, AllowLoad(c) PROVE TypeOK'
    BY <2>5 DEF AllowLoad, Goto
  <2>6. ASSUME NEW c \in Callers, CooldownCheck(c) PROVE TypeOK'
    BY <2>6 DEF CooldownCheck, Goto
  <2>7. ASSUME NEW c \in Callers, ProbeStore(c) PROVE TypeOK'
    BY <2>7 DEF ProbeStore, Goto
  <2>8. ASSUME NEW c \in Callers, AttemptOk(c) PROVE TypeOK'
    BY <2>8 DEF AttemptOk, Goto
  <2>9. ASSUME NEW c \in Callers, AttemptFails(c) PROVE TypeOK'
    BY <2>9 DEF AttemptFails, Goto
  <2>10. ASSUME NEW c \in Callers, SuccessLoad(c) PROVE TypeOK'
    BY <2>10 DEF SuccessLoad, Goto
  <2>11. ASSUME NEW c \in Callers, CloseStore(c) PROVE TypeOK'
    BY <2>11 DEF CloseStore, Goto
  <2>12. ASSUME NEW c \in Callers, ResetStore(c) PROVE TypeOK'
    BY <2>12 DEF ResetStore, Goto
  <2>13. ASSUME NEW c \in Callers, FailLoad(c) PROVE TypeOK'
    BY <2>13 DEF FailLoad, Goto
  <2>14. ASSUME NEW c \in Callers, FailCount(c) PROVE TypeOK'
    BY <2>14 DEF FailCount, Goto, UpTo
  <2>15. ASSUME NEW c \in Callers, TripStore(c) PROVE TypeOK'
    BY <2>15 DEF TripStore, Goto
  <2>16. ASSUME NEW c \in Callers, StampStore(c) PROVE TypeOK'
    BY <2>16 DEF StampStore, Goto
  <2> QED
    BY <2>1, <2>2, <2>3, <2>4, <2>5, <2>6, <2>7, <2>8, <2>9, <2>10, <2>11,
       <2>12, <2>13, <2>14, <2>15, <2>16, NextSteps
<1> QED
  BY <1>1, <1>2, PTL DEF Spec

-----------------------------------------------------------------------------
\* The strengthening of NoFalseTrip: the counter never exceeds the failures
\* there were, and whatever a task still holds of a circuit that was not
\* closed, or is about to store into it, is backed by THRESHOLD failures.
NoFalseTripInv ==
  /\ TypeOK
  /\ failures <= failed
  /\ NoFalseTrip
  /\ \A c \in Callers :
       /\ seen[c] # "closed" => failed = THRESHOLD
       /\ pc[c] \in {"cooldown", "probe", "trip"} => failed = THRESHOLD

\* The breaker starts closed, with no failures.
LEMMA NoFalseTripInit == Init => NoFalseTripInv
BY RpcConstants
   DEF Init, NoFalseTripInv, NoFalseTrip, TypeOK, CircuitStates, Locations

\* Every step counts consecutive failures only (record_failure,
\* record_success).
LEMMA NoFalseTripStep ==
  ASSUME NoFalseTripInv, TypeOK', [Next]_vars
  PROVE  NoFalseTripInv'
<1> USE RpcConstants
    DEF NoFalseTripInv, NoFalseTrip, TypeOK, breaker, history
<1>1. CASE UNCHANGED vars
  BY <1>1 DEF vars
<1>2. CASE Second
  BY <1>2 DEF Second
<1>3. CASE EndpointChanges
  BY <1>3 DEF EndpointChanges
<1>4. ASSUME NEW c \in Callers, PollCheck(c) \/ Call(c) PROVE NoFalseTripInv'
  BY <1>4 DEF PollCheck, Call, Goto
<1>5. ASSUME NEW c \in Callers, AllowLoad(c) PROVE NoFalseTripInv'
  BY <1>5 DEF AllowLoad, Goto
<1>6. ASSUME NEW c \in Callers, CooldownCheck(c) PROVE NoFalseTripInv'
  BY <1>6 DEF CooldownCheck, Goto
<1>7. ASSUME NEW c \in Callers, ProbeStore(c) PROVE NoFalseTripInv'
  BY <1>7 DEF ProbeStore, Goto
<1>8. ASSUME NEW c \in Callers, AttemptOk(c) PROVE NoFalseTripInv'
  BY <1>8 DEF AttemptOk, Goto
<1>9. ASSUME NEW c \in Callers, AttemptFails(c) PROVE NoFalseTripInv'
  BY <1>9 DEF AttemptFails, Goto
<1>10. ASSUME NEW c \in Callers, SuccessLoad(c) PROVE NoFalseTripInv'
  BY <1>10 DEF SuccessLoad, Goto
<1>11. ASSUME NEW c \in Callers, CloseStore(c) PROVE NoFalseTripInv'
  BY <1>11 DEF CloseStore, Goto
<1>12. ASSUME NEW c \in Callers, ResetStore(c) PROVE NoFalseTripInv'
  BY <1>12 DEF ResetStore, Goto
<1>13. ASSUME NEW c \in Callers, FailLoad(c) PROVE NoFalseTripInv'
  BY <1>13 DEF FailLoad, Goto
<1>14. ASSUME NEW c \in Callers, FailCount(c) PROVE NoFalseTripInv'
  <2>1. failed \in 0..THRESHOLD /\ failures \in 0..THRESHOLD
    OBVIOUS
  <2>2. failed' = UpTo(THRESHOLD, failed + 1)
        /\ failures' = UpTo(THRESHOLD, failures + 1)
        /\ failures' <= failed'
    BY <1>14, <2>1 DEF FailCount, UpTo
  <2>3. failed = THRESHOLD => failed' = THRESHOLD
    BY <2>1, <2>2 DEF UpTo
  <2>4. Trips(c) => failed' = THRESHOLD
    <3>1. CASE seen[c] = "halfopen"
      BY <3>1, <2>3
    <3>2. CASE failures + 1 >= THRESHOLD
      BY <3>2, <2>1, <2>2 DEF UpTo
    <3> QED
      BY <3>1, <3>2 DEF Trips
  <2>5. state' = state /\ seen' = [seen EXCEPT ![c] = "closed"]
        /\ pc' = [pc EXCEPT ![c] = IF Trips(c) THEN "trip" ELSE "idle"]
    BY <1>14 DEF FailCount, Goto
  <2> QED
    BY <2>2, <2>3, <2>4, <2>5
<1>15. ASSUME NEW c \in Callers, TripStore(c) PROVE NoFalseTripInv'
  BY <1>15 DEF TripStore, Goto
<1>16. ASSUME NEW c \in Callers, StampStore(c) PROVE NoFalseTripInv'
  BY <1>16 DEF StampStore, Goto
<1> QED
  BY <1>1, <1>2, <1>3, <1>4, <1>5, <1>6, <1>7, <1>8, <1>9, <1>10, <1>11,
     <1>12, <1>13, <1>14, <1>15, <1>16, NextSteps

\* However many tasks share the breaker, and however their loads and stores
\* interleave, it leaves the closed state only after THRESHOLD operations
\* have failed.
THEOREM NoFalseTripAlways == Spec => []NoFalseTrip
<1>1. Spec => []TypeOK
  BY TypeCorrect
<1>2. NoFalseTripInv /\ TypeOK' /\ [Next]_vars => NoFalseTripInv'
  BY NoFalseTripStep
<1>3. NoFalseTripInv => NoFalseTrip
  BY DEF NoFalseTripInv
<1> QED
  BY <1>1, <1>2, <1>3, NoFalseTripInit, PTL DEF Spec

-----------------------------------------------------------------------------
\* With one caller a task's last load is still true when it stores: the
\* circuit is what the task's position says.
SoloInv(p) ==
  /\ TypeOK
  /\ state = "open" => pc[p] \in {"idle", "admit", "cooldown", "probe", "stamp"}
  /\ pc[p] \in {"cooldown", "probe", "stamp"} => state = "open"
  /\ pc[p] = "probe" => age = COOLDOWN
  /\ pc[p] # "stamp" => age <= sinceTrip
  /\ pc[p] = "close" => state = "halfopen" /\ seen[p] = "halfopen"
  /\ pc[p] = "reset" => state = "closed" /\ seen[p] # "open"
  /\ pc[p] = "count" => seen[p] = state

\* A single caller starts idle.
LEMMA SoloInit ==
  ASSUME NEW p \in Callers, Callers = {p}, Init
  PROVE  SoloInv(p)
BY RpcConstants DEF Init, SoloInv, TypeOK, CircuitStates, Locations

\* Every step of a single caller keeps the breaker and its call in step.
LEMMA SoloStep ==
  ASSUME NEW p \in Callers, Callers = {p},
         SoloInv(p), TypeOK', [Next]_vars
  PROVE  SoloInv(p)'
<1> USE RpcConstants DEF SoloInv, TypeOK, breaker, history
<1>1. CASE UNCHANGED vars
  BY <1>1 DEF vars
<1>2. CASE Second
  BY <1>2 DEF Second, UpTo
<1>3. CASE EndpointChanges
  BY <1>3 DEF EndpointChanges
<1>4. CASE PollCheck(p) \/ Call(p)
  BY <1>4 DEF PollCheck, Call, Goto
<1>5. CASE AllowLoad(p)
  BY <1>5 DEF AllowLoad, Goto
<1>6. CASE CooldownCheck(p)
  BY <1>6 DEF CooldownCheck, Goto
<1>7. CASE ProbeStore(p)
  BY <1>7 DEF ProbeStore, Goto
<1>8. CASE AttemptOk(p)
  BY <1>8 DEF AttemptOk, Goto
<1>9. CASE AttemptFails(p)
  BY <1>9 DEF AttemptFails, Goto
<1>10. CASE SuccessLoad(p)
  BY <1>10 DEF SuccessLoad, Goto, CircuitStates
<1>11. CASE CloseStore(p)
  BY <1>11 DEF CloseStore, Goto
<1>12. CASE ResetStore(p)
  BY <1>12 DEF ResetStore, Goto
<1>13. CASE FailLoad(p)
  BY <1>13 DEF FailLoad, Goto
<1>14. CASE FailCount(p)
  BY <1>14 DEF FailCount, Goto, Trips
<1>15. CASE TripStore(p)
  BY <1>15 DEF TripStore, Goto
<1>16. CASE StampStore(p)
  BY <1>16 DEF StampStore, Goto
<1> QED
  BY <1>1, <1>2, <1>3, <1>4, <1>5, <1>6, <1>7, <1>8, <1>9, <1>10, <1>11,
     <1>12, <1>13, <1>14, <1>15, <1>16, NextSteps

\* The breaker of a single caller is in step with it.
LEMMA SoloAlways ==
  ASSUME NEW p \in Callers, Callers = {p}
  PROVE  Spec => []SoloInv(p)
<1>1. Init => SoloInv(p)
  BY SoloInit
<1>2. SoloInv(p) /\ TypeOK' /\ [Next]_vars => SoloInv(p)'
  BY SoloStep
<1>3. Spec => []TypeOK
  BY TypeCorrect
<1> QED
  BY <1>1, <1>2, <1>3, PTL DEF Spec

\* A service with a single caller (the service manager's polling task when
\* nothing else uses the service) tests the endpoint only after a whole
\* cooldown.
THEOREM SoloCooldown ==
  ASSUME NEW p \in Callers, Callers = {p}
  PROVE  Spec => []CooldownRespected
<1>1. SoloInv(p) => CooldownRespected
  BY RpcConstants DEF SoloInv, CooldownRespected, TypeOK
<1> QED
  BY <1>1, SoloAlways, PTL

\* With a single caller record_success never meets an open circuit, as the
\* comment in its Open branch expects.
THEOREM SoloSuccess ==
  ASSUME NEW p \in Callers, Callers = {p}
  PROVE  Spec => []NoSuccessWhileOpen
<1>1. SoloInv(p) => NoSuccessWhileOpen
  BY DEF SoloInv, NoSuccessWhileOpen
<1> QED
  BY <1>1, SoloAlways, PTL

-----------------------------------------------------------------------------
\* With a single caller every step of the service is a step of Breaker, or
\* leaves Breaker's variables as they are.
LEMMA SoloRefinesStep ==
  ASSUME NEW p \in Callers, Callers = {p},
         SoloInv(p), SoloInv(p)', [Next]_vars
  PROVE  [Abstract!Next]_(Abstract!bvars)
<1>0. \A l : /\ At(l) <=> pc[p] = l
             /\ At(l)' <=> pc'[p] = l
  BY DEF At
<1> USE <1>0, RpcConstants
    DEF SoloInv, TypeOK, CircuitStates, breaker, history, Abstract!bvars
<1> HIDE DEF At
<1>1. CASE UNCHANGED vars
  BY <1>1 DEF vars
<1>2. CASE Second
  <2>1. CASE At("trip") \/ At("stamp") \/ age = COOLDOWN
    BY <1>2, <2>1 DEF Second, UpTo
  <2>2. CASE ~(At("trip") \/ At("stamp") \/ age = COOLDOWN)
    <3>1. Abstract!Second
      BY <1>2, <2>2 DEF Second, UpTo, Abstract!Second
    <3> QED
      BY <3>1 DEF Abstract!Next
  <2> QED
    BY <2>1, <2>2
<1>3. CASE EndpointChanges
  BY <1>3 DEF EndpointChanges
<1>4. CASE PollCheck(p) \/ Call(p)
  BY <1>4 DEF PollCheck, Call, Goto
<1>5. CASE AllowLoad(p)
  BY <1>5 DEF AllowLoad, Goto
<1>6. CASE CooldownCheck(p)
  BY <1>6 DEF CooldownCheck, Goto
<1>7. CASE ProbeStore(p)
  <2>1. Abstract!Probe
    BY <1>7 DEF ProbeStore, Goto, Abstract!Probe
  <2> QED
    BY <2>1 DEF Abstract!Next
<1>8. CASE AttemptOk(p)
  BY <1>8 DEF AttemptOk, Goto
<1>9. CASE AttemptFails(p)
  BY <1>9 DEF AttemptFails, Goto
<1>10. CASE SuccessLoad(p)
  <2>1. CASE state = "closed"
    <3>1. Abstract!Succeed
      BY <1>10, <2>1 DEF SuccessLoad, Goto, Abstract!Succeed
    <3> QED
      BY <3>1 DEF Abstract!Next
  <2>2. CASE state # "closed"
    BY <1>10, <2>2 DEF SuccessLoad, Goto
  <2> QED
    BY <2>1, <2>2
<1>11. CASE CloseStore(p)
  <2>1. Abstract!Succeed
    BY <1>11 DEF CloseStore, Goto, Abstract!Succeed
  <2> QED
    BY <2>1 DEF Abstract!Next
<1>12. CASE ResetStore(p)
  BY <1>12 DEF ResetStore, Goto
<1>13. CASE FailLoad(p)
  BY <1>13 DEF FailLoad, Goto
<1>14. CASE FailCount(p)
  <2>1. CASE Trips(p)
    <3>1. Abstract!Trip
      BY <1>14, <2>1
         DEF FailCount, Goto, Trips, UpTo, Abstract!Trip, Abstract!UpTo
    <3> QED
      BY <3>1 DEF Abstract!Next
  <2>2. CASE ~Trips(p)
    <3>1. Abstract!Fail
      BY <1>14, <2>2 DEF FailCount, Goto, Trips, UpTo, Abstract!Fail
    <3> QED
      BY <3>1 DEF Abstract!Next
  <2> QED
    BY <2>1, <2>2
<1>15. CASE TripStore(p)
  BY <1>15 DEF TripStore, Goto
<1>16. CASE StampStore(p)
  BY <1>16 DEF StampStore, Goto
<1> QED
  BY <1>1, <1>2, <1>3, <1>4, <1>5, <1>6, <1>7, <1>8, <1>9, <1>10, <1>11,
     <1>12, <1>13, <1>14, <1>15, <1>16, NextSteps

\* A service with a single caller implements the breaker its documentation
\* describes.
THEOREM SoloRefines ==
  ASSUME NEW p \in Callers, Callers = {p}
  PROVE  Spec => ImplementsBreaker
<1>1. Init => Abstract!Init
  BY RpcConstants DEF Init, Abstract!Init, At
<1>2. SoloInv(p) /\ SoloInv(p)' /\ [Next]_vars
        => [Abstract!Next]_(Abstract!bvars)
  BY SoloRefinesStep
<1>3. Spec => []SoloInv(p)
  BY SoloAlways
<1> QED
  BY <1>1, <1>2, <1>3, PTL DEF Spec, ImplementsBreaker, Abstract!Spec
=============================================================================
