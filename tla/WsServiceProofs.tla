--------------------------- MODULE WsServiceProofs ---------------------------
(***************************************************************************)
(* Proofs about WsService: what the service believes of its subscriptions, *)
(* and how long it waits between two connections, for every configuration  *)
(* that HyperLiquidConfig::validate accepts and every set of markets.      *)
(*                                                                         *)
(* The tasks inside start() share the subscription states, so the          *)
(* invariant holds as long as one of them is at work at a time: with one   *)
(* service, or under a manager that starts it again only after stop().     *)
(***************************************************************************)
EXTENDS WsService, FiniteSetTheorems, TLAPS

AtWork(r) == pc[r] \notin {"off", "stopped"}

OneAtWork == \A r, t \in Services : AtWork(r) /\ AtWork(t) => r = t

OneService == \A r, t \in Services : r = t

\* A connection belongs to the part of start() between its two ends.
LinkHasTask ==
  \A r \in Services :
    link[r] # "down" => pc[r] \in {"subscribe", "run", "retry"}

\* Nothing is left of a connection that is over.
LinksEnd ==
  \A r \in Services :
    /\ link[r] # "up" => requested[r] = {} /\ streaming[r] = {}
    /\ link[r] = "down" => replies[r] = {}

\* What the exchange has confirmed, read or not, it serves.
RepliesAreTrue ==
  \A r \in Services : link[r] = "up" =>
    /\ confirmed \subseteq streaming[r]
    /\ \A w \in Wanted : <<w, TRUE>> \in replies[r] => w \in streaming[r]

\* A request that a pass has still to send may be sent.
TodoMayBeSent ==
  \A r \in Services : pc[r] \in {"subscribe", "retry"} =>
    \A w \in todo[r] : attempts[w] < RETRIES

\* The wait is the one that get_backoff would return.
WaitIsCurrent ==
  \A r \in Services : pc[r] = "backoff" => backoff[r] = Backoff

\* The failures since the last good connection are among those counted, and
\* the degraded state is the one they call for.
StreakCounted ==
  /\ streak <= failures
  /\ DegradedAsCounted

WsInv ==
  /\ TypeOK
  /\ LinkHasTask
  /\ LinksEnd
  /\ RepliesAreTrue
  /\ TodoMayBeSent
  /\ WaitIsCurrent
  /\ StreakCounted

-----------------------------------------------------------------------------
(* Powers of two: an n-element set has 2^n subsets.                        *)

\* The factor of the backoff is positive.
LEMMA PowersOfTwo == ASSUME NEW n \in Nat PROVE 2^n \in Nat \ {0}
<1> DEFINE S == 1..n
<1>1. IsFiniteSet(S) /\ Cardinality(S) = n
  BY FS_Interval
<1>2. IsFiniteSet(SUBSET S) /\ Cardinality(SUBSET S) = 2^n
  BY <1>1, FS_SUBSET
<1>3. SUBSET S # {}
  OBVIOUS
<1>4. QED
  BY <1>2, <1>3, FS_CardinalityType, FS_EmptySet

\* get_backoff is a duration; it is the degraded one or at most the maximum,
\* and while the product does not overflow no less than the minimum.
LEMMA BackoffBounds ==
  ASSUME degraded \in BOOLEAN, failures \in 0..WIDTH
  PROVE  /\ Backoff \in Nat
         /\ Backoff # DEGRADED => /\ ~degraded
                                  /\ Backoff <= MAXBACKOFF
         /\ Backoff # DEGRADED /\ ~(MINBACKOFF * 2^failures >= 2^WIDTH) =>
              Backoff >= MINBACKOFF
<1> USE WsConstants DEF WsConstants
<1>1. 2^failures \in Nat \ {0} /\ 2^WIDTH \in Nat \ {0}
  BY PowersOfTwo
<1> DEFINE a == 2^failures  b == 2^WIDTH  p == MINBACKOFF * a
<1>2. p \in Nat /\ MINBACKOFF <= p
  BY <1>1
<1>3. p % b \in Nat /\ (p < b => p % b = p)
  <2> HIDE DEF a, b, p
  <2>1. a \in Nat \ {0} /\ b \in Nat \ {0}
    BY <1>1 DEF a, b
  <2>2. QED
    BY <1>2, <2>1
<1>4. Backoff = IF degraded THEN DEGRADED
                ELSE IF failures = 0 THEN MINBACKOFF
                ELSE UpTo(MAXBACKOFF, p % b)
  BY DEF Backoff
<1> HIDE DEF a, b, p
<1>5. QED
  BY <1>2, <1>3, <1>4 DEF UpTo, a, b, p

-----------------------------------------------------------------------------

\* The service starts with no connection.
LEMMA WsInit == Init => WsInv
<1> SUFFICES ASSUME Init PROVE WsInv
  OBVIOUS
<1> USE WsConstants DEF WsConstants, Init
<1>1. TypeOK
  <2>1. /\ shutdown \in BOOLEAN /\ degraded \in BOOLEAN /\ gauge \in BOOLEAN
        /\ reachable \in BOOLEAN /\ busy \in BOOLEAN
    OBVIOUS
  <2>2. /\ failures \in 0..WIDTH /\ streak \in 0..WIDTH
        /\ attempts \in [Wanted -> 0..RETRIES]
        /\ confirmed \subseteq Wanted /\ due \subseteq Coins
    OBVIOUS
  <2>3. /\ pc \in [Services -> Locations]
        /\ todo \in [Services -> SUBSET Wanted]
        /\ backoff \in [Services -> Nat]
        /\ link \in [Services -> {"down", "up", "closed", "reset"}]
    BY DEF Locations
  <2>4. /\ requested \in [Services -> SUBSET Wanted]
        /\ replies \in [Services -> SUBSET (Wanted \X BOOLEAN)]
        /\ streaming \in [Services -> SUBSET Wanted]
    OBVIOUS
  <2>5. QED
    BY <2>1, <2>2, <2>3, <2>4 DEF TypeOK
<1>2. LinkHasTask /\ LinksEnd /\ RepliesAreTrue
  BY DEF LinkHasTask, LinksEnd, RepliesAreTrue
<1>3. TodoMayBeSent /\ WaitIsCurrent
  BY DEF TodoMayBeSent, WaitIsCurrent
<1>4. StreakCounted
  BY DEF StreakCounted, DegradedAsCounted
<1>5. QED
  BY <1>1, <1>2, <1>3, <1>4 DEF WsInv

-----------------------------------------------------------------------------
(* Every step keeps the invariant.                                         *)

\* The steps, by what they change.
LEMMA StepKinds ==
  ASSUME [Next]_vars
  PROVE  \/ \E r \in Services :
              \/ Start(r) \/ Top(r) \/ ConnectFails(r) \/ Wait(r)
              \/ ConnectOk(r) \/ SendRequest(r)
              \/ RetryTick(r) \/ HandleReply(r)
              \/ StreamEnds(r) \/ StreamFails(r) \/ ShutdownTick(r)
              \/ RecordOk(r) \/ RecordErr(r) \/ Check(r)
              \/ Answer(r) \/ LinkLost(r)
         \/ Shutdown \/ FiveSeconds \/ Outside \/ UNCHANGED vars
BY Zenon DEF Next, Proceed, Environment

\* Every step keeps the types.
LEMMA TypeStep ==
  ASSUME WsInv, OneAtWork, [Next]_vars
  PROVE  TypeOK'
<1> USE WsConstants DEF WsConstants, WsInv, TypeOK, reconnection,
                        subscriptions, network, outside, Locations, Coins
<1>1. ASSUME NEW r \in Services, Start(r) PROVE TypeOK'
  BY <1>1 DEF Start, Goto
<1>2. ASSUME NEW r \in Services, Top(r) PROVE TypeOK'
  BY <1>2 DEF Top, Goto
<1>3. ASSUME NEW r \in Services, ConnectFails(r) PROVE TypeOK'
  BY <1>3 DEF ConnectFails, Goto
<1>4. ASSUME NEW r \in Services, Wait(r) PROVE TypeOK'
  BY <1>4 DEF Wait, Goto
<1>5. ASSUME NEW r \in Services, ConnectOk(r) PROVE TypeOK'
  BY <1>5 DEF ConnectOk, Goto
<1>6. ASSUME NEW r \in Services, SendRequest(r) PROVE TypeOK'
  <2>1. PICK w \in todo[r], sent \in BOOLEAN :
          /\ attempts' = [attempts EXCEPT ![w] = @ + 1]
          /\ due' = due \ {w[1]}
          /\ todo' = [todo EXCEPT ![r] = Remaining(r, w, sent)]
          /\ pc' = [pc EXCEPT ![r] =
                      IF Remaining(r, w, sent) = {} THEN "run" ELSE @]
          /\ requested' = IF link[r] = "up"
                          THEN [requested EXCEPT ![r] = @ \cup {w}]
                          ELSE requested
    BY <1>6 DEF SendRequest
  <2>2. attempts' \in [Wanted -> 0..RETRIES]
    BY <1>6, <2>1 DEF SendRequest, TodoMayBeSent
  <2>3. Remaining(r, w, sent) \subseteq Wanted
    BY DEF Remaining
  <2>4. QED
    BY <1>6, <2>1, <2>2, <2>3 DEF SendRequest
<1>7. ASSUME NEW r \in Services, RetryTick(r) PROVE TypeOK'
  BY <1>7 DEF RetryTick, Goto
<1>8. ASSUME NEW r \in Services, HandleReply(r) PROVE TypeOK'
  BY <1>8 DEF HandleReply
<1>9. ASSUME NEW r \in Services, StreamEnds(r) PROVE TypeOK'
  BY <1>9 DEF StreamEnds, Hangup, Goto
<1>10. ASSUME NEW r \in Services, StreamFails(r) PROVE TypeOK'
  BY <1>10 DEF StreamFails, Hangup, Goto
<1>11. ASSUME NEW r \in Services, ShutdownTick(r) PROVE TypeOK'
  BY <1>11 DEF ShutdownTick, Hangup, Goto
<1>12. ASSUME NEW r \in Services, RecordOk(r) PROVE TypeOK'
  <2>1. degraded' \in BOOLEAN
    BY <1>12 DEF RecordOk
  <2>2. pc' \in [Services -> Locations] /\ streak' \in 0..WIDTH
    BY <1>12 DEF RecordOk, Goto
  <2>3. QED
    BY <1>12, <2>1, <2>2 DEF RecordOk
<1>13. ASSUME NEW r \in Services, RecordErr(r) PROVE TypeOK'
  <2>1. degraded' \in BOOLEAN /\ gauge' \in BOOLEAN
    BY <1>13 DEF RecordErr
  <2>2. failures' \in 0..WIDTH /\ streak' \in 0..WIDTH
    BY <1>13 DEF RecordErr, UpTo
  <2>3. pc' \in [Services -> Locations]
    BY <1>13 DEF RecordErr, Goto
  <2>4. QED
    BY <1>13, <2>1, <2>2, <2>3 DEF RecordErr
<1>14. ASSUME NEW r \in Services, Check(r) PROVE TypeOK'
  <2>1. Backoff \in Nat
    BY BackoffBounds
  <2>2. pc' \in [Services -> Locations]
    BY <1>14 DEF Check, Goto
  <2>3. backoff' \in [Services -> Nat]
    BY <1>14, <2>1 DEF Check
  <2>4. QED
    BY <1>14, <2>2, <2>3 DEF Check
<1>15. ASSUME NEW r \in Services, Answer(r) PROVE TypeOK'
  BY <1>15 DEF Answer
<1>16. ASSUME NEW r \in Services, LinkLost(r) PROVE TypeOK'
  BY <1>16 DEF LinkLost
<1>17. CASE Shutdown \/ FiveSeconds \/ Outside
  BY <1>17, ZenonT(40) DEF Shutdown, FiveSeconds, Outside, reconnection, subscriptions,
     network, outside
<1>18. CASE UNCHANGED vars
  BY <1>18 DEF vars, reconnection, subscriptions, network, outside
<1>19. QED
  BY <1>1, <1>2, <1>3, <1>4, <1>5, <1>6, <1>7, <1>8, <1>9, <1>10, <1>11, <1>12,
     <1>13, <1>14, <1>15, <1>16, <1>17, <1>18, StepKinds

\* A connection has a task that reads it, and ends with it.
LEMMA LinkStep ==
  ASSUME WsInv, OneAtWork, [Next]_vars
  PROVE  (LinkHasTask /\ LinksEnd)'
<1> USE WsConstants DEF WsConstants, WsInv, TypeOK, LinkHasTask, LinksEnd,
      reconnection, subscriptions, network, outside, Locations
<1>1. ASSUME NEW r \in Services, Start(r) PROVE (LinkHasTask /\ LinksEnd)'
  BY <1>1 DEF Start, Goto
<1>2. ASSUME NEW r \in Services, Top(r) PROVE (LinkHasTask /\ LinksEnd)'
  BY <1>2 DEF Top, Goto
<1>3. ASSUME NEW r \in Services, ConnectFails(r)
      PROVE  (LinkHasTask /\ LinksEnd)'
  BY <1>3 DEF ConnectFails, Goto
<1>4. ASSUME NEW r \in Services, Wait(r) PROVE (LinkHasTask /\ LinksEnd)'
  BY <1>4 DEF Wait, Goto
<1>5. ASSUME NEW r \in Services, ConnectOk(r) PROVE (LinkHasTask /\ LinksEnd)'
  BY <1>5 DEF ConnectOk, Goto
<1>6. ASSUME NEW r \in Services, SendRequest(r)
      PROVE  (LinkHasTask /\ LinksEnd)'
  BY <1>6 DEF SendRequest, Remaining
<1>7. ASSUME NEW r \in Services, RetryTick(r) PROVE (LinkHasTask /\ LinksEnd)'
  BY <1>7 DEF RetryTick, Goto
<1>8. ASSUME NEW r \in Services, HandleReply(r)
      PROVE  (LinkHasTask /\ LinksEnd)'
  BY <1>8 DEF HandleReply
<1>9. ASSUME NEW r \in Services, StreamEnds(r) PROVE (LinkHasTask /\ LinksEnd)'
  BY <1>9 DEF StreamEnds, Hangup, Goto
<1>10. ASSUME NEW r \in Services, StreamFails(r)
       PROVE  (LinkHasTask /\ LinksEnd)'
  BY <1>10 DEF StreamFails, Hangup, Goto
<1>11. ASSUME NEW r \in Services, ShutdownTick(r)
       PROVE  (LinkHasTask /\ LinksEnd)'
  BY <1>11 DEF ShutdownTick, Hangup, Goto
<1>12. ASSUME NEW r \in Services, RecordOk(r) PROVE (LinkHasTask /\ LinksEnd)'
  BY <1>12 DEF RecordOk, Goto
<1>13. ASSUME NEW r \in Services, RecordErr(r) PROVE (LinkHasTask /\ LinksEnd)'
  BY <1>13 DEF RecordErr, Goto, UpTo
<1>14. ASSUME NEW r \in Services, Check(r) PROVE (LinkHasTask /\ LinksEnd)'
  BY <1>14 DEF Check, Goto
<1>15. ASSUME NEW r \in Services, Answer(r) PROVE (LinkHasTask /\ LinksEnd)'
  BY <1>15 DEF Answer
<1>16. ASSUME NEW r \in Services, LinkLost(r) PROVE (LinkHasTask /\ LinksEnd)'
  BY <1>16 DEF LinkLost
<1>17. CASE Shutdown \/ FiveSeconds \/ Outside
  BY <1>17 DEF Shutdown, FiveSeconds, Outside, reconnection, subscriptions,
     network, outside
<1>18. CASE UNCHANGED vars
  BY <1>18 DEF vars, reconnection, subscriptions, network, outside
<1>19. QED
  BY <1>1, <1>2, <1>3, <1>4, <1>5, <1>6, <1>7, <1>8, <1>9, <1>10, <1>11, <1>12,
     <1>13, <1>14, <1>15, <1>16, <1>17, <1>18, StepKinds

\* A reply is to a request of this connection (handle_subscription_response).
LEMMA RepliesStep ==
  ASSUME WsInv, OneAtWork, [Next]_vars
  PROVE  RepliesAreTrue'
<1> USE WsConstants DEF WsConstants, WsInv, TypeOK, LinkHasTask, LinksEnd,
      RepliesAreTrue, OneAtWork, AtWork, reconnection, subscriptions, network,
      outside, Locations
<1>1. ASSUME NEW r \in Services, Start(r) PROVE RepliesAreTrue'
  BY <1>1 DEF Start, Goto
<1>2. ASSUME NEW r \in Services, Top(r) PROVE RepliesAreTrue'
  BY <1>2 DEF Top, Goto
<1>3. ASSUME NEW r \in Services, ConnectFails(r) PROVE RepliesAreTrue'
  BY <1>3 DEF ConnectFails, Goto
<1>4. ASSUME NEW r \in Services, Wait(r) PROVE RepliesAreTrue'
  BY <1>4 DEF Wait, Goto
<1>5. ASSUME NEW r \in Services, ConnectOk(r) PROVE RepliesAreTrue'
  BY <1>5 DEF ConnectOk, Goto
<1>6. ASSUME NEW r \in Services, SendRequest(r) PROVE RepliesAreTrue'
  BY <1>6 DEF SendRequest, Remaining
<1>7. ASSUME NEW r \in Services, RetryTick(r) PROVE RepliesAreTrue'
  BY <1>7 DEF RetryTick, Goto
<1>8. ASSUME NEW r \in Services, HandleReply(r) PROVE RepliesAreTrue'
  <2>1. PICK a \in replies[r] :
          /\ replies' = [replies EXCEPT ![r] = @ \ {a}]
          /\ confirmed' = IF a[2] THEN confirmed \cup {a[1]} ELSE confirmed
    BY <1>8 DEF HandleReply
  <2>2. PICK v \in Wanted, ok \in BOOLEAN : a = <<v, ok>>
    BY <2>1
  <2>3. \A t \in Services : link[t] = "up" => t = r
    BY <1>8 DEF HandleReply
  <2>4. link[r] = "up" => confirmed' \subseteq streaming[r]
    <3>1. CASE ok = TRUE
      <4>1. a[1] = v /\ (a[2] = TRUE) /\ (link[r] = "up" => v \in streaming[r])
        BY <2>1, <2>2, <3>1
      <4>2. confirmed' = confirmed \cup {v}
        BY <2>1, <4>1, Zenon
      <4>3. link[r] = "up" => confirmed \subseteq streaming[r]
        OBVIOUS
      <4> HIDE DEF WsInv, WsConstants
      <4>4. QED
        BY <4>1, <4>2, <4>3
    <3>2. CASE ok = FALSE
      <4>1. a[2] = FALSE
        BY <2>2, <3>2
      <4>2. confirmed' = confirmed
        BY <2>1, <4>1, Zenon
      <4>3. QED
        BY <4>2
    <3>3. QED
      BY <3>1, <3>2
  <2>5. replies'[r] \subseteq replies[r]
    BY <2>1
  <2>6. QED
    BY <1>8, <2>3, <2>4, <2>5 DEF HandleReply
<1>9. ASSUME NEW r \in Services, StreamEnds(r) PROVE RepliesAreTrue'
  BY <1>9 DEF StreamEnds, Hangup, Goto
<1>10. ASSUME NEW r \in Services, StreamFails(r) PROVE RepliesAreTrue'
  BY <1>10 DEF StreamFails, Hangup, Goto
<1>11. ASSUME NEW r \in Services, ShutdownTick(r) PROVE RepliesAreTrue'
  BY <1>11 DEF ShutdownTick, Hangup, Goto
<1>12. ASSUME NEW r \in Services, RecordOk(r) PROVE RepliesAreTrue'
  BY <1>12 DEF RecordOk, Goto
<1>13. ASSUME NEW r \in Services, RecordErr(r) PROVE RepliesAreTrue'
  BY <1>13 DEF RecordErr, Goto, UpTo
<1>14. ASSUME NEW r \in Services, Check(r) PROVE RepliesAreTrue'
  BY <1>14 DEF Check, Goto
<1>15. ASSUME NEW r \in Services, Answer(r) PROVE RepliesAreTrue'
  <2>1. PICK w \in requested[r], ok \in BOOLEAN :
          /\ replies' = [replies EXCEPT ![r] = @ \cup {<<w, ok>>}]
          /\ streaming' = IF ok THEN [streaming EXCEPT ![r] = @ \cup {w}]
                                ELSE streaming
    BY ONLY <1>15, ZenonT(40) DEF Answer
  <2>0. replies = [t \in Services |-> replies[t]]
    OBVIOUS
  <2>2. \A t \in Services : streaming[t] \subseteq streaming'[t]
    BY <2>1
  <2>3. ASSUME NEW t \in Services, NEW v \in Wanted,
               <<v, TRUE>> \in replies'[t], <<v, TRUE>> \notin replies[t]
        PROVE  v \in streaming'[t]
    <3>1. t = r /\ <<v, TRUE>> = <<w, ok>>
      <4>1. replies'[t] = IF t = r THEN replies[t] \cup {<<w, ok>>}
                                   ELSE replies[t]
        BY ONLY <2>0, <2>1, t \in Services
      <4> HIDE DEF WsInv, WsConstants
      <4>2. t = r
        BY <2>3, <4>1
      <4>3. QED
        BY <2>3, <4>1, <4>2
    <3>2. v = w /\ ok = TRUE
      BY <3>1
    <3>3. QED
      BY <2>1, <3>1, <3>2
  <2>4. QED
    BY <1>15, <2>2, <2>3 DEF Answer
<1>16. ASSUME NEW r \in Services, LinkLost(r) PROVE RepliesAreTrue'
  BY <1>16 DEF LinkLost
<1>17. CASE Shutdown \/ FiveSeconds \/ Outside
  BY <1>17 DEF Shutdown, FiveSeconds, Outside, reconnection, subscriptions,
     network, outside
<1>18. CASE UNCHANGED vars
  BY <1>18 DEF vars, reconnection, subscriptions, network, outside
<1>19. QED
  BY <1>1, <1>2, <1>3, <1>4, <1>5, <1>6, <1>7, <1>8, <1>9, <1>10, <1>11, <1>12,
     <1>13, <1>14, <1>15, <1>16, <1>17, <1>18, StepKinds

\* A request that is still to be sent may be sent.
LEMMA TodoStep ==
  ASSUME WsInv, OneAtWork, [Next]_vars
  PROVE  TodoMayBeSent'
<1> USE WsConstants DEF WsConstants, WsInv, TypeOK, TodoMayBeSent, OneAtWork,
      AtWork, reconnection, subscriptions, network, outside, Locations,
      ShouldRetry
<1>1. ASSUME NEW r \in Services, Start(r) PROVE TodoMayBeSent'
  BY <1>1 DEF Start, Goto
<1>2. ASSUME NEW r \in Services, Top(r) PROVE TodoMayBeSent'
  BY <1>2 DEF Top, Goto
<1>3. ASSUME NEW r \in Services, ConnectFails(r) PROVE TodoMayBeSent'
  BY <1>3 DEF ConnectFails, Goto
<1>4. ASSUME NEW r \in Services, Wait(r) PROVE TodoMayBeSent'
  BY <1>4 DEF Wait, Goto
<1>5. ASSUME NEW r \in Services, ConnectOk(r) PROVE TodoMayBeSent'
  BY <1>5 DEF ConnectOk, Goto
<1>6. ASSUME NEW r \in Services, SendRequest(r) PROVE TodoMayBeSent'
  BY <1>6 DEF SendRequest, Remaining
<1>7. ASSUME NEW r \in Services, RetryTick(r) PROVE TodoMayBeSent'
  BY <1>7 DEF RetryTick, Goto
<1>8. ASSUME NEW r \in Services, HandleReply(r) PROVE TodoMayBeSent'
  BY <1>8 DEF HandleReply
<1>9. ASSUME NEW r \in Services, StreamEnds(r) PROVE TodoMayBeSent'
  BY <1>9 DEF StreamEnds, Hangup, Goto
<1>10. ASSUME NEW r \in Services, StreamFails(r) PROVE TodoMayBeSent'
  BY <1>10 DEF StreamFails, Hangup, Goto
<1>11. ASSUME NEW r \in Services, ShutdownTick(r) PROVE TodoMayBeSent'
  BY <1>11 DEF ShutdownTick, Hangup, Goto
<1>12. ASSUME NEW r \in Services, RecordOk(r) PROVE TodoMayBeSent'
  BY <1>12 DEF RecordOk, Goto
<1>13. ASSUME NEW r \in Services, RecordErr(r) PROVE TodoMayBeSent'
  BY <1>13 DEF RecordErr, Goto, UpTo
<1>14. ASSUME NEW r \in Services, Check(r) PROVE TodoMayBeSent'
  BY <1>14 DEF Check, Goto
<1>15. ASSUME NEW r \in Services, Answer(r) PROVE TodoMayBeSent'
  BY <1>15 DEF Answer
<1>16. ASSUME NEW r \in Services, LinkLost(r) PROVE TodoMayBeSent'
  BY <1>16 DEF LinkLost
<1>17. CASE Shutdown \/ FiveSeconds \/ Outside
  BY <1>17 DEF Shutdown, FiveSeconds, Outside, reconnection, subscriptions,
     network, outside
<1>18. CASE UNCHANGED vars
  BY <1>18 DEF vars, reconnection, subscriptions, network, outside
<1>19. QED
  BY <1>1, <1>2, <1>3, <1>4, <1>5, <1>6, <1>7, <1>8, <1>9, <1>10, <1>11, <1>12,
     <1>13, <1>14, <1>15, <1>16, <1>17, <1>18, StepKinds

\* A wait is the one the current failure asks for (start).
LEMMA WaitStep ==
  ASSUME WsInv, OneAtWork, [Next]_vars
  PROVE  WaitIsCurrent'
<1> USE WsConstants DEF WsConstants, WsInv, TypeOK, WaitIsCurrent, OneAtWork,
      AtWork, Backoff, reconnection, subscriptions, network, outside, Locations
<1>1. ASSUME NEW r \in Services, Start(r) PROVE WaitIsCurrent'
  BY <1>1 DEF Start, Goto
<1>2. ASSUME NEW r \in Services, Top(r) PROVE WaitIsCurrent'
  BY <1>2 DEF Top, Goto
<1>3. ASSUME NEW r \in Services, ConnectFails(r) PROVE WaitIsCurrent'
  BY <1>3 DEF ConnectFails, Goto
<1>4. ASSUME NEW r \in Services, Wait(r) PROVE WaitIsCurrent'
  BY <1>4 DEF Wait, Goto
<1>5. ASSUME NEW r \in Services, ConnectOk(r) PROVE WaitIsCurrent'
  BY <1>5 DEF ConnectOk, Goto
<1>6. ASSUME NEW r \in Services, SendRequest(r) PROVE WaitIsCurrent'
  BY <1>6 DEF SendRequest, Remaining
<1>7. ASSUME NEW r \in Services, RetryTick(r) PROVE WaitIsCurrent'
  BY <1>7 DEF RetryTick, Goto
<1>8. ASSUME NEW r \in Services, HandleReply(r) PROVE WaitIsCurrent'
  BY <1>8 DEF HandleReply
<1>9. ASSUME NEW r \in Services, StreamEnds(r) PROVE WaitIsCurrent'
  BY <1>9 DEF StreamEnds, Hangup, Goto
<1>10. ASSUME NEW r \in Services, StreamFails(r) PROVE WaitIsCurrent'
  BY <1>10 DEF StreamFails, Hangup, Goto
<1>11. ASSUME NEW r \in Services, ShutdownTick(r) PROVE WaitIsCurrent'
  BY <1>11 DEF ShutdownTick, Hangup, Goto
<1>12. ASSUME NEW r \in Services, RecordOk(r) PROVE WaitIsCurrent'
  BY <1>12 DEF RecordOk, Goto
<1>13. ASSUME NEW r \in Services, RecordErr(r) PROVE WaitIsCurrent'
  BY <1>13 DEF RecordErr, Goto, UpTo
<1>14. ASSUME NEW r \in Services, Check(r) PROVE WaitIsCurrent'
  BY <1>14 DEF Check, Goto
<1>15. ASSUME NEW r \in Services, Answer(r) PROVE WaitIsCurrent'
  BY <1>15 DEF Answer
<1>16. ASSUME NEW r \in Services, LinkLost(r) PROVE WaitIsCurrent'
  BY <1>16 DEF LinkLost
<1>17. CASE Shutdown \/ FiveSeconds \/ Outside
  BY <1>17 DEF Shutdown, FiveSeconds, Outside, reconnection, subscriptions,
     network, outside
<1>18. CASE UNCHANGED vars
  BY <1>18 DEF vars, reconnection, subscriptions, network, outside
<1>19. QED
  BY <1>1, <1>2, <1>3, <1>4, <1>5, <1>6, <1>7, <1>8, <1>9, <1>10, <1>11, <1>12,
     <1>13, <1>14, <1>15, <1>16, <1>17, <1>18, StepKinds

\* Failures are counted for good, those in a row until a connection ends well
\* (record_failure, record_success).
LEMMA StreakStep ==
  ASSUME WsInv, OneAtWork, [Next]_vars
  PROVE  StreakCounted'
<1> USE WsConstants DEF WsConstants, WsInv, TypeOK, StreakCounted,
      DegradedAsCounted, reconnection, subscriptions, network, outside, Enters
<1>1. ASSUME NEW r \in Services, Start(r) PROVE StreakCounted'
  BY <1>1 DEF Start, Goto
<1>2. ASSUME NEW r \in Services, Top(r) PROVE StreakCounted'
  BY <1>2 DEF Top, Goto
<1>3. ASSUME NEW r \in Services, ConnectFails(r) PROVE StreakCounted'
  BY <1>3 DEF ConnectFails, Goto
<1>4. ASSUME NEW r \in Services, Wait(r) PROVE StreakCounted'
  BY <1>4 DEF Wait, Goto
<1>5. ASSUME NEW r \in Services, ConnectOk(r) PROVE StreakCounted'
  BY <1>5 DEF ConnectOk, Goto
<1>6. ASSUME NEW r \in Services, SendRequest(r) PROVE StreakCounted'
  BY <1>6 DEF SendRequest, Remaining
<1>7. ASSUME NEW r \in Services, RetryTick(r) PROVE StreakCounted'
  BY <1>7 DEF RetryTick, Goto
<1>8. ASSUME NEW r \in Services, HandleReply(r) PROVE StreakCounted'
  BY <1>8 DEF HandleReply
<1>9. ASSUME NEW r \in Services, StreamEnds(r) PROVE StreakCounted'
  BY <1>9 DEF StreamEnds, Hangup, Goto
<1>10. ASSUME NEW r \in Services, StreamFails(r) PROVE StreakCounted'
  BY <1>10 DEF StreamFails, Hangup, Goto
<1>11. ASSUME NEW r \in Services, ShutdownTick(r) PROVE StreakCounted'
  BY <1>11 DEF ShutdownTick, Hangup, Goto
<1>12. ASSUME NEW r \in Services, RecordOk(r) PROVE StreakCounted'
  BY <1>12 DEF RecordOk, Goto
<1>13. ASSUME NEW r \in Services, RecordErr(r) PROVE StreakCounted'
  <2>1. streak' <= failures' /\ failures <= failures'
    BY <1>13 DEF RecordErr, UpTo
  <2>2. streak' > 0
    BY <1>13 DEF RecordErr, UpTo
  <2>3. Enters(failures + 1) <=> failures' >= MAXFAILURES
    BY <1>13 DEF RecordErr, UpTo
  <2>4. degraded \/ gauge => failures' >= MAXFAILURES
    BY <2>1, <1>13 DEF RecordErr, UpTo
  <2>5. degraded' <=> (degraded \/ Enters(failures + 1))
    BY <1>13 DEF RecordErr
  <2>6. gauge' => gauge \/ degraded'
    BY <1>13 DEF RecordErr
  <2> HIDE DEF Enters
  <2>7. QED
    BY <2>1, <2>2, <2>3, <2>4, <2>5, <2>6
<1>14. ASSUME NEW r \in Services, Check(r) PROVE StreakCounted'
  BY <1>14 DEF Check, Goto
<1>15. ASSUME NEW r \in Services, Answer(r) PROVE StreakCounted'
  BY <1>15 DEF Answer
<1>16. ASSUME NEW r \in Services, LinkLost(r) PROVE StreakCounted'
  BY <1>16 DEF LinkLost
<1>17. CASE Shutdown \/ FiveSeconds \/ Outside
  BY <1>17 DEF Shutdown, FiveSeconds, Outside, reconnection, subscriptions,
     network, outside
<1>18. CASE UNCHANGED vars
  BY <1>18 DEF vars, reconnection, subscriptions, network, outside
<1>19. QED
  BY <1>1, <1>2, <1>3, <1>4, <1>5, <1>6, <1>7, <1>8, <1>9, <1>10, <1>11, <1>12,
     <1>13, <1>14, <1>15, <1>16, <1>17, <1>18, StepKinds

-----------------------------------------------------------------------------
(* Theorems.                                                               *)

\* Whatever starts the service, one task at a time inside start() is enough:
\* the connection, what was asked of it, what was confirmed on it and the
\* waits between connections agree after every step (websocket.rs).
THEOREM WsInvariant == Spec /\ []OneAtWork => []WsInv
<1>1. WsInv /\ OneAtWork /\ [Next]_vars => WsInv'
  BY TypeStep, LinkStep, RepliesStep, TodoStep, WaitStep, StreakStep DEF WsInv
<1>2. QED
  BY WsInit, <1>1, PTL DEF Spec

\* The invariant says what the two checked invariants promise.
LEMMA TrackedByInv == WsInv => SubscriptionsTracked
BY DEF WsInv, RepliesAreTrue, SubscriptionsTracked, ConfirmedIsStreaming

\* The property follows from the invariant (get_backoff).
LEMMA WaitsByInv == WsInv => WaitsAsConfigured
<1> SUFFICES ASSUME WsInv PROVE WaitsAsConfigured
  OBVIOUS
<1> USE WsConstants DEF WsConstants, WsInv
<1>1. SlowsDown
  BY DEF SlowsDown, WaitIsCurrent, StreakCounted, DegradedAsCounted, Backoff
<1>2. BackoffInRange
  <2> SUFFICES ASSUME NEW r \in Services,
                      pc[r] = "backoff", backoff[r] # DEGRADED
               PROVE  /\ backoff[r] <= MAXBACKOFF
                      /\ \/ backoff[r] >= MINBACKOFF
                         \/ MINBACKOFF * 2^failures >= 2^WIDTH
                            /\ (FitsUntilDegraded => streak = 0)
    BY DEF BackoffInRange
  <2> DEFINE over == MINBACKOFF * 2^failures >= 2^WIDTH
  <2>1. backoff[r] = Backoff
    BY DEF WaitIsCurrent
  <2>2. /\ ~degraded /\ backoff[r] <= MAXBACKOFF
        /\ ~over => backoff[r] >= MINBACKOFF
    BY <2>1, BackoffBounds DEF TypeOK
  <2>3. over /\ FitsUntilDegraded => streak = 0
    <3> SUFFICES ASSUME over, FitsUntilDegraded, streak # 0 PROVE FALSE
      OBVIOUS
    <3>1. failures \in 0..(MAXFAILURES - 1)
      BY <2>2 DEF StreakCounted, DegradedAsCounted, TypeOK
    <3>2. 2^failures \in Nat /\ 2^WIDTH \in Nat
      BY PowersOfTwo DEF TypeOK
    <3>3. MINBACKOFF * 2^failures < 2^WIDTH
      BY <3>1 DEF FitsUntilDegraded
    <3>4. QED
      BY <3>2, <3>3
  <2>4. QED
    BY <2>2, <2>3
<1>3. QED
  BY <1>1, <1>2 DEF WaitsAsConfigured, StreakCounted

\* Of one service, one is at work.
LEMMA OneServiceAtWork == ASSUME OneService PROVE OneAtWork
BY DEF OneService, OneAtWork

\* One service believes of its subscriptions only what is true of the
\* connection it has, and sends no request more often than it may.
THEOREM Tracked == ASSUME OneService PROVE Spec => []SubscriptionsTracked
<1>1. OneAtWork
  BY OneServiceAtWork
<1>2. QED
  BY <1>1, WsInvariant, TrackedByInv, PTL

\* The waits of one service between its connections: the degraded interval
\* after a failure once max_consecutive_failures were counted since the start,
\* at most the maximum otherwise, and below the minimum only after an orderly
\* end, when the count has made the product overflow.
THEOREM Waits == ASSUME OneService PROVE Spec => []WaitsAsConfigured
<1>1. OneAtWork
  BY OneServiceAtWork
<1>2. QED
  BY <1>1, WsInvariant, WaitsByInv, PTL
=============================================================================
