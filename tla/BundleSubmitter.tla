--------------------------- MODULE BundleSubmitter ---------------------------
(***************************************************************************)
(* BundleSubmitter and FastResubmitter (mev-core/src/bundle/submitter.rs): *)
(* a bundle goes out transaction by transaction, as one bundle call, or by *)
(* both at once, and is resubmitted with a higher gas price by a task.     *)
(*                                                                         *)
(* A call holds the lock of active_submissions only to insert, to bump or  *)
(* to clean up; every request to a node is a step of its own that may fail *)
(* before or after the node has acted on it.                               *)
(***************************************************************************)
EXTENDS Naturals, FiniteSets

CONSTANTS
  Ids,                     \* submission ids, one per submit_bundle
  Callers,                 \* tasks that call submit_bundle
  Resubmitters,            \* tasks of FastResubmitter::start_resubmission
  LEN, TARGET,             \* transactions of a bundle, and the target's place
  PRICES,                  \* max_gas_price of the bundles that are submitted
  BUMP_NUM, BUMP_DEN,      \* gas_bump_multiplier
  max_resubmissions,
  MAX_GAS,                 \* max_gas_price of the resubmitter
  MAX_ATTEMPTS,            \* its limit of attempts (10)
  Idle

ASSUME SubmitterConstants ==
  /\ LEN \in Nat \ {0} /\ TARGET \in 1..LEN /\ PRICES \subseteq Nat /\ BUMP_DEN \in Nat \ {0}
  /\ BUMP_NUM \in Nat /\ BUMP_NUM >= BUMP_DEN
  /\ {max_resubmissions, MAX_ATTEMPTS, MAX_GAS} \subseteq Nat \ {0}
  /\ \A p \in PRICES : p <= MAX_GAS

Actors == Callers \cup Resubmitters
\* The keys of active_submissions: submit_race adds a suffix for each path.
Keys == Ids \X {"", "direct", "bundle"}

\* The tasks are of two kinds, and Idle is no value of the program.
ASSUME IdleConstant ==
  /\ Callers \cap Resubmitters = {}
  /\ Idle \notin Keys
  /\ Idle \notin [key : Keys, price : Nat, next : Nat]
  /\ Idle \notin [submission_attempts : Nat, current_gas_price : Nat]

VARIABLES
  active_submissions,      \* trackers by key
  direct,                  \* the submit_direct that each actor runs
  rpc,                     \* the submit_bundle_rpc that each actor runs
  result,                  \* what the resubmitter's last call returned
  task,                    \* the resubmitters
  bundle_rpc_endpoint,     \* whether the configuration has one
  incomplete,              \* bundles whose target carries no raw transaction
  sent, bundled,           \* external: what reached the node, and the relay
  started,                 \* history: ids that are taken
  above                    \* history: each task's bumps beyond MAX_GAS

submitterVars == <<active_submissions, direct, rpc, result, task,
                   bundle_rpc_endpoint, incomplete, sent, bundled, started,
                   above>>

NoResult == [st |-> "none", gas_price |-> 0]
NoTask == [at |-> "none", key |-> Idle, attempts |-> 0]

SubmitterInit ==
  /\ active_submissions = [k \in Keys |-> Idle]
  /\ direct = [a \in Actors |-> Idle]
  /\ rpc = [a \in Actors |-> Idle]
  /\ result = [r \in Resubmitters |-> NoResult]
  /\ task = [r \in Resubmitters |-> NoTask]
  /\ bundle_rpc_endpoint \in BOOLEAN
  /\ incomplete \in SUBSET Ids
  /\ sent = {} /\ bundled = {} /\ started = {}
  /\ above = [r \in Resubmitters |-> 0]

-----------------------------------------------------------------------------
(* submit_bundle                                                           *)

Frame(k, price) == [key |-> k, price |-> price, next |-> 1]

\* The three paths; a race runs the other two under keys of their own.
SubmitBundle(a, id, path, price) ==
  /\ direct[a] = Idle /\ rpc[a] = Idle
  /\ id \notin started
  /\ started' = started \cup {id}
  /\ direct' = [direct EXCEPT ![a] =
       CASE path = "Direct" -> Frame(<<id, "">>, price)
         [] path = "Race" -> Frame(<<id, "direct">>, price)
         [] OTHER -> Idle]
  /\ rpc' = [rpc EXCEPT ![a] =
       CASE path = "BundleRpc" -> Frame(<<id, "">>, price)
         [] path = "Race" -> Frame(<<id, "bundle">>, price)
         [] OTHER -> Idle]
  /\ UNCHANGED <<active_submissions, result, task, bundle_rpc_endpoint,
                 incomplete, sent, bundled, above>>

\* The first path to end, well or badly, ends the call: select! drops the
\* other at the await it has reached.
Finish(a, st) ==
  /\ direct' = [direct EXCEPT ![a] = Idle]
  /\ rpc' = [rpc EXCEPT ![a] = Idle]
  /\ result' = IF a \in Resubmitters
       THEN [result EXCEPT ![a] = [st |-> st, gas_price |-> direct[a].price]]
       ELSE result
  /\ UNCHANGED <<task, bundle_rpc_endpoint, incomplete, started, above>>

Id(k) == k[1]

\* The transactions are sent as they were signed: a new gas price changes the
\* bundle's fields and not the raw form, so what is sent does not depend on it.
Raw(f) == [id |-> Id(f.key), tx |-> f.next]

\* Requests of a's that are on their way.
PendingTx(a) == IF direct[a] # Idle /\ direct[a].next <= LEN
                  THEN {Raw(direct[a])} ELSE {}
PendingBundle(a) == IF rpc[a] # Idle /\ bundle_rpc_endpoint
                      THEN {Id(rpc[a].key)} ELSE {}

\* The node refuses a transaction without a raw form, which the target of a
\* bundle from BundleBuilder is.
Acceptable(f) == ~(Id(f.key) \in incomplete /\ f.next = TARGET)

\* send_raw_transaction answers with a hash.
SendRawTransaction(a) ==
  /\ direct[a] # Idle /\ direct[a].next <= LEN
  /\ Acceptable(direct[a])
  /\ sent' = sent \cup PendingTx(a)
  /\ direct' = [direct EXCEPT ![a].next = @ + 1]
  /\ UNCHANGED <<active_submissions, rpc, result, task, bundle_rpc_endpoint,
                 incomplete, bundled, started, above>>

\* It fails, or its answer is lost: "?" ends submit_direct.
SendRawTransactionFails(a) ==
  /\ direct[a] # Idle /\ direct[a].next <= LEN
  /\ \/ sent' = sent
     \/ Acceptable(direct[a]) /\ sent' = sent \cup PendingTx(a)
  /\ \E B \in SUBSET PendingBundle(a) : bundled' = bundled \cup B
  /\ Finish(a, "err")
  /\ UNCHANGED active_submissions

Tracker(price) ==
  [submission_attempts |-> 1, current_gas_price |-> price]

\* Variant: a tracker is inserted before the last transaction is answered.
EagerTrackDirect(a) ==
  /\ direct[a] # Idle /\ direct[a].next >= LEN
  /\ active_submissions' =
       [active_submissions EXCEPT ![direct[a].key] = Tracker(direct[a].price)]
  /\ \E B \in SUBSET PendingBundle(a) : bundled' = bundled \cup B
  /\ Finish(a, "ok")
  /\ UNCHANGED sent

\* All are sent: submit_direct tracks the submission, from attempt 1.
TrackDirect(a) ==
  /\ direct[a] # Idle /\ direct[a].next > LEN
  /\ active_submissions' =
       [active_submissions EXCEPT ![direct[a].key] = Tracker(direct[a].price)]
  /\ \E B \in SUBSET PendingBundle(a) : bundled' = bundled \cup B
  /\ Finish(a, "ok")
  /\ UNCHANGED sent

\* submit_bundle_rpc gets a bundle hash.
TrackBundleRpc(a) ==
  /\ rpc[a] # Idle /\ bundle_rpc_endpoint
  /\ bundled' = bundled \cup PendingBundle(a)
  /\ active_submissions' =
       [active_submissions EXCEPT ![rpc[a].key] = Tracker(rpc[a].price)]
  /\ \E T \in SUBSET PendingTx(a) : sent' = sent \cup T
  /\ Finish(a, "ok")

\* There is no endpoint, or the call fails or its answer is lost.
BundleRpcFails(a) ==
  /\ rpc[a] # Idle
  /\ \E B \in SUBSET PendingBundle(a) : bundled' = bundled \cup B
  /\ \E T \in SUBSET PendingTx(a) : sent' = sent \cup T
  /\ Finish(a, "err")
  /\ UNCHANGED active_submissions

\* cleanup_old_submissions: any trackers may have reached the age.
CleanupOldSubmissions ==
  /\ \E K \in SUBSET {k \in Keys : active_submissions[k] # Idle} :
       /\ K # {}
       /\ active_submissions' =
            [k \in Keys |-> IF k \in K THEN Idle ELSE active_submissions[k]]
  /\ UNCHANGED <<direct, rpc, result, task, bundle_rpc_endpoint, incomplete,
                 sent, bundled, started, above>>

\* get_stats.
TotalSubmissions == Cardinality({k \in Keys : active_submissions[k] # Idle})

-----------------------------------------------------------------------------
(* FastResubmitter                                                         *)

SetTask(r, at) == task' = [task EXCEPT ![r].at = at]

\* Nothing keeps a second task from working on the same submission.
StartResubmission(r, k) ==
  /\ task[r].at = "none"
  /\ task' = [task EXCEPT ![r] = [at |-> "sleep", key |-> k, attempts |-> 0]]
  /\ UNCHANGED <<active_submissions, direct, rpc, result, bundle_rpc_endpoint,
                 incomplete, sent, bundled, started, above>>

\* After the interval the task ends if nothing at all is active.
Wake(r) ==
  /\ task[r].at = "sleep"
  /\ task' = [task EXCEPT
       ![r].attempts = @ + 1,
       ![r].at = IF TotalSubmissions = 0 THEN "ended" ELSE "bump"]
  /\ UNCHANGED <<active_submissions, direct, rpc, result, bundle_rpc_endpoint,
                 incomplete, sent, bundled, started, above>>

\* Rounded down: a small price is not raised at all.
Bump(price) == (price * BUMP_NUM) \div BUMP_DEN

\* resubmit_with_gas_bump up to the unlock: the new price is in the tracker
\* before anything is sent.
ResubmitWithGasBump(r) ==
  LET k == task[r].key
      t == active_submissions[k]
      allowed == t # Idle /\ t.submission_attempts < max_resubmissions
  IN /\ task[r].at = "bump"
     /\ \/ /\ ~allowed
           /\ SetTask(r, "ended")
           /\ UNCHANGED <<active_submissions, direct, above>>
        \/ /\ allowed
           /\ active_submissions' = [active_submissions EXCEPT
                ![k].submission_attempts = @ + 1,
                ![k].current_gas_price = Bump(@)]
           /\ direct' = [direct EXCEPT ![r] = Frame(k, Bump(t.current_gas_price))]
           /\ above' = IF Bump(t.current_gas_price) > MAX_GAS
                         THEN [above EXCEPT ![r] = @ + 1] ELSE above
           /\ SetTask(r, "sending")
     /\ UNCHANGED <<rpc, result, bundle_rpc_endpoint, incomplete, sent,
                    bundled, started>>

\* The loop goes on after a success at a price within the maximum.
Resubmitted(r) ==
  /\ task[r].at = "sending" /\ direct[r] = Idle
  /\ SetTask(r, IF /\ result[r].st = "ok"
                   /\ result[r].gas_price <= MAX_GAS
                   /\ task[r].attempts < MAX_ATTEMPTS
                  THEN "sleep" ELSE "ended")
  /\ result' = [result EXCEPT ![r] = NoResult]
  /\ UNCHANGED <<active_submissions, direct, rpc, bundle_rpc_endpoint,
                 incomplete, sent, bundled, started, above>>

-----------------------------------------------------------------------------
SubmitterStep(a) ==
  \/ SendRawTransaction(a)
  \/ SendRawTransactionFails(a)
  \/ TrackDirect(a)
  \/ TrackBundleRpc(a)
  \/ BundleRpcFails(a)

ResubmitterStep(r) == Wake(r) \/ ResubmitWithGasBump(r) \/ Resubmitted(r)

SubmitterNext ==
  \/ \E a \in Callers, id \in Ids, path \in {"Direct", "BundleRpc", "Race"},
          price \in PRICES : SubmitBundle(a, id, path, price)
  \/ \E a \in Actors : SubmitterStep(a)
  \/ \E r \in Resubmitters, k \in Keys : StartResubmission(r, k)
  \/ \E r \in Resubmitters : ResubmitterStep(r)
  \/ CleanupOldSubmissions

SubmitterSpec == SubmitterInit /\ [][SubmitterNext]_submitterVars

-----------------------------------------------------------------------------
(* Properties                                                              *)

\* A tracked submission was broadcast as a whole: by its path, every
\* transaction of it reached the node or the relay, however many
\* resubmissions, failures and clean-ups came between (submit_direct and
\* submit_bundle_rpc insert the tracker last).
TrackedWasBroadcast ==
  \A k \in Keys : active_submissions[k] # Idle =>
    \/ Id(k) \in bundled
    \/ /\ \A i \in 1..LEN : \E s \in sent : s.id = Id(k) /\ s.tx = i
       /\ Id(k) \notin incomplete

\* A submission that fails midway leaves a prefix of the bundle at the node,
\* never a later transaction without the earlier ones (the order in
\* submit_direct).
SentIsPrefix ==
  \A s \in sent : \A i \in 1..s.tx : \E q \in sent : q.id = s.id /\ q.tx = i

\* Of the two paths of a race at most one is tracked, so nobody resubmits
\* both (select! in submit_race).
RaceTracksOne ==
  \A id \in Ids : ~(/\ active_submissions[<<id, "direct">>] # Idle
                    /\ active_submissions[<<id, "bundle">>] # Idle)

\* A task raises a price beyond the maximum once at most, though it compares
\* only after it has sent, and several may work on one submission.  A price
\* beyond it was raised by a task of that submission, and by a single bump
\* where the task had it to itself: no clean-up, failure or older tracker that
\* is put back makes a task forget (start_resubmission, resubmit_with_gas_bump).
OneBumpOverCap ==
  /\ \A r \in Resubmitters : above[r] <= 1
  /\ \A k \in Keys :
       active_submissions[k] # Idle
         /\ active_submissions[k].current_gas_price > MAX_GAS =>
       /\ \E r \in Resubmitters : task[r].key = k /\ above[r] = 1
       /\ \/ active_submissions[k].current_gas_price <= Bump(MAX_GAS)
          \/ \E q, r \in Resubmitters :
               q # r /\ task[q].key = k /\ task[r].key = k

\* Bumps that were not sent stay within max_resubmissions, however many tasks
\* count; a success starts that count again, so what limits the resubmissions
\* is each task's own number (resubmit_with_gas_bump, start_resubmission).
AttemptsLimited ==
  /\ \A k \in Keys : active_submissions[k] # Idle =>
       active_submissions[k].submission_attempts <= max_resubmissions
  /\ \A r \in Resubmitters : task[r].attempts <= MAX_ATTEMPTS

\* A resubmission task ends by itself: it fails, reaches its price or its
\* number of attempts, or finds nothing active (start_resubmission).
ResubmissionEnds ==
  \A r \in Resubmitters : task[r].at # "none" ~> task[r].at = "ended"

\* The submissions that are tracked, and by which resubmitters act, tell the
\* truth about what was broadcast at which price and how often
\* (submit_direct, submit_race, resubmit_with_gas_bump).
SubmitterSafe ==
  /\ TrackedWasBroadcast
  /\ SentIsPrefix
  /\ RaceTracksOne
  /\ OneBumpOverCap
  /\ AttemptsLimited
=============================================================================
