--------------------------- MODULE BundleSigning ---------------------------
(***************************************************************************)
(* TransactionSigner (crates/mev-core/src/bundle/signer.rs) and the part   *)
(* of BundleBuilder that drives it (bundle/builder.rs): concurrent tasks   *)
(* sign transactions and build bundles through one nonce tracker.  Every   *)
(* await of the code, hence every lock taken and released, ends a step.    *)
(*                                                                         *)
(* A task t calls sign_transaction_with_address for the wallets            *)
(* OwnWallets[t]; the DefaultUsers also use the default wallet:            *)
(* sign_transaction, build_bundle and KeyManager::set_default_wallet.      *)
(*                                                                         *)
(* An address without an entry in nonce_tracker counts as 0, as in every   *)
(* read the code makes of it.                                              *)
(***************************************************************************)
EXTENDS Naturals, Sequences

CONSTANTS
  Signers,       \* tasks that share the signer
  Wallets,       \* addresses loaded into the key manager
  OwnWallets,    \* the wallets each task signs with by address
  DefaultUsers,  \* tasks that use the default wallet
  FirstDefault,  \* the default wallet at the start
  Plans,         \* <<pre, post>>: own transactions a strategy builder asks for
  Resets,        \* nonces that reset_nonce is called with
  MaxNonce       \* bound: no call starts for a wallet that has reached it

ASSUME SigningConstants ==
  /\ OwnWallets \in [Signers -> SUBSET Wallets]
  /\ DefaultUsers \subseteq Signers
  /\ FirstDefault \in Wallets
  /\ Plans \subseteq Nat \X Nat
  /\ Resets \subseteq Nat
  /\ MaxNonce \in Nat

VARIABLES
  tracker,   \* nonce_tracker
  default,   \* KeyManager::default_wallet
  pc,        \* where each task is
  wallet,    \* the wallet the task's current call holds
  nonce,     \* the nonce it holds: allocated, or build_bundle's current_nonce
  pre,       \* pre-transactions still to sign
  post,      \* post-transactions still to sign
  own,       \* transactions signed for the bundle being built
  signed,    \* history: nonces signed by wallet and not declared lost
  reused     \* history: some nonce was signed twice for one wallet

signingVars == <<tracker, default, pc, wallet, nonce, pre, post, own, signed, reused>>
job == <<wallet, nonce, pre, post, own>>
history == <<signed, reused>>

Locations == {"idle", "alloc", "sign", "update", "start", "pick", "signfixed",
              "advance", "target", "validate"}

SigningInit ==
  /\ tracker = [w \in Wallets |-> 0]
  /\ default = FirstDefault
  /\ pc = [t \in Signers |-> "idle"]
  /\ wallet = [t \in Signers |-> FirstDefault]
  /\ nonce = [t \in Signers |-> 0]
  /\ pre = [t \in Signers |-> 0]
  /\ post = [t \in Signers |-> 0]
  /\ own = [t \in Signers |-> <<>>]
  /\ signed = [w \in Wallets |-> {}]
  /\ reused = FALSE

Goto(t, from, to) == pc[t] = from /\ pc' = [pc EXCEPT ![t] = to]

\* The wallet signs: the transaction exists from here on.
Sign(w, n) ==
  /\ signed' = [signed EXCEPT ![w] = @ \cup {n}]
  /\ reused' = (reused \/ n \in signed[w])

-----------------------------------------------------------------------------
(* sign_transaction and sign_transaction_with_address, with the Sequential *)
(* or the Network strategy (the code treats both alike).                   *)

SignWithDefault(t) ==
  /\ t \in DefaultUsers
  /\ tracker[default] < MaxNonce
  /\ Goto(t, "idle", "alloc")
  /\ wallet' = [wallet EXCEPT ![t] = default]
  /\ UNCHANGED <<tracker, default, nonce, pre, post, own, history>>

\* Also sign_from_template, whose wallet is the template's signer.
SignWithAddress(t) ==
  \E w \in OwnWallets[t] :
    /\ tracker[w] < MaxNonce
    /\ Goto(t, "idle", "alloc")
    /\ wallet' = [wallet EXCEPT ![t] = w]
    /\ UNCHANGED <<tracker, default, nonce, pre, post, own, history>>

\* get_nonce: read and advance the tracker under its write lock.
Alloc(t) ==
  LET w == wallet[t] IN
  /\ Goto(t, "alloc", "sign")
  /\ nonce' = [nonce EXCEPT ![t] = tracker[w]]
  /\ tracker' = [tracker EXCEPT ![w] = @ + 1]
  /\ UNCHANGED <<default, wallet, pre, post, own, history>>

SignAllocated(t) ==
  /\ Goto(t, "sign", "update")
  /\ Sign(wallet[t], nonce[t])
  /\ UNCHANGED <<tracker, default, job>>

\* wallet.sign_transaction returns an error: the nonce stays allocated.
SignFails(t) ==
  /\ Goto(t, "sign", "idle")
  /\ UNCHANGED <<tracker, default, job, history>>

\* Variant: update_nonce stores the nonce just used.
LaggingStored(n) == n

\* What update_nonce stores after a signature with nonce n.
Stored(n) == n + 1

\* update_nonce overwrites whatever the tracker has become meanwhile.
Update(t) ==
  /\ Goto(t, "update", "idle")
  /\ tracker' = [tracker EXCEPT ![wallet[t]] = Stored(nonce[t])]
  /\ UNCHANGED <<default, job, history>>

-----------------------------------------------------------------------------
(* build_bundle_with_params: get_starting_nonce, then one signature with   *)
(* NonceStrategy::Fixed for each own transaction.                          *)

\* get_starting_nonce takes the default wallet; a strategy builder has
\* already chosen the plan.
StartBuild(t) ==
  /\ t \in DefaultUsers
  /\ tracker[default] < MaxNonce
  /\ Goto(t, "idle", "start")
  /\ wallet' = [wallet EXCEPT ![t] = default]
  /\ \E p \in Plans : /\ pre' = [pre EXCEPT ![t] = p[1]]
                      /\ post' = [post EXCEPT ![t] = p[2]]
  /\ own' = [own EXCEPT ![t] = <<>>]
  /\ UNCHANGED <<tracker, default, nonce, history>>

\* Variant: one post-transaction too many.
GreedyNextSigning(p, q, targetDone) ==
  IF p > 0 THEN "pick"
  ELSE IF ~targetDone THEN "target"
  ELSE IF q >= 0 THEN "pick" ELSE "validate"

\* The next thing build_bundle does: a pre-transaction, the placeholder of
\* the target, a post-transaction, or the validation.
NextSigning(p, q, targetDone) ==
  IF p > 0 THEN "pick"
  ELSE IF ~targetDone THEN "target"
  ELSE IF q > 0 THEN "pick" ELSE "validate"

\* get_starting_nonce reads the tracker and reserves nothing.
ReadStart(t) ==
  /\ Goto(t, "start", NextSigning(pre[t], post[t], FALSE))
  /\ nonce' = [nonce EXCEPT ![t] = tracker[wallet[t]]]
  /\ UNCHANGED <<tracker, default, wallet, pre, post, own, history>>

\* sign_transaction takes the default wallet again for every transaction.
PickWallet(t) ==
  /\ Goto(t, "pick", "signfixed")
  /\ wallet' = [wallet EXCEPT ![t] = default]
  /\ UNCHANGED <<tracker, default, nonce, pre, post, own, history>>

SignFixed(t) ==
  /\ Goto(t, "signfixed", "advance")
  /\ Sign(wallet[t], nonce[t])
  /\ own' = [own EXCEPT ![t] = Append(@, <<wallet[t], nonce[t]>>)]
  /\ UNCHANGED <<tracker, default, wallet, nonce, pre, post>>

\* The build is abandoned: its nonces stay used.
SignFixedFails(t) ==
  /\ Goto(t, "signfixed", "idle")
  /\ UNCHANGED <<tracker, default, job, history>>

\* Variant: the next post-transaction reuses the nonce of the last one.
StalledAdvance(t) ==
  LET p == IF pre[t] > 0 THEN pre[t] - 1 ELSE 0
      q == IF pre[t] > 0 THEN post[t] ELSE post[t] - 1
  IN /\ Goto(t, "advance", NextSigning(p, q, pre[t] = 0))
     /\ tracker' = [tracker EXCEPT ![wallet[t]] = Stored(nonce[t])]
     /\ nonce' = [nonce EXCEPT ![t] = IF pre[t] > 0 THEN @ ELSE @ + 1]
     /\ pre' = [pre EXCEPT ![t] = p]
     /\ post' = [post EXCEPT ![t] = q]
     /\ UNCHANGED <<default, wallet, own, history>>

\* update_nonce, then current_nonce += 1.
Advance(t) ==
  LET p == IF pre[t] > 0 THEN pre[t] - 1 ELSE 0
      q == IF pre[t] > 0 THEN post[t] ELSE post[t] - 1
  IN /\ Goto(t, "advance", NextSigning(p, q, pre[t] = 0))
     /\ tracker' = [tracker EXCEPT ![wallet[t]] = Stored(nonce[t])]
     /\ nonce' = [nonce EXCEPT ![t] = @ + 1]
     /\ pre' = [pre EXCEPT ![t] = p]
     /\ post' = [post EXCEPT ![t] = q]
     /\ UNCHANGED <<default, wallet, own, history>>

\* create_target_signed_transaction parses the victim's fields, or fails
\* after the pre-transactions are signed.
Target(t) ==
  /\ \E to \in {NextSigning(0, post[t], TRUE), "idle"} : Goto(t, "target", to)
  /\ UNCHANGED <<tracker, default, job, history>>

\* validate_bundle; the bundle is returned or dropped.
Validate(t) ==
  /\ Goto(t, "validate", "idle")
  /\ UNCHANGED <<tracker, default, job, history>>

\* KeyManager::set_default_wallet
SetDefaultWallet(t) ==
  /\ t \in DefaultUsers
  /\ pc[t] = "idle"
  /\ default' \in OwnWallets[t]
  /\ UNCHANGED <<tracker, pc, job, history>>

\* reset_nonce: the caller declares the transactions from n on lost.
Reset(t) ==
  /\ pc[t] = "idle"
  /\ \E w \in OwnWallets[t], n \in Resets :
       /\ tracker' = [tracker EXCEPT ![w] = n]
       /\ signed' = [signed EXCEPT ![w] = {k \in @ : k < n}]
  /\ UNCHANGED <<default, pc, job, reused>>

Step(t) ==
  \/ SignWithDefault(t) \/ SignWithAddress(t)
  \/ Alloc(t) \/ SignAllocated(t) \/ SignFails(t) \/ Update(t)
  \/ StartBuild(t) \/ ReadStart(t) \/ PickWallet(t)
  \/ SignFixed(t) \/ SignFixedFails(t) \/ Advance(t)
  \/ Target(t) \/ Validate(t)
  \/ SetDefaultWallet(t) \/ Reset(t)

SigningNext == \E t \in Signers : Step(t)

SigningSpec == SigningInit /\ [][SigningNext]_signingVars

-----------------------------------------------------------------------------
(* Properties.                                                             *)

TypeOK ==
  /\ tracker \in [Wallets -> Nat]
  /\ default \in Wallets
  /\ pc \in [Signers -> Locations]
  /\ wallet \in [Signers -> Wallets]
  /\ nonce \in [Signers -> Nat]
  /\ pre \in [Signers -> Nat]
  /\ post \in [Signers -> Nat]
  /\ own \in [Signers -> Seq(Wallets \X Nat)]
  /\ signed \in [Wallets -> SUBSET Nat]
  /\ reused \in BOOLEAN

\* No wallet ever signs two transactions with one nonce, of which the network
\* would accept only one, unless reset_nonce has given the nonce back.
NoNonceCollision == ~reused

\* A finished bundle's own transactions come from one wallet with
\* consecutive nonces, so that they can be included in their order.
BundleSequenced ==
  \A t \in Signers : pc[t] = "validate" =>
    \A i \in DOMAIN own[t] :
      /\ own[t][i][1] = own[t][1][1]
      /\ own[t][i][2] = own[t][1][2] + i - 1

\* The tracker never falls back behind a nonce that is already signed
\* once every call has returned.
TrackerCoversSigned ==
  (\A t \in Signers : pc[t] = "idle") =>
    \A w \in Wallets : \A n \in signed[w] : n < tracker[w]
=============================================================================
