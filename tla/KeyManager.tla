----------------------------- MODULE KeyManager -----------------------------
(***************************************************************************)
(* KeyManager (mev-core/src/bundle/key_manager.rs): wallets, the default   *)
(* wallet and encrypted key files, used by several tasks.                  *)
(*                                                                         *)
(* A wallet is its key.  A task that inserts a wallet keeps the write lock *)
(* of `wallets' until it has looked at the default; one that changes the   *)
(* default keeps a read lock.  The process may crash; files stay, and a    *)
(* file whose write was interrupted is torn.                               *)
(***************************************************************************)
EXTENDS Naturals, FiniteSets

CONSTANTS
  PrivateKeys,              \* keys a new wallet may get
  KeyTasks,
  KeyFiles,                \* paths
  Passwords,
  MAX_KEY_CALLS,           \* bound
  NoKey,                   \* no default wallet
  Torn                     \* a missing, truncated or unreadable file

ASSUME KeyConstants ==
  /\ MAX_KEY_CALLS \in Nat /\ NoKey \notin PrivateKeys
  /\ Torn \notin [key : PrivateKeys \cup {NoKey}, password : Passwords \cup {Torn},
                  cipher : {"aes-256-gcm", "aes-128-ctr"}]

VARIABLES
  wallets,
  default_wallet,
  key_files,               \* path |-> [key, password, cipher] or Torn
  key_call,                \* task |-> the call it is in
  key_calls,               \* number of calls, for the bound
  issued,                  \* ghost: [key, file, password] create_encrypted_key returned
  overwritten              \* ghost: keys whose file was written again

keyVars == <<wallets, default_wallet, key_files, key_call, key_calls, issued,
             overwritten>>

Done == [at |-> "idle", key |-> NoKey, file |-> Torn, password |-> Torn]

KeysInit ==
  /\ wallets = {} /\ default_wallet = NoKey
  /\ key_files \in [KeyFiles -> {Torn, [key |-> NoKey, password |-> Torn,
                                        cipher |-> "aes-128-ctr"]}]
  /\ key_call = [t \in KeyTasks |-> Done]
  /\ key_calls = 0 /\ issued = {} /\ overwritten = {}

Call(t, step, key, file, password) ==
  /\ key_call[t] = Done /\ key_calls < MAX_KEY_CALLS
  /\ key_calls' = key_calls + 1
  /\ key_call' = [key_call EXCEPT ![t] = [at |-> step, key |-> key, file |-> file,
                                          password |-> password]]
  /\ UNCHANGED <<wallets, default_wallet, key_files, issued, overwritten>>

Enter(t, step) == key_call' = [key_call EXCEPT ![t].at = step]
Return(t) == key_call' = [key_call EXCEPT ![t] = Done]

-----------------------------------------------------------------------------
(* Files                                                                   *)

\* create_encrypted_key: a new key; random keys do not repeat.
CreateKey(t, key, file, password) ==
  /\ key \notin wallets \cup overwritten \cup {i.key : i \in issued}
                \cup {key_call[u].key : u \in KeyTasks}
  /\ \A f \in KeyFiles : key_files[f] # Torn => key_files[f].key # key
  /\ Call(t, "create", key, file, password)

\* Keys other calls wrote, or are writing, to the file of this one.
OthersOf(t) ==
  {i.key : i \in {j \in issued : j.file = key_call[t].file}}
  \cup {key_call[u].key : u \in {v \in KeyTasks \ {t} : key_call[v].file = key_call[t].file}}

\* tokio::fs::write truncates the file ...
TruncateFile(t) ==
  /\ key_call[t].at = "create" /\ Enter(t, "writing")
  /\ key_files' = [key_files EXCEPT ![key_call[t].file] = Torn]
  /\ overwritten' = overwritten \cup OthersOf(t)
  /\ UNCHANGED <<wallets, default_wallet, key_calls, issued>>

EncryptKey(key, password) == [key |-> key, password |-> password, cipher |-> "aes-256-gcm"]

\* ... and fills it.
FillFile(t) ==
  /\ key_call[t].at = "writing" /\ Enter(t, "insert")
  /\ key_files' = [key_files EXCEPT
       ![key_call[t].file] = EncryptKey(key_call[t].key, key_call[t].password)]
  /\ overwritten' = overwritten \cup OthersOf(t)
  /\ UNCHANGED <<wallets, default_wallet, key_calls, issued>>

\* decrypt_key: another cipher, a short text or another password is an error.
DecryptKey(content, password) ==
  IF content = Torn THEN NoKey
  ELSE IF content.cipher # "aes-256-gcm" \/ content.password # password THEN NoKey
  ELSE content.key

\* load_encrypted_key reads the file and decrypts.
ReadFile(t, file, password) ==
  LET key == DecryptKey(key_files[file], password) IN
  /\ IF key = NoKey
       THEN /\ key_call[t] = Done /\ key_calls < MAX_KEY_CALLS
            /\ key_calls' = key_calls + 1
            /\ UNCHANGED <<wallets, default_wallet, key_files, key_call, issued, overwritten>>
       ELSE Call(t, "insert", key, Torn, Torn)

\* load_private_key parses the text.
LoadPrivateKey(t, key) == Call(t, "insert", key, Torn, Torn)

-----------------------------------------------------------------------------
(* Wallets                                                                 *)

Writing == {t \in KeyTasks : key_call[t].at = "default"}
Reading == {t \in KeyTasks : key_call[t].at = "assign"}

\* Variant: the lock of the wallets is given back after the insertion.
InsertAndUnlock(t) ==
  /\ key_call[t].at = "insert" /\ Writing = {} /\ Reading = {}
  /\ wallets' = wallets \cup {key_call[t].key}
  /\ Enter(t, "unlocked")
  /\ UNCHANGED <<default_wallet, key_files, key_calls, issued, overwritten>>

InsertWallet(t) ==
  /\ key_call[t].at = "insert" /\ Writing = {} /\ Reading = {}
  /\ wallets' = wallets \cup {key_call[t].key}
  /\ Enter(t, "default")
  /\ UNCHANGED <<default_wallet, key_files, key_calls, issued, overwritten>>

\* The first wallet becomes the default.
DefaultAfter(old, key) == IF old = NoKey THEN key ELSE old

\* Both locks are given back and the address is returned.
FinishLoad(t) ==
  /\ key_call[t].at = "default"
  /\ default_wallet' = DefaultAfter(default_wallet, key_call[t].key)
  /\ issued' = IF key_call[t].file = Torn THEN issued
               ELSE issued \cup {[key |-> key_call[t].key, file |-> key_call[t].file,
                                  password |-> key_call[t].password]}
  /\ Return(t)
  /\ UNCHANGED <<wallets, key_files, key_calls, overwritten>>

\* set_default_wallet looks the wallet up and keeps the read lock ...
FindWallet(t, key) ==
  /\ Writing = {} /\ key \in wallets
  /\ Call(t, "assign", key, Torn, Torn)

\* ... until the default is replaced.
SetDefault(t) ==
  /\ key_call[t].at = "assign"
  /\ default_wallet' = key_call[t].key
  /\ Return(t)
  /\ UNCHANGED <<wallets, key_files, key_calls, issued, overwritten>>

\* The process ends and starts again.
CrashAndRestart ==
  /\ wallets' = {} /\ default_wallet' = NoKey
  /\ key_call' = [t \in KeyTasks |-> Done]
  /\ UNCHANGED <<key_files, key_calls, issued, overwritten>>

KeysNext ==
  \/ \E t \in KeyTasks :
       \/ \E key \in PrivateKeys, file \in KeyFiles, password \in Passwords :
            CreateKey(t, key, file, password)
       \/ TruncateFile(t) \/ FillFile(t) \/ InsertWallet(t) \/ FinishLoad(t) \/ SetDefault(t)
       \/ \E file \in KeyFiles, password \in Passwords : ReadFile(t, file, password)
       \/ \E key \in PrivateKeys : LoadPrivateKey(t, key) \/ FindWallet(t, key)
  \/ CrashAndRestart

-----------------------------------------------------------------------------
(* Properties                                                              *)

\* Whoever holds no lock sees a default wallet exactly when there are wallets,
\* and it is one of them: the two locks are taken one inside the other
\* (load_encrypted_key, load_private_key, create_encrypted_key).
DefaultIsLoaded ==
  /\ Writing = {} => (default_wallet = NoKey <=> wallets = {})
  /\ default_wallet # NoKey => default_wallet \in wallets

\* A key that create_encrypted_key returned can be loaded again with its
\* password, also after a crash, unless the same file was created twice.
IssuedIsKept ==
  \A i \in issued : i.key \notin overwritten => DecryptKey(key_files[i.file], i.password) = i.key

\* Only set_default_wallet replaces a default wallet: loading further keys while
\* bundles are signed leaves the signer alone.
DefaultStays ==
  [][default_wallet # NoKey /\ default_wallet' \notin {default_wallet, NoKey}
       => \E t \in Reading : key_call[t].key = default_wallet']_keyVars

\* The wallets, the default wallet and the key files agree under concurrent
\* calls and crashes (load_encrypted_key, create_encrypted_key).
KeysSafe ==
  /\ DefaultIsLoaded
  /\ IssuedIsKept
=============================================================================
