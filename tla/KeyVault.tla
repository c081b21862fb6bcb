------------------------------ MODULE KeyVault ------------------------------
(***************************************************************************)
(* Where the keys of a wallet are kept.  A key lives in two places: tonlib *)
(* holds its private half in a file of its key directory, encrypted with a *)
(* local password and named by the pair (public key, secret); the wallet   *)
(* holds that pair in its WalletList, in memory (Wallet::_list) and in the *)
(* database.  An entry of the list is of use only while tonlib holds the   *)
(* file it names.  KeyCreator, KeyDestroyer and PasswordChanger change     *)
(* both places, never in one step, and the process may stop in between.    *)
(*                                                                         *)
(* tonlib's key directory (store, minted) is an external service: it is    *)
(* modelled from the requests that src/ sends and the answers it expects.  *)
(***************************************************************************)
EXTENDS Naturals, Sequences, SequencesExt

CONSTANTS
    Keys,           \* public keys
    Passwords,      \* passwords a user may type
    LocalPassword,  \* the random password KeyCreator makes up for a new key
    NoEntry,        \* "no key yet"
    MaxSecrets,     \* bound: key files tonlib ever creates
    MaxEntries      \* bound: entries of a wallet list

Entry == [pub : Keys, secret : Nat]

ASSUME LocalPasswordAssumption == LocalPassword \notin Passwords
ASSUME NoEntryAssumption == NoEntry \notin Entry /\ NoEntry \notin Passwords
ASSUME BoundsAssumption == MaxSecrets \in Nat /\ MaxEntries \in Nat

VARIABLES
    store,   \* tonlib's key files
    minted,  \* how many key files tonlib has created: the next secret
    db,      \* the wallet list in the database
    list,    \* Wallet::_list
    doomed,  \* history: entries the user has asked to delete
    leaked   \* history: a key file may have been left behind

vaultVars == <<store, minted, db, list, doomed, leaked>>

KeyFile == [pub : Keys, secret : Nat, pw : Passwords \cup {LocalPassword}]

VaultTypeOK ==
    /\ store \in SUBSET KeyFile
    /\ minted \in Nat
    /\ db \in Seq(Entry)
    /\ list \in Seq(Entry)
    /\ doomed \in SUBSET Entry
    /\ leaked \in BOOLEAN

VaultInit ==
    /\ store = {}
    /\ minted = 0
    /\ db = <<>>
    /\ list = <<>>
    /\ doomed = {}
    /\ leaked = FALSE

-----------------------------------------------------------------------------

File(e, p) == [pub |-> e.pub, secret |-> e.secret, pw |-> p]

Holds(e) == \E f \in store : f.pub = e.pub /\ f.secret = e.secret

\* TLexportKey, TLchangeLocalPassword and the like decrypt the key file.
Opens(e, p) == File(e, p) \in store

NextEntry(k) == [pub |-> k, secret |-> minted]

\* TLcreateNewKey, TLimportKey and TLchangeLocalPassword write a new file
\* under a secret never used before.
Mint(k, p) ==
    /\ minted < MaxSecrets
    /\ store' = store \cup {File(NextEntry(k), p)}
    /\ minted' = minted + 1

\* DeletePublicKey.  TLdeleteKey may fail; every caller ignores the result.
DeletePublicKey(e) ==
    \/ /\ store' = {f \in store : f.pub # e.pub \/ f.secret # e.secret}
       /\ UNCHANGED leaked
    \/ /\ leaked' = (leaked \/ Holds(e))
       /\ UNCHANGED store

\* TLdeleteAllKeys.  A failure may leave any of the files.
DeleteEveryFile ==
    \E kept \in SUBSET store :
        /\ store' = kept
        /\ leaked' = (leaked \/ kept # {})

\* What the database does for SaveWalletList: the list replaces the previous
\* one, or the call fails and the previous one stays.
SaveWalletList(l, answer) ==
    \/ /\ answer = "ok"
       /\ db' = l
    \/ /\ answer = "error"
       /\ UNCHANGED db

\* What an outstanding request can be heard to say.
Answers == {"none", "pending", "ok", "error"}

=============================================================================
