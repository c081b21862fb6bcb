----------------------------- MODULE WalletKeys -----------------------------
(***************************************************************************)
(* The key operations of Wallet (ton_wallet.cpp), over KeyCreator,         *)
(* KeyDestroyer and PasswordChanger, with the process stopping at any      *)
(* point and opening the wallet again.  One network's wallet list.         *)
(***************************************************************************)
EXTENDS KeyCreator, KeyDestroyer, PasswordChanger

VARIABLE opened    \* the wallet is open

vars == <<vaultVars, creator, destroyer, changer, opened>>

TypeOK ==
    /\ VaultTypeOK
    /\ CreatorTypeOK
    /\ DestroyerTypeOK
    /\ ChangerTypeOK
    /\ opened \in BOOLEAN

Init ==
    /\ VaultInit
    /\ CreatorInit
    /\ DestroyerInit
    /\ ChangerInit
    /\ opened = TRUE

-----------------------------------------------------------------------------
\* What the user asks for, with the Expects() of each operation.

Idle ==
    /\ creator.phase = "none"
    /\ destroyer.phase = "none"
    /\ changer.phase = "none"

CreateKey ==
    /\ opened /\ Idle
    /\ StartCreator("creating")
    /\ UNCHANGED <<vaultVars, destroyer, changer, opened>>

ImportKey ==
    /\ opened /\ Idle
    /\ StartCreator("importing")
    /\ UNCHANGED <<vaultVars, destroyer, changer, opened>>

\* The bound on entries stands here: without a saved key no list grows.
SaveKey(password) ==
    /\ Len(list) < MaxEntries
    /\ Save(password)
    /\ UNCHANGED <<vaultVars, destroyer, changer, opened>>

\* The first entry with this public key goes.
DeleteKey(k) ==
    /\ opened /\ Idle
    /\ \E i \in DOMAIN list :
         /\ list[i].pub = k /\ \A j \in 1..(i - 1) : list[j].pub # k
         /\ StartDestroyer(i)
    /\ UNCHANGED <<store, minted, db, list, leaked, creator, changer, opened>>

DeleteAllKeys ==
    /\ opened /\ Idle
    /\ StartDestroyer(0)
    /\ UNCHANGED <<store, minted, db, list, leaked, creator, changer, opened>>

ChangePassword(old, new) ==
    /\ opened /\ Idle
    /\ list # <<>>
    /\ StartChanger(old, new)
    /\ UNCHANGED <<vaultVars, creator, destroyer, opened>>

-----------------------------------------------------------------------------
\* The process goes away with everything it had in memory.
Crash ==
    /\ opened
    /\ opened' = FALSE
    /\ list' = <<>>
    /\ creator' = NoCreator
    /\ destroyer' = NoDestroyer
    /\ changer' = NoChanger
    /\ leaked' = (leaked \/ ~ Idle)
    /\ UNCHANGED <<store, minted, db, doomed>>

\* Wallet::open, seen from the list: the database's list becomes the wallet's.
Open ==
    /\ ~ opened
    /\ opened' = TRUE
    /\ list' = db
    /\ UNCHANGED <<store, minted, db, doomed, leaked, creator, destroyer, changer>>

User ==
    \/ CreateKey
    \/ ImportKey
    \/ \E p \in Passwords : SaveKey(p)
    \/ \E k \in Keys : DeleteKey(k)
    \/ DeleteAllKeys
    \/ \E old, new \in Passwords : ChangePassword(old, new)

CreatorStep ==
    /\ CreatorServed \/ CreatorHandles
    /\ UNCHANGED <<destroyer, changer, opened>>

DestroyerStep ==
    /\ DestroyerServed \/ DestroyerHandles
    /\ UNCHANGED <<creator, changer, opened>>

ChangerStep ==
    /\ ChangerServed \/ ChangerHandles
    /\ UNCHANGED <<creator, destroyer, opened>>

Next ==
    User \/ CreatorStep \/ DestroyerStep \/ ChangerStep \/ Crash \/ Open

Spec == Init /\ [][Next]_vars

\* The library answers every request (RequestSender sends it again while the
\* network fails it), the database every call, and the main thread runs every
\* handler it was given.  The user, a crash and the next start are free.
FairSpec ==
    /\ Spec
    /\ WF_vars(CreatorStep)
    /\ WF_vars(DestroyerStep)
    /\ WF_vars(ChangerStep)

-----------------------------------------------------------------------------
(* Safety *)

\* Usable, in the sense the wallet needs: some password of a user opens it.
Usable(e) == \E p \in Passwords : Opens(e, p)

\* An entry on disk can be opened by a password a user has typed, at every
\* moment a crash may come, unless the user asked for its deletion: nothing
\* KeyCreator, KeyDestroyer or PasswordChanger does loses a key, and the
\* random password of KeyCreator never guards a saved one.
PersistedKeysUsable ==
    \A i \in DOMAIN db : Usable(db[i]) \/ db[i] \in doomed

\* The same of the entries in memory, which exportKey, sendGrams and decrypt
\* send to the library at any time.  The exception is real: while
\* PasswordChanger::rollforward deletes the old files, Wallet::_list still
\* names them (it is updated when the last one is gone).  Then the entry that
\* will take the place opens with the new password.
ListedKeysUsable ==
    \A i \in DOMAIN list :
        \/ Usable(list[i]) \/ list[i] \in doomed
        \/ changer.phase = "rollforward" /\ Opens(changer.fresh[i], changer.new)

\* Between operations the list in memory is the list on disk, whatever failed:
\* captured lists and captured indexes were not stale when they were used.
MemoryMatchesDisk == opened /\ Idle => list = db

\* The entry a key file would be of use to.
EntryOf(f) == [pub |-> f.pub, secret |-> f.secret]

\* The entries some part of the wallet still knows of.
Known ==
    ToSet(db) \cup {creator.own, creator.got, changer.got, changer.victim}
        \cup ToSet(changer.entries) \cup ToSet(changer.fresh)

\* While no deletion has failed and no operation was cut by a crash, tonlib
\* holds no key file that nobody knows of: rollback, rollforward, the
\* discarded creation and the re-encrypted key clean up after themselves.
NoStraySecrets == ~ leaked => \A f \in store : EntryOf(f) \in Known

\* PasswordChanger ends with memory and disk agreeing either on keys that all
\* open with the new password or on the very entries it began with.
PasswordChangeAtomic ==
    [][(changer.phase # "none" /\ changer'.phase = "none" /\ opened') =>
          /\ list' = db'
          /\ \/ \A i \in DOMAIN list' : File(list'[i], changer.new) \in store'
             \/ list' = changer.entries]_vars

(* The inductive invariant behind them *)

\* One operation at a time, and none in a closed wallet.
Exclusive ==
    /\ creator.phase = "none" \/ destroyer.phase = "none"
    /\ creator.phase = "none" \/ changer.phase = "none"
    /\ destroyer.phase = "none" \/ changer.phase = "none"
    /\ ~ opened => Idle /\ list = <<>>

\* The lists the operations captured are the list of now.
CapturedByChanger ==
    /\ changer.phase \in {"changing", "saving", "rollback"} =>
          changer.entries = list
    /\ changer.phase = "rollforward" => Len(changer.fresh) = Len(list)
    /\ \A i \in DOMAIN changer.fresh : changer.fresh[i].pub = list[i].pub
    /\ changer.got # NoEntry => changer.got.pub = Current.pub

Captured ==
    /\ creator.phase \in {"rekeying", "dropping", "saving"} => creator.base = list
    /\ destroyer.phase # "none" => destroyer.base = list
    /\ CapturedByChanger

CreatorSaved == Answered("saving", "ok")
DestroyerSaved == destroyer.phase = "saving" /\ destroyer.answer = "ok"
ChangerSaved ==
    \/ changer.phase = "rollforward"
    \/ changer.phase = "saving" /\ changer.answer = "ok"

\* The disk is the list, or is one answer ahead of it.
DiskAgrees ==
    /\ CreatorSaved => db = Append(list, creator.own)
    /\ DestroyerSaved => db = Spared(list)
    /\ ChangerSaved => db = changer.fresh
    /\ opened /\ ~ CreatorSaved /\ ~ DestroyerSaved /\ ~ ChangerSaved =>
          db = list

\* No secret in use is one that tonlib has still to hand out.
Past(e) == e # NoEntry => e.secret < minted
AllPast ==
    /\ \A i \in DOMAIN db : Past(db[i])
    /\ \A i \in DOMAIN list : Past(list[i])
    /\ Past(creator.own) /\ Past(creator.got)
    /\ \A i \in DOMAIN changer.fresh : Past(changer.fresh[i])
    /\ Past(changer.got)

\* KeyCreator's key is its own until it is saved, and opens with _password.
CreatorHoldsKey ==
    /\ creator.phase \in OwningPhases /\ ~ CreatorSaved =>
          \A i \in DOMAIN db : db[i] # creator.own
    /\ creator.phase \in OwningPhases \ {"discarding", "dropping"} =>
          Opens(creator.own, creator.pw)
    /\ creator.phase \in {"creating", "importing"} /\ creator.got # NoEntry =>
          /\ Opens(creator.got, creator.pw)
          /\ \A i \in DOMAIN db : db[i] # creator.got
    /\ creator.phase \in {"rekeying", "dropping"} /\ creator.got # NoEntry =>
          /\ Opens(creator.got, creator.target)
          /\ creator.got # creator.own
          /\ \A i \in DOMAIN db : db[i] # creator.got

\* KeyDestroyer deletes what the user asked to delete.
DestroyerHasLeave ==
    destroyer.phase # "none" =>
        IF destroyer.index = 0
          THEN \A i \in DOMAIN list : list[i] \in doomed
          ELSE list[destroyer.index] \in doomed

\* PasswordChanger holds every new key, deletes new ones before the save and
\* old ones after it.
ChangerHoldsKeys ==
    /\ changer.phase \in {"changing", "saving", "rollforward"} =>
          \A i \in DOMAIN changer.fresh : Opens(changer.fresh[i], changer.new)
    /\ changer.got # NoEntry => Opens(changer.got, changer.new)
    /\ \A i \in DOMAIN changer.entries :
          /\ changer.entries[i] # changer.got
          /\ \A j \in DOMAIN changer.fresh : changer.entries[i] # changer.fresh[j]
    /\ changer.phase = "rollback" =>
          \A i \in DOMAIN changer.entries : changer.entries[i] # changer.victim
    /\ changer.phase = "rollforward" =>
          \A i \in DOMAIN changer.fresh : changer.fresh[i] # changer.victim

\* Custody of the keys: together with TypeOK, inductive.
CustodyInv ==
    /\ Exclusive
    /\ Captured
    /\ DiskAgrees
    /\ AllPast
    /\ CreatorHoldsKey
    /\ DestroyerHasLeave
    /\ ChangerHoldsKeys
    /\ PersistedKeysUsable
    /\ ListedKeysUsable

\* Whatever is given up has been deleted, or a deletion has failed: the creator's
\* key before it forgets it, the victim before the next one, the entries that
\* KeyDestroyer is after before the list without them is saved.
GoneBeforeForgotten ==
    ~ leaked =>
        /\ creator.phase \in {"discarding", "dropping"} /\ creator.answer = "ok" =>
              ~ Holds(creator.own)
        /\ changer.phase \in {"rollback", "rollforward"} /\ changer.answer = "ok" =>
              ~ Holds(changer.victim)
        /\ \/ destroyer.phase = "deleting" /\ destroyer.answer = "ok"
           \/ destroyer.phase = "saving"
           => \A i \in DOMAIN list :
                 Holds(list[i]) => destroyer.index # 0 /\ list[i] # list[destroyer.index]

\* Tidiness of tonlib's directory: together with CustodyInv, inductive.
TidyInv == NoStraySecrets /\ GoneBeforeForgotten

\* One file, so one password, for each secret, and no secret used twice.
FilesDistinct ==
    /\ \A f \in store : f.secret < minted
    /\ \A f, g \in store : f.pub = g.pub /\ f.secret = g.secret => f = g

\* A key that has yet to enter the list was condemned by nobody.
NewcomersNotDoomed ==
    /\ \A e \in doomed : e.secret < minted
    /\ creator.own \notin doomed /\ creator.got \notin doomed
    /\ \A i \in DOMAIN changer.fresh : changer.fresh[i] \notin doomed
    /\ changer.got \notin doomed

\* PasswordChanger has opened each key it has a new file of, condemned or not,
\* and the old file stays until the save.
OldKeysOpen ==
    changer.phase \in {"changing", "saving"} =>
        /\ changer.old \in Passwords
        /\ \A i \in DOMAIN changer.fresh : Usable(changer.entries[i])
        /\ changer.got # NoEntry => Usable(Current)

\* What KeyCustody rests on: together with CustodyInv, inductive.
LocksInv == FilesDistinct /\ NewcomersNotDoomed /\ OldKeysOpen

(* Refinement of KeyCustody *)

\* The password that opens an entry's key file, NoEntry when there is none.
Lock(e) ==
    IF Usable(e) THEN CHOOSE p \in Passwords : Opens(e, p) ELSE NoEntry

Vault ==
    [i \in DOMAIN db |-> [pub |-> db[i].pub, lock |-> Lock(db[i]),
                          condemned |-> db[i] \in doomed]]

Custody == INSTANCE KeyCustody WITH vault <- Vault, Lost <- NoEntry

\* Across creation, import, deletion, password change, their failures and
\* crashes, the disk goes only through the steps KeyCustody allows: in
\* particular all keys change their password in the one step of the save.
KeepsCustody == Custody!Spec

(* Liveness *)

\* Every operation ends: a creator comes to rest or is dropped, a destroyer
\* and a changer are dropped, so the next operation is not refused for ever.
OperationsEnd ==
    /\ creator.phase # "none" ~> creator.phase \in {"none", "created"}
    /\ destroyer.phase # "none" ~> destroyer.phase = "none"
    /\ changer.phase # "none" ~> changer.phase = "none"

=============================================================================
