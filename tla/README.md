# lib_ton in TLA+

A verification development for `lib_ton`, the TON wallet library of
desktop-app: models of its stateful parts, the TLC configurations that check
them on small instances, and theorems that TLAPS checks for every instance.
Every definition is translated from the C++ in `src/`. What is outside it
(tonlib, the cache database, the event loop, the network) is modelled from how
that code uses it, and is marked external in `PROJECT.json`.

## 1. The system

`Wallet` is the façade an application uses. It lives in the main thread, makes
requests to tonlib through `RequestSender` and `Client`, keeps its data in an
encrypted cache database through `Storage`, and continues in callbacks. Nearly
everything is asynchronous and guarded by a weak pointer (`crl::guard`), so the
question is always which state a callback finds when it runs.

| part | state | operations | interacts with |
|---|---|---|---|
| Key custody: `Wallet`'s key operations, `KeyCreator`, `KeyDestroyer`, `PasswordChanger` | `_list`; one worker object at a time with its key, its passwords, its copy of the list | createKey, importKey, saveKey, deleteKey, deleteAllKeys, changePassword, open | tonlib's key files, the list in the database |
| `Client` | five maps under a mutex, a resend timer, a thread | send, cancel, resend, the loop of `check()`, destructor | `tonlib::Client`, `RequestSender`'s handlers, the main thread |
| `RequestSender` | the done and fail callbacks of a request | request, done, fail, send | `Client`, `crl::on_main` |
| `AccountViewers` | `_map` of accounts: viewers, state, pending transactions, refresh flags; one timer for all | createAccountViewer, refreshNow, addPendingTransaction, the chain of refresh callbacks | tonlib, database, trySilentDecrypt, owners' callbacks |
| `AccountViewer` | `_preloadIds`, event streams | preloadSlice | `Wallet::requestTransactions`, trySilentDecrypt |
| Viewers' passwords in `Wallet` | `_viewersPasswords`, `_viewersPasswordsWaiters`, expiry timer | decrypt, trySilentDecrypt, updateViewersPassword, checkPasswordsExpiration | tonlib; ends of key operations |
| `External` and settings | `_state`, `_settings`, `_configUpgrade`, the database, the library | open, start, updateSettings, switchNetwork, resetNetwork | `Wallet::open`, `Wallet::updateSettings`, key custody (the list of the network in use) |
| Salt and directories (`External`) | files `salt`, `db`, `lib` | loadSalt, writeNewSalt, openDatabase, startLibrary | the file system |
| `LocalTimeSyncer` | one request, the time it was made, the time of the blockchain | sync | `Wallet::checkLocalTime`, the clock of the process |
| Sending in `Wallet` | queries kept in the library | checkSendGrams, sendGrams | `AccountViewers::addPendingTransaction`, owners' callbacks |
| `WebLoader` | callbacks per URL, a network manager | load | `useNetworkCallbacks`, tonlib's HTTP updates |
| `Storage` | none: serialises lists, account states, settings | Save*/Load* | the cache database |
| `ParseState` | none | conversions of the library's objects | `Storage`, `AccountViewers` |
| `ton_utility` | one sender for the program | Start, Finish, CreateKey, CheckKey | tonlib |
| TL core, `Result` | none | conversions, helpers | everybody |

Hard behaviour, and what makes each part correct:

* **Custody.** A key is of use only while an entry of the list (database) names
  a file that tonlib holds (key directory). The two change in separate requests,
  each may fail, the process may stop between any two. Correct means: no crash,
  failure or order of steps leaves on disk an entry nobody can open, unless the
  user asked for its deletion; memory and disk agree between operations; a
  password change is all or nothing; nothing is left behind in tonlib.
* **Client.** Two threads and a timer share the maps, and the mutex is dropped
  around the handler. Correct means: an unforgotten request is in one place,
  answered once, never lost; the destructor joins.
* **AccountViewers.** Refreshes end in callbacks that find an entry which lost
  its viewers, was replaced, or was changed meanwhile. Correct means: one
  refresh at a time, a refresh always to come, newer states replaced by no older
  ones, pending transactions that leave exactly when they are seen or too late,
  a timer that is late for no account.
* **Passwords.** Answers of the library race with what the user types, deletes
  and changes and with expiry. Correct means: passwords of listed keys only,
  nobody waits for a password already typed, nobody is asked again for a
  password that did not fail, expiry has a timer.
* **Network.** The wallet list, the settings in memory and on disk, and the
  configuration in the library are changed by separate calls and name the
  network separately. Correct means: at rest they agree, the listed keys are
  those of the network in use, open and updateSettings are answered once.
* **Salt.** A bad salt is replaced together with both directories. Correct
  means: at any stop, a usable salt goes with what is there, nothing usable is
  removed, and no database is made with a salt that the file does not hold. The
  last is not so when the file cannot be flushed (finding 4).
* **Storage.** Several forms of each record, some written by versions that are
  gone, next to each other in one database. Correct means: what is loaded is what
  was saved, by any version, in any process, and no decrypted text is on the disk.
* **Slices, LocalTime.** Each text to its own message, one request per slice, no
  viewer used after its end; a clock that is never made worse.
* **Sending.** Correct means: a transaction is pending and reported before it is
  sent; an owner that destroys the wallet from inside a report is sent nothing.
* **WebLoader, Utility.** Correct means: everybody who asks is answered once,
  whatever callbacks do; a key of a program without a wallet does not stay.

Every hazard is in `PROJECT.json` with its line and the properties that
watch it.

## 2. Modules

### Key custody

* `KeyVault`: tonlib's key directory (`store`, `minted`; external), the list in
  the database (`db`) and in memory (`list`). A secret is a number: tonlib draws
  a new one for each file. `doomed` and `leaked` are histories: entries the user
  has condemned; a deletion that failed or an operation cut by a crash.
* `KeyCreator`, `KeyDestroyer`, `PasswordChanger`: one record each for the
  object `Wallet` owns, `phase` being the outstanding request ("none": the
  pointer is null). A request takes two steps, as in the code: the library or the
  database performs it, then the handler runs in the main thread. Captures of a
  lambda (`base`, `index`, `entries`) are fields. A request that fails is
  answered "error"; the callers of `DeletePublicKey` ignore its result, so it
  always answers "ok" and the file may stay.
* `WalletKeys`: composes them, adds the user's operations with their `Expects`
  as guards, the crash (all memory goes) and the next open, and states the
  properties. `CustodyInv` is the inductive invariant.
* `KeyCustody`: the abstract specification, one variable: the saved keys, each
  with the password that opens it. `WalletKeys` implements it through `Vault`,
  which is computed from `db`, `store` and `doomed` alone: the refinement is a
  statement about the disk, so it covers crashes.
* `WalletKeysProofs`: theorems.

### Requests

* `RequestReply`: the abstract specification of what a request promises to who
  sends it: at most one of its callbacks runs, once, while the sender is there;
  one does run when it was given both, unless it is withdrawn.
* `RequestSender`: what the wrapped handler does with an answer: post done, post
  fail, ask for a resend, or nothing; and the main thread's queue.
* `Client`: the maps as counters, sets and functions over request ids. The
  thread's loop is cut where the code unlocks (receive, handler, put back,
  forget), since other threads see the maps only there. The destructor is cut
  into clearing the handlers, sending close, and joining. `Client` implements
  `RequestReply` (`KeepsPromise`), with the callbacks that have run in the main
  thread as `given`.
* `ClientProofs`: theorems.

### Accounts

* `AccountViewers`: one address of any number. `entry` is the element of `_map`
  (`NoEntry`: absent), `jobs` the callbacks the code waits for, with what each
  carries. The network keeps transactions that landed and whose time is past.
  What the other addresses do to this one is `OtherAddress`: checkNextRefresh
  goes through all of them, and the timer is one.
* `RefreshTimer`: several addresses with the time, which `AccountViewers` leaves
  out: checkNextRefresh with each account's period and the timer it sets.
* `AccountViewersProofs`: theorems.
* `EncryptedTexts`: the two functions of `ton_parse_state.cpp` that collect the
  encrypted texts and put the decrypted ones back, as operators.
* `Slices`: preloadSlice over requestTransactions and trySilentDecrypt, with
  those operators at work on whole slices; the viewer may be destroyed any time.

### Passwords

* `ViewersPasswords`: `_viewersPasswords` with bytes, generation and expiry,
  the decrypts in flight and waiting, and the ends of key operations that erase
  or change passwords. Expiry is symbolic: "zero", "later", "passed".
* `ViewersPasswordsProofs`: theorems.

### Network and files

* `Network`: `External::open` with its two racing answers, start,
  updateSettings, switchNetwork, resetNetwork, and Wallet's open and
  updateSettings on top, with key operations as far as they meet the network.
  The library and the database are queues, each answering in its own order. That
  is an assumption about both: tonlib handles these requests in turn, the
  database works in one queue.
* `Salt`: loadSalt and writeNewSalt one file operation per step, an error or a
  stop of the process at each. What was written may or may not reach the file,
  and the code does not hear which; `unflushed` is a history that tells.
* `Records`: the forms of a message, a transaction, an account, a wallet state, a
  list and the settings: as the library tells them, in memory, and packed, with
  the legacy forms (`Old...` is what gone versions wrote). Fields that each form
  copies are one field, `content`.
* `Storage`: the database over `Salt`'s directories: settings, a list for each
  network, a state for each account, saved and loaded while External is opened,
  gone with the directory. `kept` is a history: what each record meant in memory
  when it was saved. Two addresses may have one `WalletStateKey`, which looks at
  a part of the address.
* `NetworkProofs`; `StorageProofs`, of `Salt` and `Storage`; `TextsProofs`, of what
  `EncryptedTexts` does to slices and to what is saved: theorems.

### Calls of their own

* `LocalTime`: the clock, the syncer and its request, in units of 5 s relative to
  the true time.
* `WebLoader`: loadWebResource, the list of calls that wait for each address, the
  list that a reply is calling, and the loader that removes itself. It implements
  `RequestReply` too (`LoadsAreAnswered`), a load being a request.
* `Sending`: checkSendGrams and sendGrams, request by request, with the queries
  the library keeps and the two moments in which the owner hears of a pending
  transaction and may destroy the wallet.
* `Utility`: Start, CreateKey, CheckKey and Finish over a library that keeps keys
  in memory.
* `CallsProofs`: theorems about all five, `RefreshTimer` included.

Each `MC*` module gives constants values and symmetry sets. `MCCalls` holds five
specifications that share no state: a behaviour chooses one of them at its start
and the others stay as they are. `MCTexts` holds those of `MCStorage` and
`MCSlices` in the same way.

Next to some actions stands a *mutant*: the action with a plausible mistake. No
specification uses them. `PROJECT.json` names, for each property, a mutant
that breaks it: a property no mistake can break would say nothing.

## 3. Runs

| run | configuration | bounds | shows |
|---|---|---|---|
| `keys` | `MCWalletKeys.cfg` | 2 public keys, 2 passwords, 6 key files, 2 entries, symmetry | safety of custody, `PasswordChangeAtomic`, and that the disk goes only through steps of `KeyCustody` |
| `keys_live` | `MCWalletKeysLive.cfg` | 1 key, 1 password, 6 files, no symmetry | creation, deletion and password change end |
| `client` | `MCClient.cfg` | 3 requests, one with a fail callback | nothing lost or out twice; `Client` implements `RequestReply`: answered once, and answered; the destructor returns |
| `viewers` | `MCAccountViewers.cfg` | 2 transactions, 2 viewers | one refresh, never forgotten, never backwards; pending transactions leave when they should, and do leave |
| `viewers_reentrant` | `MCAccountViewersReentrant.cfg` | `Reentrant = TRUE`, 1 viewer | finding 1: `RefreshFindsEntry` is violated |
| `passwords` | `MCViewersPasswords.cfg` | 2 keys, 2 passwords, 2 decrypts, 2 typings unasked | what is remembered, waited for and asked for; decrypts end, good passwords expire |
| `network` | `MCNetwork.cfg` | 1 update beside the switch open makes itself, 1 reset or restart, 1 key | settings, library, database and list agree; open and updateSettings are answered |
| `network_impatient` | `MCNetworkImpatient.cfg` | `Impatient = TRUE` | finding 2: `DeletionAllowed` is violated |
| `texts` | `MCTexts.cfg` | 2 salts, 2 addresses with one key, 1 public key, accounts and messages of each kind, settings of each form; all slices of up to two transactions, 2 ids, 2 calls, symmetry of the calls | two separate questions: salt, database and keys go together at every stop, what is loaded is what was saved, no decrypted text is on the disk; slices have the right texts, through repeated calls and errors |
| `salt_unflushed` | `MCSaltUnflushed.cfg` | 2 salts | finding 4: `SaltIsSaved` is violated |
| `slices_gone` | `MCSlicesGone.cfg` | the slices of `texts` | finding 3: `CallbackFindsViewer` is violated |
| `calls` | `MCCalls.cfg` | clocks up to a minute off, blockchain up to 40 s behind or ahead, waits up to 40 s; 2 URLs, 4 loads; 1 check, 2 sends; 2 new keys, 1 word check, 2 starts; 2 accounts, 2 viewers each, periods 1 and 3 | five separate questions: the clock is never made worse and a wrong one is set right; everybody who loads is answered; what is sent is pending; keys do not stay; the one timer is late for no account |

Safety and liveness of a component are checked in one run where its state space
allows it. Runs with liveness have no symmetry, which would make it unsound.

Why the bounds are enough to see the interesting cases:

* Custody: a password change with failure in the middle needs two entries; two
  keys cost four files (each is created and re-encrypted), a change of both two
  more: six. The same public key may be in the list twice (an imported key), so
  two keys include that case. Two passwords tell a right one from a wrong one.
* Client: the thread, the queue, the timer and the library are four places;
  three requests let one, which is tried again, wait in the timer while the
  thread has another in hand and a third is answered. Only a request with a fail
  callback is ever put back, so one of them is enough for the retries, and two
  of the others for what the thread does meanwhile.
* AccountViewers: one viewer that stays and one that goes and comes; one
  transaction that is seen and one that gets too late.
* RefreshTimer: two accounts are one that is refreshed or due and one that waits,
  or two that wait for different times; periods on both sides of the time that
  counts while something is pending; an impatient viewer and a patient one.
* Passwords: a decrypt that waits while another one succeeds or fails; typings
  before, between and after the decrypts, of the right password or the wrong
  one, and of a key that was erased meanwhile. Typing when asked is not bounded.
* Network: a switch that is refused, not saved, or overtaken by a reset, or cut
  by a restart. More updates repeat the same stages: `Expects` and `updating`
  keep two from overlapping. A reset and a restart share one bound, since what a
  restart finds is the disk alone, and the disks a reset leaves are disks an
  update leaves. The database first holds nothing or the settings of an older
  application; those of the current one are there after a restart.
* Storage: a start meets the salt on disk and a new one, each at every stage of
  its write. Records do not depend on each other but through the place two
  addresses share and the directory, so one record of each sort, two addresses
  and every form of what is in it are all there is.
* Slices: four kinds of messages (plain, encrypted, the same bytes from another
  source, another text) in up to four places.
* LocalTime: both sides of each threshold of the code (30 s delta, 5 s slow,
  blockchain 300 s is beyond them).
* WebLoader: two loads wait for one address while a third, from inside a
  callback, asks for the same one again and a fourth for another.
* Sending: two sends interleave, one in its callback while the other is at the
  library, next to a check. Utility: a call that Finish drops and one after the
  second Start.

Deadlock is checked everywhere but in `client`, where everything stops once
`Client` is gone, and in `calls`, where everything stops once the bounded calls
are answered or the wallet is gone.

### Fairness

* Custody (`WalletKeys!FairSpec`): the library, the database and the handlers
  proceed. RequestSender sends a request again while the network fails it
  (`client`), the database answers each call from its own queue, the main
  thread runs what is posted to it. The user, crashes and starts are free.
* `Client!FairSpec`: both threads run, the destructor once begun goes on, a
  request that is sent again and again is at last answered by other than a
  network error. The last is strong fairness: without it a request is retried
  for ever, as the code intends.
* `AccountViewers!FairSpec`: time passes for the timer; requests are answered,
  and not for ever with an error (strong fairness on the answers of one stage,
  which errors interrupt).
* `ViewersPasswords!FairSpec`: the library answers, time passes, and a user who
  is asked for a password at last types the right one. Without the last,
  waiting for ever is what the code means to do.
* `Network!FairSpec`: the two queues are served and heard.
* `LocalTime!Fairness`: the owner refreshes, and again and again an answer is
  fast and meets an up to date account, the condition under which the code uses
  it.
* `RefreshTimer!TimerFairness`: time passes and a timer that has ended is heard.
  What `AccountViewers!FairSpec` assumes of the timer, that an account which
  waits is found due in the end, is what `RefreshComesInTime` shows.
* `WebLoader!WebFairness`, `Sending!SendFairness`, `Utility!UtilityFairness`:
  a download ends, with an error at worst; the library answers; the main thread
  goes on. Owners need not do anything.
* `Storage` has safety only.

### Findings

1. `viewers_reentrant`: `saveNewState` ends the refresh that loaded from the
   database, which runs the owner's callback of refreshNow, and then starts the
   network refresh without looking whether the callback has started one
   (`ton_account_viewers.cpp:110`). Two chains run; when the viewer goes, the
   first to end erases the entry and the second fails the `Assert` at line 58.
2. `network_impatient`: `Wallet::updateSettings` with another network calls
   deleteAllKeys from a later callback (`ton_wallet.cpp:205`), whose `Expects`
   (387-389) fail if a key operation began meanwhile; nothing refuses one.
3. `slices_gone`: `preloadSlice` guards the first callback with the viewer, not
   the one it gives to trySilentDecrypt (`ton_account_viewer.cpp:84`), which uses
   members of a viewer that may be gone.
4. `salt_unflushed`: `writeNewSalt` fails when `write` returns less than 32
   (`ton_external.cpp:313`), but the file is buffered and `write` tells of the
   buffer. It is flushed when the file is closed, and nobody sees whether it was:
   open then makes a database with a salt that no file holds. The next start
   takes the short file for a bad salt and removes database and keys.

The constants `Reentrant` and `Impatient` are FALSE in the other runs: there the
owner behaves as the `Expects` need, so that everything else is checked. The
flush of the salt may fail in `texts` too: there `SaltHolds` excepts a salt whose
flush has failed, and all else holds of it.

Other behaviour met on the way, modelled as it is and no disagreement with any
text: `switchNetwork` flips the network before it computes the `clear` flag,
which is then always false; `deleteAllKeys` deletes tonlib's files of both
networks and the list of one; an upgrade of the settings is told only when the
library is the last to come; settings that were refused or not saved stay in
memory; after `Wallet::open` answered an error of its own switch, External is
opened; equal encrypted bytes from two sources get the first's text; a
`LocalTimeSyncer` whose request fails is never destroyed, and none is made after
it; the id of a slice whose request failed stays in `_preloadIds`; a password
erased and typed anew starts again at generation one; a pending transaction
added during the load from the database is overwritten by what is loaded; while
PasswordChanger deletes the old files, `_list` still names them; a second
refreshNow replaces the callback of the first, which is never called; callbacks
that wait for a password are dropped without an answer when it expires or is
cleared; a check whose estimate fails leaves its query in the library, and a query
that was sent is never forgotten there; a key whose words cannot be exported
stays in the library of `ton_utility`; settings are loaded for the test network
whatever was saved; of two accounts with one key in the database, the last saved
is there.

## 4. Proofs

Every safety invariant and every action property that a run checks is a theorem,
and so is the refinement of `KeyCustody`; of the properties with a liveness part,
the safety part is. A theorem holds for sets of any size: keys, passwords,
requests, transactions, calls, addresses, configurations, lists.

| theorem | module | states |
|---|---|---|
| `TypeCorrect` | `WalletKeysProofs` | `Spec => []TypeOK` |
| `CustodyHolds` | `WalletKeysProofs` | `Spec => []CustodyInv` |
| `PersistedKeysStayUsable` | `WalletKeysProofs` | `Spec => []PersistedKeysUsable` |
| `ListedKeysStayUsable` | `WalletKeysProofs` | `Spec => []ListedKeysUsable` |
| `MemoryAgreesWithDisk` | `WalletKeysProofs` | `Spec => []MemoryMatchesDisk` |
| `NoSecretIsLeftBehind` | `WalletKeysProofs` | `Spec => []NoStraySecrets` |
| `PasswordsChangeTogether` | `WalletKeysProofs` | `Spec => PasswordChangeAtomic` |
| `WalletKeepsCustody` | `WalletKeysProofs` | `Spec => KeepsCustody`: `WalletKeys` implements `KeyCustody` |
| `ClientTypeCorrect` | `ClientProofs` | `Spec => []TypeOK` |
| `AlwaysInOnePlace` | `ClientProofs` | `Spec => []InOnePlace` |
| `RequestsGoAsPromised` | `ClientProofs` | the safety part of `KeepsPromise`: each step is one of `RequestReply` or none |
| `ViewersTypeCorrect` | `AccountViewersProofs` | `Spec => []TypeOK`, like the next four if not `Reentrant` |
| `OneRefreshAtATime` | `AccountViewersProofs` | `Spec => []OneRefresh` |
| `NeverForgottenHolds` | `AccountViewersProofs` | `Spec => []NeverForgotten` |
| `NeverGoesBackwards` | `AccountViewersProofs` | `Spec => NeverBackwards` |
| `PendingAlwaysStays` | `AccountViewersProofs` | `Spec => PendingStays` |
| `PasswordsTypeCorrect` | `ViewersPasswordsProofs` | `Spec => []TypeOK` |
| `ListedOnlyRemembered` | `ViewersPasswordsProofs` | `Spec => []RemembersListedOnly` |
| `NewerAlwaysAwaited` | `ViewersPasswordsProofs` | `Spec => []WaitsForNewer` |
| `PromptIsAlwaysTrue` | `ViewersPasswordsProofs` | `Spec => PromptIsTrue` |
| `NetworkTypes` | `NetworkProofs` | `Spec => []TypeOK` |
| `OpenIsAnsweredOnce` | `NetworkProofs` | `Spec => []OpenAnsweredOnce` |
| `SettingsAlwaysAgree` | `NetworkProofs` | `Spec => []SettingsAgree` |
| `ListIsOfThisNetwork` | `NetworkProofs` | `Spec => []ListOfThisNetwork` |
| `SaltAlwaysHolds` | `StorageProofs` | `Spec => []SaltHolds` |
| `UsableAlwaysStays` | `StorageProofs` | `Spec => UsableStays` |
| `StorageImplementsSalt` | `StorageProofs` | `StoreSpec => Spec` of `Salt` |
| `StoredStaysUsable` | `StorageProofs` | `StoreSpec => []SaltHolds /\ UsableStays` |
| `LoadedIsAlwaysSaved` | `StorageProofs` | `StoreSpec => []LoadedIsSaved` |
| `TextsAlwaysStayHidden` | `TextsProofs` | `StoreSpec => []TextsStayHidden` |
| `SliceIsAlwaysRight` | `TextsProofs` | `SlicesSpec => []SliceIsRight` |
| `KeptIsOnlyAfterError` | `TextsProofs` | `SlicesSpec => []KeptOnlyAfterError` |
| `SentIsAlwaysPending` | `CallsProofs` | `SendSpec => []SentIsPending` |
| `NothingComesAfterDestructor` | `CallsProofs` | `SendSpec => NothingAfterDestructor` |
| `ClockAlwaysGetsBetter` | `CallsProofs` | `Spec => ClockGetsBetter` of `LocalTime` |
| `LoaderAlwaysServesAll` | `CallsProofs` | `WebSpec => []LoaderServesAll` |
| `LoadsAreRequests` | `CallsProofs` | the safety part of `LoadsAreAnswered`: each step is one of `RequestReply` or none |
| `NoKeyIsEverLeft` | `CallsProofs` | the safety part of `KeysAreAnsweredAndGone` |
| `TimerAlwaysCoversAll` | `CallsProofs` | the safety part of `RefreshComesInTime` |

### Assumptions

All are named and evaluated by the runs.

* Distinct values: `LocalPasswordAssumption` (the random password is no user's),
  `NoEntryAssumption` of custody and of accounts, `CloseAssumption`,
  `EmptyAssumption` (no password is empty), `StateKeyAssumption` (the records of
  the database have keys of three kinds), `SecretsAssumption` (a text that came
  encrypted is told from those that came as they are, and from bytes: without
  it "the text is not on the disk" would say nothing).
* Shapes: `ToldAssumption` (what tonlib tells has messages of its four kinds),
  `FirstSettingsAssumption` (older settings mean the test network, by its new name
  and address), `ContentsAssumption` (transactions with messages in lists),
  `ConfigsAssumption`, `SettingsAssumption`, `DelaysAssumption`, `OffsetsAssumption`,
  `BehindsAssumption`, `WithFailAssumption`.
* Bounds are numbers and switches are Booleans: `BoundsAssumption`,
  `MaxViewersAssumption`, `MaxTypedAssumption`, `MaxSaltsAssumption`,
  `MaxSlowAssumption`, `ReentrantAssumption`, `ImpatientAssumption`.

### Arguments

**Types of custody.** `TypeOK` is not inductive alone: `SavedNext` indexes the
list with the number of secrets collected, and `OnDeleted` removes the captured
index from the captured list. `WellFormed` adds `Exclusive` (one operation at a
time, none in a closed wallet) and `Captured` (what an operation captured is the
list of now). The proof goes action by action; each `[x EXCEPT ...]` has a lemma
with the fields of the result, after which the record is opaque to the provers.

**Custody.** That a saved entry can be opened is not inductive: a save writes
what memory holds, and a deletion removes a file. `CustodyInv` says what each
step relies on: memory and disk differ by exactly the answer that is on its way
(`DiskAgrees`); secrets in use are older than the next one tonlib hands out
(`AllPast`), so that a new file collides with none; the creator's key opens under
the password it remembers and is in no list before it is saved
(`CreatorHoldsKey`); what is deleted is condemned (`DestroyerHasLeave`), is not
the list's before the save of a password change and not the new list's after it
(`ChangerHoldsKeys`). Two facts carry most cases: a file other than the deleted
one stays, and a new file disturbs none.

**Secrets, change of passwords, refinement.** `NoStraySecrets` is inductive only
with what each operation has yet to forget: `GoneBeforeForgotten` says that the
creator's key, the victim of a change of passwords or the entries `KeyDestroyer`
is after are gone from the library, or a deletion failed, by the time they leave
the state (`TidyInv` is both). `PasswordChangeAtomic` needs `CustodyInv` only, and
one step of it: `PasswordChanger` ends in `rollback` with memory and disk never
touched, or in `rollforward` with every collected key opening under the new
password. The refinement looks at `Vault` as a function of the files, the saved
list and the condemned entries. `LocksInv` makes it one: a secret has one file and
so one password (`FilesDistinct`), a key on its way to the list was condemned by
nobody (`NewcomersNotDoomed`), and a key with a new file was opened with the old
password, even if the user has condemned it (`OldKeysOpen`). Then a new
file changes no item, a deletion changes only condemned items, and each save is
the step of `KeyCustody` that adds, removes or relocks.

**Client.** A request in one place, without its twin, is inductive only if the
places exclude each other for cancelled requests too, which `InOnePlace` does not
ask (`OnePlace`), and if a request that was told of is where no other answer can
come from (`Told`). `Remembered` ties the maps to the places: an id is in
`_requests` while it is somewhere, and has its handler unless the thread holds
it. With these the handler's four outcomes are steps of `RequestReply`: the
callback posted to the main thread runs when nothing was given yet.

**AccountViewers.** The one invariant `EntryOK` says that the entry either is
being refreshed, with exactly one callback out, or rests with viewers and an
armed timer. A callback carries what the network had at its time (`JobOK`), which
is not older than what is shown and not newer than what landed: that is why no
answer goes backwards. `Steady` states both action properties at once and is
shown of each action. With `Reentrant` the invariant is false, as finding 1 shows.

**Passwords.** `PasswordsOK` and `CallOK` state the types, `RemembersListedOnly`
and `WaitsForNewer` in the form in which each password and each call can be
looked at alone; they are inductive together, since whoever changes a generation
sends all that wait for it. The prompt needs more: a call at the library carries
the password remembered, unless a later generation is, or it was erased meanwhile
(`SentOfNow`), and the generations of a key that stays remembered never fall
(`NoneGoesBack`).

**Network.** What is at rest follows from what is still on its way, so the
invariant is about the two queues. `Has`, `One`, `Before` and `LastIn` say of a
queue that it has a call of a kind, at most one, those of one kind before those
of another, and of which sort the last of a kind is; one lemma each says what
appending a call, answering one and taking the first one do to them. In these
words: one opening, one update, one key operation at a time, each in one place
(`OpeningInv`, `UpdatesInv`, `WorkInv`); a list that comes is that of the network
in use (`ListsInv`); a key operation that overlaps a switch can save nothing
before the switch is answered (`KeysInv`); library and disk hold the last they have
accepted (`ServedInv`); and the last accepted is what the settings will be once a
switch that is refused has gone back (`SettingsInv`). When the queues are empty
this is `SettingsAgree`. `Impatient` needs no case of its own: finding 2 is about an
assertion, not about this invariant.

**Salt.** `IInv` adds to the properties `Replacing`: while a salt is being
replaced, how much of the old directories is left follows from the step; and
`LeftShort`: a salt that was not flushed has left a file that no start takes for a
salt, so that the database made with it is the one case in which memory and file
differ (finding 4), and never one where the file holds another salt.
`Storage` refines `Salt` by leaving its variables alone or taking one of its
steps, so that all that is proved of the salt holds of the database with records.

**Records.** `StoredIsKept`: each record is in the database exactly if something
is kept of it, and what is unpacked of the one is the other (`Fits`). It rests on one
lemma for each conversion, from messages up to states: what is packed, or was
packed by an older version if it could be, is unpacked as it was without the texts of
encrypted messages. Conversions of lists go element by element, so their lemmas
are about one place of a list, not about its length.

**Texts.** `CollectEncryptedTexts` and `FlattenSeq` are recursive functions over
the length of a list. What they return is shown for every length: a set of
numbers that has 0 and, with each, the next has all of them (`UpTo`, from the
well-foundedness of the naturals), applied to the set of lengths up to which the claim is
right. So the messages of converted transactions are the converted messages, in
their places (`FlattenMap`, `ListIsConverted`), and the first message with its bytes
has its text at the place where `Place` looks (`FirstIsCollected`,
`EncryptedIsDecrypted`). `ShownIsFound` says that what is shown is a slice of the
network, as it came or with its texts, and the lemmas say the rest.
`TextsAreClear`: of each saved state, the parts of messages that are written
are none of the secret texts, in memory and on the disk; decrypting a state
changes only parts that are not written.

**Calls.** Sending: `FarAsTold`, of each call, what it has said and what has become
of its transaction tell how far it is. LocalTime: an answer is not older than its
request (`ServedAfterSent`), so that the time it is taken to be late is at least
the time it is late. WebLoader: `WebIInv`, everybody who waits is in one list,
once, a list that is not empty is being downloaded or has been, and the loader
is there while there is such a list. Utility: `UtilityIInv`, what a
call has said and whether its key is in the library follow from its stage.
RefreshTimer: `TimerIInv`, the timer rings no later than the next refresh of
any account that waits; a step that leaves the timer alone brings no refresh
nearer than it.

### Model-checked only

Liveness under fairness, and ENABLED, are out of the prover's reach:
`OperationsEnd`, `DestructorReturns`, `PendingEnds`, `DecryptEnds`,
`GoodPasswordExpires`, `CallsEnd`, `WrongClockIsSet`, `SendingEnds`, and what
`KeepsPromise`, `LoadsAreAnswered`, `KeysAreAnsweredAndGone` and
`RefreshComesInTime` say beyond their safety parts, the `Answers` of
`RequestReply` among it. The invariants above that strengthen a property are not
repeated in a run: the runs check what they imply, with mutants, and the
proofs are of all of it. No module declares a RECURSIVE operator.

## 5. What is not modelled

* Byte formats: TL serialisation and its generators (`ton_tl_core`). They have no
  control of their own.
* Conversions that copy one record into another: fees, exported keys, sync
  states, updates, the configuration. Of the others `Records` has all forms.
* `Client::Execute`, a synchronous pure call; exportKey and queryWalletAddress,
  which change nothing.
* `Result`: `InvokeCallback` copies the callback before it runs it, so a callback
  may destroy its owner; the models run a callback whole.
* `done_async`, `fail_async`: no user in the library.
* useNetworkCallbacks, and the Expects about walletId in the settings.
* `WalletKeys` and `Network` together: two lists over one key directory. In
  `Network` a key operation is one thing that may be under way; in `WalletKeys`
  there is one list. What `deleteAllKeys` does to the other network's entries is
  told under the findings and is checked by no run.
* Owners that destroy a viewer from inside a callback it makes, or make a viewer
  of a new address there (`_map` is a flat map, and its elements move); owners
  that call again before Start of `ton_utility` was answered; a decrypt for a key
  that is not listed, after which trySilentDecrypt fails an assertion. The models
  assume owners that do none of it.
* A write of the database that fails is taken to leave the record as it was.

## 6. Plan

Order: the most important first. All steps but the last two are done.

1. `KeyVault`, `KeyCreator`, `KeyDestroyer`, `PasswordChanger`, `WalletKeys`,
   `KeyCustody`.
2. `RequestSender`, `Client`, and `RequestReply`, which it implements.
3. `AccountViewers`, `RefreshTimer`.
4. `ViewersPasswords`.
5. `Network`, `Salt`, `Records`, `Storage`.
6. `EncryptedTexts`, `Slices`, `LocalTime`, `WebLoader`, `Sending`, `Utility`.
7. Proofs: custody of keys with its refinement; `Client` with the safety part of
   its refinement; `AccountViewers`; `ViewersPasswords`; `Network`; `Salt`,
   `Storage` and its records; `Slices`; the calls of their own.
8. Left: `WalletKeys` and `Network` composed: two lists over one key directory,
   `deleteAllKeys` on both.
9. Left, proofs: of that composition; that `Network`'s opens and updates are
   steps of `RequestReply`; that what `AccountViewers` assumes of the timer is the
   safety part of what `RefreshTimer` promises.
