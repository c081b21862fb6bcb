------------------------------ MODULE Network ------------------------------
(***************************************************************************)
(* The network a wallet works in: External (details/ton_external.cpp) with *)
(* the settings, the database and the library, and the operations of       *)
(* Wallet that use it: open, start, updateSettings.  Each network has its  *)
(* own wallet list in the database; the library works in one network, that *)
(* of the last configuration it accepted; memory and disk hold settings    *)
(* that name it too.  They are changed by separate calls.                  *)
(*                                                                         *)
(* The database and the library each answer calls in the order they get    *)
(* them (none of these requests waits for the network), not in the order   *)
(* of one another.  Key operations appear as far as they meet the network: *)
(* a key is created, and saved in the list of the network in use.          *)
(***************************************************************************)
EXTENDS Naturals, Sequences, SequencesExt

CONSTANTS
    Keys,           \* keys the user creates
    Configs,        \* configurations
    Valid,          \* those the library accepts
    Testnet2,       \* those of the blockchain "testnet2"
    NoConfig,       \* no configuration
    Defaults,       \* the settings an application may give to open
    FirstSaved,     \* the settings the database may hold at first
    Impatient,      \* keys are created while updateSettings saves settings
    MaxUpdates,     \* bound: calls of updateSettings
    MaxUpsets       \* bound: calls of resetNetwork and restarts, together

Networks == {"test", "main"}

\* The network in use of s is s[s.net].
Settings ==
    [test : Configs \cup {NoConfig}, main : Configs \cup {NoConfig},
     net : Networks, version : 0..3]

ASSUME ConfigsAssumption ==
    Valid \cup Testnet2 \subseteq Configs /\ NoConfig \notin Configs
ASSUME SettingsAssumption == Defaults \cup FirstSaved \subseteq Settings
ASSUME ImpatientAssumption == Impatient \in BOOLEAN
ASSUME BoundsAssumption == MaxUpdates \in Nat /\ MaxUpsets \in Nat

VARIABLES
    state,       \* External::_state
    settings,    \* External::_settings
    upgrade,     \* External::_configUpgrade
    future,      \* open's early wallet list, once it has come
    switched,    \* Wallet::_switchedToMain
    list,        \* Wallet::_list
    work,        \* the key operation under way
    updating,    \* a call of Wallet::updateSettings is not answered yet
    started,     \* Wallet::start is done: errors are counted
    libCalls,    \* requests to the library and its answers, in order
    dbCalls,     \* calls of the database and its answers, in order
    library,     \* the configuration the library works with
    disk,        \* the database: settings and lists
    answers,     \* history: the answers to the last call of open
    health,      \* history: whether settings were changed, and went astray
    counts       \* what the bounds are for

wallet == <<list, work, updating, started, switched>>
external == <<state, settings, upgrade, future>>
history == <<answers, health, counts>>
vars == <<wallet, external, libCalls, dbCalls, library, disk, history>>

\* Who waits for a configuration to be set, and saved: resetNetwork and the
\* upgrade, nobody; start; updateSettings, which goes on to a switch of
\* networks by a deletion of the keys.
Afters == {"nobody", "start", "finish", "deletion", "switch"}

\* A call with what it captured.
Call ==
    [what : {"init", "config", "create", "rekey", "deleteAll",
             "open", "list", "settings", "saveKey", "saveNone"},
     settings : Settings, keys : SUBSET Keys, after : Afters,
     said : {"pending", "ok", "error"}]

\* What a key operation waits for.
Stage ==
    [creating |-> {"create"}, saving |-> {"rekey", "saveKey"},
     deleting |-> {"deleteAll", "saveNone"}]

Awaits(whats) ==
    \/ \E i \in DOMAIN libCalls : libCalls[i].what \in whats
    \/ \E i \in DOMAIN dbCalls : dbCalls[i].what \in whats

Disk == [settings : Settings, test : SUBSET Keys, main : SUBSET Keys]

\* The types, and with them that a key operation under way waits for a call
\* that is out: no error leaves it waiting for ever, no call is without it.
TypeOK ==
    /\ state \in {"Initial", "Opening", "Opened"}
    /\ settings \in Settings
    /\ upgrade \in {"None", "TestnetToTestnet2", "TestnetToMainnet"}
    /\ future \subseteq SUBSET Keys
    /\ switched \in BOOLEAN /\ updating \in BOOLEAN /\ started \in BOOLEAN
    /\ list \subseteq Keys
    /\ work \in {"none", "creating", "created", "saving", "deleting"}
    /\ libCalls \in Seq(Call) /\ dbCalls \in Seq(Call)
    /\ \A w \in DOMAIN Stage : work = w <=> Awaits(Stage[w])
    /\ library \in Configs \cup {NoConfig}
    /\ disk \in Disk
    /\ answers \in Seq({"ok", "error"})
    /\ health \in {"fresh", "changed", "astray"}
    /\ counts \in [updates : 0..MaxUpdates, resets : 0..MaxUpsets,
                   restarts : 0..MaxUpsets]

Nothing == [test |-> NoConfig, main |-> NoConfig, net |-> "main", version |-> 0]

Init ==
    /\ state = "Initial" /\ settings = Nothing /\ upgrade = "None"
    /\ future = {}
    /\ list = {} /\ work = "none" /\ updating = FALSE
    /\ started = FALSE /\ switched = FALSE
    /\ libCalls = <<>> /\ dbCalls = <<>> /\ library = NoConfig
    /\ disk \in [settings : FirstSaved, test : {{}}, main : {{}}]
    /\ answers = <<>> /\ health = "fresh"
    /\ counts = [updates |-> 0, resets |-> 0, restarts |-> 0]

-----------------------------------------------------------------------------
\* Calls.

New(what, s, keys, after) ==
    [what |-> what, settings |-> s, keys |-> keys, after |-> after,
     said |-> "pending"]

SetConfig(s, after) == New("config", s, {}, after)

\* The answer a queue of calls has for the main thread.
Ready(calls, what) ==
    calls # <<>> /\ Head(calls).what = what /\ Head(calls).said # "pending"

Ok(call) == call.said = "ok"

\* The first call of a queue that is not answered.
Turn(calls, i) ==
    /\ i \in DOMAIN calls /\ calls[i].said = "pending"
    /\ \A j \in 1..(i - 1) : calls[j].said # "pending"

Answer(calls, i, said) == [calls EXCEPT ![i].said = said]

-----------------------------------------------------------------------------
\* The database and the library.

\* Deserialize(storage.settings3) always has useTestNetwork true.
LoadSettings(s) == IF s = Nothing THEN Nothing ELSE [s EXCEPT !.net = "test"]

DbServes ==
    /\ \E i \in DOMAIN dbCalls, said \in {"ok", "error"} :
         LET c == dbCalls[i] IN
           /\ Turn(dbCalls, i)
           /\ c.what = "list" => said = "ok"
           /\ dbCalls' =
                 [Answer(dbCalls, i, said) EXCEPT
                    ![i].settings =
                       IF c.what = "open" THEN LoadSettings(disk.settings) ELSE @,
                    ![i].keys = IF c.what = "list" THEN disk[c.settings.net] ELSE @]
           /\ disk' =
                 IF said = "error" \/ c.what \in {"open", "list"} THEN disk
                 ELSE IF c.what = "settings"
                        THEN [disk EXCEPT !.settings = c.settings]
                        ELSE [disk EXCEPT ![c.settings.net] = c.keys]
    /\ UNCHANGED <<wallet, external, libCalls, library, history>>

LibServes ==
    /\ \E i \in DOMAIN libCalls, said \in {"ok", "error"} :
         LET c == libCalls[i]
             config == c.settings[c.settings.net]
         IN /\ Turn(libCalls, i)
            /\ c.what = "config" => (said = "ok" <=> config \in Valid)
            /\ libCalls' = Answer(libCalls, i, said)
            /\ library' = IF c.what = "config" /\ said = "ok" THEN config
                                                             ELSE library
    /\ UNCHANGED <<wallet, external, dbCalls, disk, history>>

-----------------------------------------------------------------------------
\* Settings.

\* External::updateSettings, up to the answer of the library.
ExternalUpdate(calls, s, after) ==
    /\ settings' = s
    /\ libCalls' = Append(calls, SetConfig(s, after))

\* Mutant of WalletUpdate: the keys stay when the network changes.
WalletUpdateKeepsKeys(calls, s) ==
    /\ ExternalUpdate(calls, s, "finish")
    /\ updating' = TRUE

\* Wallet::updateSettings: a change of networks waits for the new settings to
\* be saved with the old network, and for the deletion of all keys.
WalletUpdate(calls, s) ==
    /\ ExternalUpdate(calls, [s EXCEPT !.net = settings.net],
                      IF s.net = settings.net THEN "finish" ELSE "deletion")
    /\ updating' = TRUE

Flipped(s) == [s EXCEPT !.net = IF s.net = "test" THEN "main" ELSE "test"]

\* An update ends with an answer.  open's callback went on to the switch after
\* an upgrade, whose answer is then that of open.
EndsUpdate(ends, said) ==
    /\ updating' = (updating /\ ~ ends)
    /\ answers' = IF updating /\ ends /\ answers = <<>> THEN <<said>> ELSE answers

\* The user waits for one update to end before the next, and asks for another
\* network when no key is being worked on.
UpdateSettings(s) ==
    /\ state = "Opened" /\ answers # <<>> /\ ~ updating
    /\ counts.updates < MaxUpdates
    /\ s.net # settings.net => work = "none"
    /\ counts' = [counts EXCEPT !.updates = @ + 1]
    /\ WalletUpdate(libCalls, s)
    /\ health' = IF health = "astray" THEN "astray" ELSE "changed"
    /\ UNCHANGED <<list, work, started, switched, state, upgrade, future, dbCalls,
                   library, disk, answers>>

Start ==
    /\ state = "Opened" /\ ~ started /\ answers # <<>>
    /\ \A i \in DOMAIN libCalls : libCalls[i].after # "start"
    /\ libCalls' = Append(libCalls, SetConfig(settings, "start"))
    /\ UNCHANGED <<wallet, external, dbCalls, library, disk, history>>

\* The third request in a row has met an error of the network.
ResetNetwork ==
    /\ started /\ counts.resets + counts.restarts < MaxUpsets
    /\ counts' = [counts EXCEPT !.resets = @ + 1]
    /\ ExternalUpdate(libCalls, settings, "nobody")
    /\ health' = IF health = "astray" THEN "astray" ELSE "changed"
    /\ UNCHANGED <<wallet, state, upgrade, future, dbCalls, library, disk, answers>>

\* Mutant of OnConfigRejected: switchNetwork does not go back.
OnConfigRejectedStays ==
    /\ Ready(libCalls, "config") /\ ~ Ok(Head(libCalls))
    /\ libCalls' = Tail(libCalls)
    /\ LET after == Head(libCalls).after IN
         /\ EndsUpdate(after \notin {"nobody", "start"}, "error")
         /\ health' = IF after \in {"switch", "start"} THEN health ELSE "astray"
    /\ UNCHANGED <<list, work, started, switched, external, dbCalls, library,
                   disk, counts>>

\* The library refuses: only switchNetwork takes its settings back.
OnConfigRejected ==
    /\ Ready(libCalls, "config") /\ ~ Ok(Head(libCalls))
    /\ libCalls' = Tail(libCalls)
    /\ LET after == Head(libCalls).after IN
         /\ settings' = IF after = "switch" THEN Flipped(settings) ELSE settings
         /\ EndsUpdate(after \notin {"nobody", "start"}, "error")
         /\ health' = IF after \in {"switch", "start"} THEN health ELSE "astray"
    /\ UNCHANGED <<list, work, started, switched, state, upgrade, future, dbCalls,
                   library, disk, counts>>

OnConfigSet ==
    /\ Ready(libCalls, "config") /\ Ok(Head(libCalls))
    /\ LET c == Head(libCalls) IN
         /\ started' = (started \/ c.after = "start")
         /\ dbCalls' = IF c.after = "start" THEN dbCalls
                       ELSE Append(dbCalls, New("settings", c.settings, {}, c.after))
    /\ libCalls' = Tail(libCalls)
    /\ UNCHANGED <<list, work, updating, switched, external, library, disk, history>>

\* deleteAllKeys, with Expects(_keyCreator == nullptr) and the like.
DeleteAll(after) ==
    /\ work = "none"
    /\ work' = "deleting"
    /\ libCalls' = Append(libCalls, New("deleteAll", settings, {}, after))

OnSettingsSaved ==
    /\ Ready(dbCalls, "settings") /\ Ok(Head(dbCalls))
    /\ dbCalls' = Tail(dbCalls)
    /\ LET after == Head(dbCalls).after IN
         \/ /\ after = "deletion"
            /\ DeleteAll("switch")
            /\ UNCHANGED <<updating, answers>>
         \/ /\ after # "deletion"
            /\ EndsUpdate(after # "nobody", "ok")
            /\ UNCHANGED <<work, libCalls>>
    /\ UNCHANGED <<list, started, switched, external, library, disk, health, counts>>

\* switchNetwork goes back though the library has accepted.
OnSettingsNotSaved ==
    /\ Ready(dbCalls, "settings") /\ ~ Ok(Head(dbCalls))
    /\ dbCalls' = Tail(dbCalls)
    /\ LET after == Head(dbCalls).after IN
         /\ settings' = IF after = "switch" THEN Flipped(settings) ELSE settings
         /\ EndsUpdate(after # "nobody", "error")
    /\ health' = "astray"
    /\ UNCHANGED <<list, work, started, switched, state, upgrade, future, libCalls,
                   library, disk, counts>>

-----------------------------------------------------------------------------
\* Keys.

\* An update that changes the network has not come to its deletion.
DeletionAhead ==
    \/ \E i \in DOMAIN libCalls : libCalls[i].after = "deletion"
    \/ \E i \in DOMAIN dbCalls : dbCalls[i].after = "deletion"

CreateKey ==
    /\ state = "Opened" /\ answers # <<>> /\ work = "none"
    /\ Impatient \/ ~ DeletionAhead
    /\ work' = "creating"
    /\ libCalls' = Append(libCalls, New("create", settings, {}, "nobody"))
    /\ UNCHANGED <<list, updating, started, switched, external, dbCalls, library,
                   disk, history>>

\* saveKey captures the list and the network; the key gets its password first.
SaveKey(k) ==
    /\ work = "created"
    /\ work' = "saving"
    /\ libCalls' = Append(libCalls, New("rekey", settings, list \cup {k}, "nobody"))
    /\ UNCHANGED <<list, updating, started, switched, external, dbCalls, library,
                   disk, history>>

DeleteAllKeys ==
    /\ state = "Opened" /\ answers # <<>>
    /\ Impatient \/ ~ DeletionAhead
    /\ DeleteAll("nobody")
    /\ UNCHANGED <<list, updating, started, switched, external, dbCalls, library,
                   disk, history>>

OnCreated ==
    /\ Ready(libCalls, "create")
    /\ work' = IF Ok(Head(libCalls)) THEN "created" ELSE "none"
    /\ libCalls' = Tail(libCalls)
    /\ UNCHANGED <<list, updating, started, switched, external, dbCalls, library,
                   disk, history>>

\* Mutant of OnRekeyed: after an error the save is thought to go on.
OnRekeyedStays ==
    /\ Ready(libCalls, "rekey")
    /\ LET c == Head(libCalls) IN
         dbCalls' = IF Ok(c) THEN Append(dbCalls,
                          New("saveKey", c.settings, c.keys, "nobody")) ELSE dbCalls
    /\ libCalls' = Tail(libCalls)
    /\ UNCHANGED <<wallet, external, library, disk, history>>

OnRekeyed ==
    /\ Ready(libCalls, "rekey")
    /\ LET c == Head(libCalls) IN
         IF Ok(c) THEN /\ dbCalls' = Append(dbCalls,
                             New("saveKey", c.settings, c.keys, "nobody"))
                       /\ UNCHANGED work
                  ELSE /\ work' = "created"
                       /\ UNCHANGED dbCalls
    /\ libCalls' = Tail(libCalls)
    /\ UNCHANGED <<list, updating, started, switched, external, library, disk, history>>

OnKeySaved ==
    /\ Ready(dbCalls, "saveKey")
    /\ LET c == Head(dbCalls) IN
         /\ list' = IF Ok(c) THEN c.keys ELSE list
         /\ work' = IF Ok(c) THEN "none" ELSE "created"
    /\ dbCalls' = Tail(dbCalls)
    /\ UNCHANGED <<updating, started, switched, external, libCalls, library, disk,
                   history>>

\* Whether tonlib has deleted the files or not, the list is emptied.
OnAllDeleted ==
    /\ Ready(libCalls, "deleteAll")
    /\ LET c == Head(libCalls) IN
         dbCalls' = Append(dbCalls, New("saveNone", c.settings, {}, c.after))
    /\ libCalls' = Tail(libCalls)
    /\ UNCHANGED <<wallet, external, library, disk, history>>

\* The end of deleteAllKeys, and External::switchNetwork when updateSettings
\* had called it.
OnNoneSaved ==
    /\ Ready(dbCalls, "saveNone")
    /\ LET c == Head(dbCalls)
           goesOn == Ok(c) /\ c.after = "switch"
       IN /\ list' = IF Ok(c) THEN {} ELSE list
          /\ EndsUpdate(~ Ok(c) /\ c.after = "switch", "error")
          /\ IF goesOn THEN ExternalUpdate(libCalls, Flipped(settings), "switch")
                       ELSE UNCHANGED <<settings, libCalls>>
    /\ work' = "none"
    /\ dbCalls' = Tail(dbCalls)
    /\ UNCHANGED <<started, switched, state, upgrade, future, library, disk, health,
                   counts>>

-----------------------------------------------------------------------------
\* Opening.

\* The salt may be neither readable nor writable.
Open(s) ==
    /\ state = "Initial"
    /\ \/ /\ state' = "Opening" /\ settings' = s /\ answers' = <<>>
          /\ dbCalls' = Append(dbCalls, New("open", s, {}, "nobody"))
       \/ /\ answers' = <<"error">>
          /\ UNCHANGED <<state, settings, dbCalls>>
    /\ UNCHANGED <<wallet, upgrade, future, libCalls, library, disk, health, counts>>

Fails ==
    /\ state' = "Initial"
    /\ answers' = Append(answers, "error")

\* External::applyLocalSettings.
ApplyLocalSettings(s) ==
    IF s.version < 3 /\ s.net = "test" /\ settings.version = 3 /\ settings.net = "main"
      THEN /\ upgrade' = "TestnetToMainnet"
           /\ settings' = [settings EXCEPT !.test = s.test, !.net = "test"]
    ELSE IF s.version = 0 /\ settings.version = 2 /\ settings.test \in Testnet2
      THEN /\ upgrade' = "TestnetToTestnet2"
           /\ UNCHANGED settings
    ELSE /\ settings' = s
         /\ UNCHANGED upgrade

\* Mutant of OnDatabaseFailed: the error is not told.
OnDatabaseFailedSilent ==
    /\ Ready(dbCalls, "open") /\ ~ Ok(Head(dbCalls))
    /\ state' = "Initial"
    /\ dbCalls' = Tail(dbCalls)
    /\ UNCHANGED <<wallet, settings, upgrade, future, libCalls, library, disk,
                   history>>

OnDatabaseFailed ==
    /\ Ready(dbCalls, "open") /\ ~ Ok(Head(dbCalls))
    /\ Fails
    /\ dbCalls' = Tail(dbCalls)
    /\ UNCHANGED <<wallet, settings, upgrade, future, libCalls, library, disk,
                   health, counts>>

\* The list is asked for, then the library started, unless there is no place
\* for its files.
OnDatabaseOpened ==
    /\ Ready(dbCalls, "open") /\ Ok(Head(dbCalls))
    /\ LET s == Head(dbCalls).settings IN
         IF s.test # NoConfig THEN ApplyLocalSettings(s)
                              ELSE UNCHANGED <<settings, upgrade>>
    /\ future' = {}
    /\ dbCalls' = Append(Tail(dbCalls), New("list", settings', {}, "nobody"))
    /\ \/ /\ libCalls' = Append(libCalls, New("init", settings', {}, "nobody"))
          /\ UNCHANGED <<state, answers>>
       \/ /\ Fails
          /\ UNCHANGED libCalls
    /\ UNCHANGED <<wallet, library, disk, health, counts>>

\* Wallet::open's callback: the list, and a switch to the main network after
\* an upgrade.  calls: the requests still to come.
Opened(keys, calls, toMain) ==
    /\ list' = keys
    /\ answers' = IF toMain THEN answers ELSE Append(answers, "ok")
    /\ IF toMain
         THEN /\ WalletUpdate(calls, [settings EXCEPT !.net = "main"])
              /\ health' = IF health = "astray" THEN "astray" ELSE "changed"
         ELSE /\ libCalls' = calls
              /\ UNCHANGED <<settings, updating, health>>

\* Mutant of OnListLoaded: it does not look whether the library has started.
OnListLoadedAtOnce ==
    /\ Ready(dbCalls, "list")
    /\ LET keys == Head(dbCalls).keys IN
         /\ future' = {keys}
         /\ Opened(keys, libCalls, switched)
    /\ dbCalls' = Tail(dbCalls)
    /\ UNCHANGED <<work, started, switched, state, upgrade, library, disk, counts>>

OnListLoaded ==
    /\ Ready(dbCalls, "list")
    /\ LET keys == Head(dbCalls).keys IN
         IF state = "Opened"
           THEN Opened(keys, libCalls, switched) /\ UNCHANGED future
           ELSE /\ future' = {keys}
                /\ UNCHANGED <<list, updating, settings, libCalls, answers, health>>
    /\ dbCalls' = Tail(dbCalls)
    /\ UNCHANGED <<work, started, switched, state, upgrade, library, disk, counts>>

OnLibraryFailed ==
    /\ Ready(libCalls, "init") /\ ~ Ok(Head(libCalls))
    /\ Fails
    /\ libCalls' = Tail(libCalls)
    /\ UNCHANGED <<wallet, settings, upgrade, future, dbCalls, library, disk,
                   health, counts>>

\* With the list there, an upgrade is saved and told.
OnLibraryStarted ==
    /\ Ready(libCalls, "init") /\ Ok(Head(libCalls))
    /\ state' = "Opened"
    /\ LET calls == Tail(libCalls) IN
         IF future = {}
           THEN /\ libCalls' = calls
                /\ UNCHANGED <<list, updating, switched, settings, answers, health>>
           ELSE LET upgraded == upgrade # "None"
                    toMain == upgrade = "TestnetToMainnet"
                IN \E keys \in future :
                     /\ switched' = (switched \/ toMain)
                     /\ Opened(keys,
                               IF upgraded
                                 THEN Append(calls, SetConfig(settings, "nobody"))
                                 ELSE calls,
                               switched \/ toMain)
    /\ UNCHANGED <<work, started, upgrade, future, dbCalls, library, disk, counts>>

Restart ==
    /\ state # "Initial" /\ counts.resets + counts.restarts < MaxUpsets
    /\ counts' = [counts EXCEPT !.restarts = @ + 1]
    /\ state' = "Initial" /\ settings' = Nothing /\ upgrade' = "None"
    /\ future' = {}
    /\ list' = {} /\ work' = "none" /\ updating' = FALSE
    /\ started' = FALSE /\ switched' = FALSE
    /\ libCalls' = <<>> /\ dbCalls' = <<>> /\ library' = NoConfig
    /\ answers' = <<>> /\ health' = "fresh"
    /\ UNCHANGED disk

-----------------------------------------------------------------------------

User ==
    \/ \E s \in Defaults : Open(s)
    \/ Start
    \/ \E n, net \in Networks, c \in Configs :
         UpdateSettings([settings EXCEPT ![n] = c, !.net = net])
    \/ CreateKey
    \/ \E k \in Keys : SaveKey(k)
    \/ DeleteAllKeys

OnLibraryAnswer ==
    OnLibraryFailed \/ OnLibraryStarted \/ OnConfigRejected \/ OnConfigSet
        \/ OnCreated \/ OnRekeyed \/ OnAllDeleted

OnDatabaseAnswer ==
    OnDatabaseFailed \/ OnDatabaseOpened \/ OnListLoaded \/ OnSettingsSaved
        \/ OnSettingsNotSaved \/ OnKeySaved \/ OnNoneSaved

Next ==
    \/ User \/ ResetNetwork \/ Restart
    \/ DbServes \/ LibServes
    \/ OnLibraryAnswer \/ OnDatabaseAnswer

Spec == Init /\ [][Next]_vars

\* The library and the database answer, and the main thread hears them.
FairSpec ==
    /\ Spec
    /\ WF_vars(DbServes) /\ WF_vars(LibServes)
    /\ WF_vars(OnLibraryAnswer) /\ WF_vars(OnDatabaseAnswer)

-----------------------------------------------------------------------------
(* Safety *)

\* open is answered once, and truly.  When it fails, and is called again, the
\* list that the first call has asked for does not answer the second one too,
\* and the two orders of list and library answer once each.  After a good
\* answer the wallet can be used, after an error open may be called again.  The
\* exception is real: an error of the switch after an upgrade leaves External
\* opened.
OpenAnsweredOnce ==
    /\ Len(answers) <= 1
    /\ state = "Opening" => answers = <<>>
    /\ answers = <<"ok">> => state = "Opened"
    /\ answers = <<"error">> => state = "Initial" \/ switched

\* Nothing is on its way that changes the network or its configuration.
Quiet ==
    /\ ~ updating
    /\ \A i \in DOMAIN libCalls : libCalls[i].what # "config"
    /\ \A i \in DOMAIN dbCalls : dbCalls[i].what # "settings"

\* At rest the library works with the configuration of the settings, and the
\* database holds these settings if they were changed since the start, a
\* switch that was refused and resets during a switch included.  The
\* exceptions are real: updateSettings keeps settings that were refused, and
\* a save that fails is not undone in the library.
SettingsAgree ==
    Quiet /\ state = "Opened" /\ health # "astray" =>
        /\ started => library = settings[settings.net]
        /\ health = "changed" => disk.settings = settings

\* The keys listed are keys of the network in use: no switch leaves keys of
\* the other one, and no key is saved in the list of the other one.
ListOfThisNetwork ==
    state = "Opened" /\ health # "astray" /\ work \in {"none", "creating", "created"} =>
        list \subseteq disk[settings.net]

\* Wallet::deleteAllKeys: Expects(_keyCreator == nullptr) and
\* Expects(_keyDestroyer == nullptr), when updateSettings calls it.
DeletionAllowed ==
    Ready(dbCalls, "settings") /\ Ok(Head(dbCalls))
        /\ Head(dbCalls).after = "deletion" => work = "none"

(* Liveness *)

\* open is answered, whatever comes first or fails, if the process goes on, and
\* so is updateSettings, in all the stages of a switch.
CallsEnd ==
    /\ \A n \in 0..MaxUpsets :
          (state = "Opening" /\ counts.restarts = n) ~>
              (answers # <<>> \/ counts.restarts > n)
    /\ updating ~> ~ updating

=============================================================================
