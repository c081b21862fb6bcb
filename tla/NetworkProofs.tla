--------------------------- MODULE NetworkProofs ---------------------------
(***************************************************************************)
(* What Network promises, proved for any number of configurations, keys    *)
(* and calls, and whether keys are created during a switch of networks or  *)
(* not.                                                                    *)
(***************************************************************************)
EXTENDS Network, SequenceTheorems, TLAPS

-----------------------------------------------------------------------------
(* Queues of calls, and what is said of the calls in them. *)

Has(q, V) == \E i \in DOMAIN q : q[i] \in V

\* At most one.
One(q, V) == \A i, j \in DOMAIN q : q[i] \in V /\ q[j] \in V => i = j

Before(q, V, W) == \A i, j \in DOMAIN q : q[i] \in V /\ q[j] \in W => i < j

\* The last one of V is one of T.
LastIn(q, V, T) ==
    \A i \in DOMAIN q :
        q[i] \in V => q[i] \in T \/ \E j \in DOMAIN q : i < j /\ q[j] \in V

\* A call that is added is the last one.
LEMMA AppendCall ==
    ASSUME NEW q \in Seq(Call), NEW c \in Call
    PROVE  /\ Append(q, c) \in Seq(Call) /\ Append(q, c) # <<>>
           /\ \A V : Has(Append(q, c), V) <=> Has(q, V) \/ c \in V
           /\ \A V : One(Append(q, c), V) <=> One(q, V) /\ (c \in V => ~ Has(q, V))
           /\ \A V, W : Before(Append(q, c), V, W) <=>
                           Before(q, V, W) /\ (c \in V => ~ Has(q, W) /\ c \notin W)
           /\ \A V, T : LastIn(Append(q, c), V, T) <=>
                           (IF c \in V THEN c \in T ELSE LastIn(q, V, T))
<1> DEFINE t == Append(q, c)
           n == Len(q)
<1>1. /\ t \in Seq(Call) /\ Len(t) = n + 1
      /\ \A i \in 1..n : t[i] = q[i]
      /\ t[n + 1] = c
  BY AppendProperties
<1>2. DOMAIN q = 1..n /\ n \in Nat /\ DOMAIN t = 1..(n + 1)
  BY <1>1, LenProperties
<1> HIDE DEF t, n
<1>3. t # <<>>
  BY <1>1, <1>2, EmptySeq
<1>4. DOMAIN t = DOMAIN q \cup {n + 1} /\ \A i \in DOMAIN q : i < n + 1 /\ t[i] = q[i]
  BY <1>1, <1>2
<1>5. ASSUME NEW V PROVE Has(t, V) <=> Has(q, V) \/ c \in V
  BY <1>1, <1>4 DEF Has
<1>6. ASSUME NEW V PROVE One(t, V) <=> One(q, V) /\ (c \in V => ~ Has(q, V))
  BY <1>1, <1>2, <1>4 DEF One, Has
<1>7. ASSUME NEW V, NEW W
      PROVE  Before(t, V, W) <=>
               Before(q, V, W) /\ (c \in V => ~ Has(q, W) /\ c \notin W)
  BY <1>1, <1>2, <1>4 DEF Before, Has
<1>8. ASSUME NEW V, NEW T
      PROVE  LastIn(t, V, T) <=> (IF c \in V THEN c \in T ELSE LastIn(q, V, T))
  <2>1. CASE c \in V
    BY <1>1, <1>2, <1>4, <2>1 DEF LastIn
  <2>2. CASE c \notin V
    BY <1>1, <1>2, <1>4, <2>2 DEF LastIn
  <2> QED BY <2>1, <2>2
<1> QED BY <1>1, <1>3, <1>5, <1>6, <1>7, <1>8 DEF t

\* The call that is handled is the first one.
LEMMA TailCall ==
    ASSUME NEW q \in Seq(Call), q # <<>>
    PROVE  /\ Head(q) \in Call /\ Tail(q) \in Seq(Call)
           /\ \A V : Has(q, V) <=> Head(q) \in V \/ Has(Tail(q), V)
           /\ \A V : One(q, V) <=>
                        One(Tail(q), V) /\ (Head(q) \in V => ~ Has(Tail(q), V))
           /\ \A V, W : Before(q, V, W) <=>
                           /\ Before(Tail(q), V, W)
                           /\ Head(q) \in W => ~ Has(Tail(q), V) /\ Head(q) \notin V
           /\ \A V, T : LastIn(q, V, T) <=>
                           /\ LastIn(Tail(q), V, T)
                           /\ Head(q) \in V => Head(q) \in T \/ Has(Tail(q), V)
<1> DEFINE t == Tail(q)
           h == Head(q)
           n == Len(q) - 1
<1>1. /\ h \in Call /\ t \in Seq(Call) /\ Len(t) = n
      /\ \A i \in 1..n : t[i] = q[i + 1]
  BY HeadTailProperties
<1>2. DOMAIN q = 1..(n + 1) /\ n \in Nat /\ DOMAIN t = 1..n
  BY <1>1, LenProperties, EmptySeq
<1>3. h = q[1]
  OBVIOUS
<1> HIDE DEF t, h, n
<1>4. \A i \in DOMAIN t : i + 1 \in DOMAIN q /\ i + 1 # 1 /\ t[i] = q[i + 1]
  BY <1>1, <1>2
<1>5. \A i \in DOMAIN q : i = 1 \/ (i - 1 \in DOMAIN t /\ q[i] = t[i - 1])
  BY <1>1, <1>2
<1>6. 1 \in DOMAIN q /\ \A i \in DOMAIN q : i \in Nat /\ 1 <= i
  BY <1>2
<1>7. ASSUME NEW V PROVE Has(q, V) <=> h \in V \/ Has(t, V)
  BY <1>3, <1>4, <1>5, <1>6 DEF Has
<1>8. ASSUME NEW V PROVE One(q, V) <=> One(t, V) /\ (h \in V => ~ Has(t, V))
  <2>1. ASSUME One(q, V) PROVE One(t, V)
    <3> SUFFICES ASSUME NEW i \in DOMAIN t, NEW j \in DOMAIN t, t[i] \in V, t[j] \in V
                 PROVE i = j
      BY DEF One
    <3>1. i + 1 = j + 1
      BY <1>4, <2>1 DEF One
    <3> QED BY <1>2, <3>1
  <2>2. ASSUME One(q, V), h \in V PROVE ~ Has(t, V)
    <3>1. \A i \in DOMAIN t : i + 1 \in DOMAIN q /\ 1 # i + 1 /\ t[i] = q[i + 1]
      BY <1>4
    <3> QED BY <1>3, <1>6, <2>2, <3>1 DEF One, Has
  <2>3. ASSUME One(t, V), h \in V => ~ Has(t, V) PROVE One(q, V)
    <3> SUFFICES ASSUME NEW i \in DOMAIN q, NEW j \in DOMAIN q, q[i] \in V, q[j] \in V
                 PROVE i = j
      BY DEF One
    <3>1. CASE i # 1 /\ j # 1
      <4>1. i - 1 = j - 1
        BY <1>5, <2>3, <3>1 DEF One
      <4> QED BY <1>2, <4>1
    <3>2. CASE i = 1 \/ j = 1
      BY <1>3, <1>5, <2>3, <3>2 DEF Has
    <3> QED BY <3>1, <3>2
  <2> QED BY <2>1, <2>2, <2>3
<1>9. ASSUME NEW V, NEW W
      PROVE  Before(q, V, W) <=>
               Before(t, V, W) /\ (h \in W => ~ Has(t, V) /\ h \notin V)
  <2>1. ASSUME Before(q, V, W) PROVE Before(t, V, W)
    <3> SUFFICES ASSUME NEW i \in DOMAIN t, NEW j \in DOMAIN t, t[i] \in V, t[j] \in W
                 PROVE i < j
      BY DEF Before
    <3>1. i + 1 < j + 1
      BY <1>4, <2>1 DEF Before
    <3> QED BY <1>2, <3>1
  <2>2. ASSUME Before(q, V, W), h \in W PROVE ~ Has(t, V) /\ h \notin V
    <3>1. \A i \in DOMAIN q : q[i] \in V => i < 1
      BY <1>3, <1>6, <2>2 DEF Before
    <3>2. \A i \in DOMAIN q : q[i] \notin V
      BY <1>2, <3>1
    <3> QED BY <1>3, <1>4, <1>6, <3>2 DEF Has
  <2>3. ASSUME Before(t, V, W), h \in W => ~ Has(t, V) /\ h \notin V
        PROVE  Before(q, V, W)
    <3> SUFFICES ASSUME NEW i \in DOMAIN q, NEW j \in DOMAIN q, q[i] \in V, q[j] \in W
                 PROVE i < j
      BY DEF Before
    <3>1. CASE i # 1 /\ j # 1
      <4>1. i - 1 < j - 1
        BY <1>5, <2>3, <3>1 DEF Before
      <4> QED BY <1>2, <4>1
    <3>2. CASE j = 1
      BY <1>3, <1>5, <2>3, <3>2 DEF Has
    <3>3. CASE i = 1 /\ j # 1
      BY <1>2, <3>3
    <3> QED BY <3>1, <3>2, <3>3
  <2> QED BY <2>1, <2>2, <2>3
<1>10. ASSUME NEW V, NEW T
       PROVE  LastIn(q, V, T) <=>
                LastIn(t, V, T) /\ (h \in V => h \in T \/ Has(t, V))
  <2>1. ASSUME LastIn(q, V, T) PROVE LastIn(t, V, T)
    <3> SUFFICES ASSUME NEW i \in DOMAIN t, t[i] \in V, t[i] \notin T
                 PROVE \E j \in DOMAIN t : i < j /\ t[j] \in V
      BY DEF LastIn
    <3>1. PICK k \in DOMAIN q : i + 1 < k /\ q[k] \in V
      BY <1>4, <2>1 DEF LastIn
    <3>2. k - 1 \in DOMAIN t /\ t[k - 1] = q[k] /\ i < k - 1
      BY <1>2, <1>5, <3>1
    <3> QED BY <3>1, <3>2
  <2>2. ASSUME LastIn(q, V, T), h \in V, h \notin T PROVE Has(t, V)
    <3>1. PICK k \in DOMAIN q : 1 < k /\ q[k] \in V
      BY <1>3, <1>6, <2>2 DEF LastIn
    <3>2. k - 1 \in DOMAIN t /\ t[k - 1] = q[k]
      BY <1>2, <1>5, <3>1
    <3> QED BY <3>1, <3>2 DEF Has
  <2>3. ASSUME LastIn(t, V, T), h \in V => h \in T \/ Has(t, V)
        PROVE  LastIn(q, V, T)
    <3> SUFFICES ASSUME NEW i \in DOMAIN q, q[i] \in V, q[i] \notin T
                 PROVE \E j \in DOMAIN q : i < j /\ q[j] \in V
      BY DEF LastIn
    <3>1. CASE i = 1
      <4>1. PICK k \in DOMAIN t : t[k] \in V
        BY <1>3, <2>3, <3>1 DEF Has
      <4>2. k + 1 \in DOMAIN q /\ q[k + 1] \in V /\ i < k + 1
        BY <1>2, <1>4, <3>1, <4>1
      <4> QED BY <4>2
    <3>2. CASE i # 1
      <4>1. i - 1 \in DOMAIN t /\ q[i] = t[i - 1]
        BY <1>5, <3>2
      <4>2. PICK k \in DOMAIN t : i - 1 < k /\ t[k] \in V
        BY <2>3, <4>1 DEF LastIn
      <4>3. k + 1 \in DOMAIN q /\ q[k + 1] \in V /\ i < k + 1
        BY <1>2, <1>4, <4>1, <4>2
      <4> QED BY <4>3
    <3> QED BY <3>1, <3>2
  <2> QED BY <2>1, <2>2, <2>3
<1> QED BY <1>1, <1>7, <1>8, <1>9, <1>10 DEF t, h

\* A call that is answered stays where it is, and in the sets that do not ask
\* for its answer.
LEMMA AnswerCall ==
    ASSUME NEW q, NEW t, DOMAIN t = DOMAIN q, NEW i \in DOMAIN q,
           \A j \in DOMAIN q : j # i => t[j] = q[j]
    PROVE  /\ \A V : (q[i] \in V <=> t[i] \in V) => (Has(q, V) <=> Has(t, V))
           /\ \A V : (q[i] \in V <=> t[i] \in V) => (One(q, V) <=> One(t, V))
           /\ \A V, W : (q[i] \in V <=> t[i] \in V) /\ (q[i] \in W <=> t[i] \in W) =>
                 (Before(q, V, W) <=> Before(t, V, W))
           /\ \A V, T : (q[i] \in V <=> t[i] \in V)
                            /\ (q[i] \in V => (q[i] \in T <=> t[i] \in T)) =>
                 (LastIn(q, V, T) <=> LastIn(t, V, T))
<1>1. ASSUME NEW V, q[i] \in V <=> t[i] \in V
      PROVE  \A j \in DOMAIN q : q[j] \in V <=> t[j] \in V
  BY <1>1
<1>2. ASSUME NEW V, q[i] \in V <=> t[i] \in V
      PROVE  (Has(q, V) <=> Has(t, V)) /\ (One(q, V) <=> One(t, V))
  BY <1>1, <1>2 DEF Has, One
<1>3. ASSUME NEW V, NEW W, q[i] \in V <=> t[i] \in V, q[i] \in W <=> t[i] \in W
      PROVE  Before(q, V, W) <=> Before(t, V, W)
  BY <1>1, <1>3 DEF Before
<1>4. ASSUME NEW V, NEW T, q[i] \in V <=> t[i] \in V,
             q[i] \in V => (q[i] \in T <=> t[i] \in T)
      PROVE  LastIn(q, V, T) <=> LastIn(t, V, T)
  BY <1>1, <1>4 DEF LastIn
<1> QED BY <1>2, <1>3, <1>4

\* Nobody waits in an empty queue.
LEMMA EmptyQueue ==
    /\ <<>> \in Seq(Call)
    /\ \A V : ~ Has(<<>>, V) /\ One(<<>>, V)
    /\ \A V, W : Before(<<>>, V, W) /\ LastIn(<<>>, V, W)
<1>1. DOMAIN <<>> = {}
  OBVIOUS
<1> QED BY <1>1 DEF Has, One, Before, LastIn

-----------------------------------------------------------------------------
(* The calls there are. *)

AllOf(whats) == {c \in Call : c.what \in whats}

ToLibrary == AllOf({"init", "config", "create", "rekey", "deleteAll"})
ToDatabase == AllOf({"open", "list", "settings", "saveKey", "saveNone"})

Waits == {c \in Call : c.said = "pending"}
IsServed == {c \in Call : c.said # "pending"}

Opens == AllOf({"open"})
Inits == AllOf({"init"})
Opening == AllOf({"open", "init"})
Lists == AllOf({"list"})
NotOfOpening == {c \in Call : c.what \notin {"open", "init", "list"}}

\* Key operations, by their stages.
KeyCalls == AllOf({"create", "rekey", "deleteAll", "saveKey", "saveNone"})
Creates == AllOf({"create"})
KeySaves == AllOf({"rekey", "saveKey"})
Deletions == AllOf({"deleteAll", "saveNone"})
Deleted == {c \in Call : c.what = "saveNone" /\ c.said = "ok"}

\* Those that somebody waits for who has called updateSettings.
Updates == {c \in Call : c.after \in {"finish", "deletion", "switch"}}

Config(c) == c.settings[c.settings.net]

\* The library accepts them, or will; it has accepted them; it has answered
\* what it does not.
Accepts == {c \in Call : c.what = "config" /\ Config(c) \in Valid}
Accepted == {c \in Call : c.what = "config" /\ c.said = "ok"}
Misjudged ==
    {c \in Call : /\ c.what = "config" /\ c.said # "pending"
                  /\ c.said = "ok" <=> Config(c) \notin Valid}

\* It refuses them: what is in memory goes astray, or goes back.
Refuses ==
    {c \in Call : /\ c.what = "config" /\ Config(c) \notin Valid
                  /\ c.after \in {"nobody", "finish", "deletion"}}
Switches == {c \in Call : c.what = "config" /\ c.after = "switch"}
GoesBack == {c \in Call : c.what = "config" /\ c.after = "switch" /\ Config(c) \notin Valid}
OtherSwitches(s) == {c \in Call : c.what = "config" /\ c.after = "switch" /\ c.settings # s}

\* They are saved when they have been accepted, are saved, have been saved, or
\* have not; nothing that start has asked for is saved.
WillSave == {c \in Call : c.what = "config" /\ Config(c) \in Valid /\ c.after # "start"}
Saves == AllOf({"settings"})
Saved == {c \in Call : c.what = "settings" /\ c.said = "ok"}
Unsaved == {c \in Call : c.what = "settings" /\ c.said = "error"}
StartSaves == {c \in Call : c.what = "settings" /\ c.after = "start"}

\* Calls for the settings s; for a configuration.
For(s) == {c \in Call : c.settings = s}
ForConfig(config) == {c \in Call : Config(c) = config}

\* A list that is not the one of the network net, which holds keys.
FalseLists(net, keys) ==
    {c \in Call : /\ c.what = "list"
                  /\ c.settings.net # net \/ (c.said # "pending" /\ c.keys # keys)}

\* What is saved of a key is not for the network net, which holds keys, or has
\* not all that are listed.
FalseKeys(net, listed, keys) ==
    {c \in Call : /\ c.what \in {"rekey", "saveKey"}
                  /\ \/ c.settings.net # net
                     \/ ~ (listed \subseteq c.keys)
                     \/ c.what = "saveKey" /\ c.said = "ok" /\ c.keys # keys}

-----------------------------------------------------------------------------
(* The inductive invariant *)

\* TypeOK without the stages of key operations.
Types ==
    /\ state \in {"Initial", "Opening", "Opened"}
    /\ settings \in Settings
    /\ upgrade \in {"None", "TestnetToTestnet2", "TestnetToMainnet"}
    /\ future \in SUBSET SUBSET Keys
    /\ switched \in BOOLEAN /\ updating \in BOOLEAN /\ started \in BOOLEAN
    /\ list \in SUBSET Keys
    /\ work \in {"none", "creating", "created", "saving", "deleting"}
    /\ libCalls \in Seq(Call) /\ dbCalls \in Seq(Call)
    /\ library \in Configs \cup {NoConfig}
    /\ disk \in Disk
    /\ answers \in {<<>>, <<"ok">>, <<"error">>}
    /\ health \in {"fresh", "changed", "astray"}
    /\ counts \in [updates : 0..MaxUpdates, resets : 0..MaxUpsets,
                   restarts : 0..MaxUpsets]

\* Each queue has its calls, answered in order, and the library answers them
\* by the configuration.
QueuesInv ==
    /\ ~ Has(libCalls, ToDatabase) /\ ~ Has(dbCalls, ToLibrary)
    /\ Before(libCalls, IsServed, Waits) /\ Before(dbCalls, IsServed, Waits)
    /\ ~ Has(libCalls, Misjudged)
    /\ ~ Has(dbCalls, StartSaves)

\* One key operation at a time, in one place, and the stages of it.
WorkInv ==
    /\ One(libCalls, KeyCalls) /\ One(dbCalls, KeyCalls)
    /\ ~ Has(libCalls, KeyCalls) \/ ~ Has(dbCalls, KeyCalls)
    /\ work = "creating" <=> Has(libCalls, Creates)
    /\ work = "saving" <=> Has(libCalls, KeySaves) \/ Has(dbCalls, KeySaves)
    /\ work = "deleting" <=> Has(libCalls, Deletions) \/ Has(dbCalls, Deletions)

\* One update at a time, in one place, which somebody waits for.
UpdatesInv ==
    /\ One(libCalls, Updates) /\ One(dbCalls, Updates)
    /\ ~ Has(libCalls, Updates) \/ ~ Has(dbCalls, Updates)
    /\ Has(libCalls, Updates) \/ Has(dbCalls, Updates) => updating
    /\ ~ Has(libCalls, OtherSwitches(settings))

\* Opening: before it is done nothing else goes on; a list that an earlier
\* attempt has asked for comes before the database opens; then one list comes.
OpeningInv ==
    /\ One(libCalls, Opening) /\ One(dbCalls, Opening)
    /\ ~ Has(libCalls, Opening) \/ ~ Has(dbCalls, Opening)
    /\ Has(dbCalls, Opens) \/ Has(libCalls, Inits) => state = "Opening"
    /\ Before(dbCalls, Lists, Opens)
    /\ state # "Opened" =>
          /\ list = {} /\ work = "none" /\ ~ updating /\ ~ started /\ ~ switched
          /\ health = "fresh" /\ library = NoConfig
          /\ ~ Has(libCalls, NotOfOpening) /\ ~ Has(dbCalls, NotOfOpening)
    /\ Has(libCalls, Inits) \/ state = "Opened" => One(dbCalls, Lists)
    /\ Has(libCalls, Inits) /\ Has(dbCalls, Lists) => future = {}

\* open is answered when the list has come, or an update after an upgrade ends.
AnswersInv ==
    /\ OpenAnsweredOnce
    /\ state = "Opened" /\ Has(dbCalls, Lists) =>
          answers = <<>> /\ ~ updating /\ work = "none"
    /\ updating /\ answers = <<>> => switched

\* The list that comes, or has come, is that of the network in use.
ListsInv ==
    /\ Has(libCalls, Inits) \/ state = "Opened" =>
          ~ Has(dbCalls, FalseLists(settings.net, disk[settings.net]))
    /\ Has(libCalls, Inits) => future \subseteq {disk[settings.net]}

\* The keys go with the network: during a switch that may still go back there
\* are none, and none can be saved before the switch is answered.
KeysInv ==
    health # "astray" =>
        /\ Has(libCalls, Switches) => list = {} /\ work \notin {"created", "saving"}
        /\ Before(libCalls, Switches, Creates)
        /\ ~ Has(libCalls, FalseKeys(settings.net, list, disk[settings.net]))
        /\ ~ Has(dbCalls, FalseKeys(settings.net, list, disk[settings.net]))
        /\ list \subseteq disk[settings.net] \/ Has(dbCalls, Deleted)

\* What library and disk hold is the last that they have accepted.
ServedInv ==
    /\ LastIn(libCalls, Accepted, ForConfig(library))
    /\ LastIn(dbCalls, Saved, For(disk.settings))
    /\ Has(libCalls, Accepted) \/ started => library # NoConfig

\* The settings once all answers have come.
Final == IF Has(libCalls, GoesBack) THEN Flipped(settings) ELSE settings

\* What they will hold at last is what the settings will be, unless something
\* has been refused or not been saved.
LibraryWillAgree ==
    /\ LastIn(libCalls, Accepts, ForConfig(Final[Final.net]))
    /\ ~ Has(libCalls, Accepts) /\ library # NoConfig => library = Final[Final.net]

DiskWillAgree ==
    /\ LastIn(libCalls, WillSave, For(Final))
    /\ ~ Has(libCalls, WillSave) => LastIn(dbCalls, Saves, For(Final))
    /\ ~ Has(libCalls, WillSave) /\ ~ Has(dbCalls, Saves) => disk.settings = Final

SettingsInv ==
    health # "astray" /\ ~ Has(libCalls, Refuses) /\ ~ Has(dbCalls, Unsaved) =>
        /\ LibraryWillAgree
        /\ health = "changed" => DiskWillAgree

IInv ==
    /\ Types /\ QueuesInv /\ WorkInv /\ UpdatesInv
    /\ OpeningInv /\ AnswersInv /\ ListsInv /\ KeysInv
    /\ ServedInv /\ SettingsInv

-----------------------------------------------------------------------------
(* Settings and calls, and the sets they are in. *)

\* Settings stay settings, and two flips of the network are none.
LEMMA SettingsTypes ==
    /\ Nothing \in Settings
    /\ \A s \in Settings : /\ s.net \in Networks
                           /\ s[s.net] \in Configs \cup {NoConfig}
                           /\ LoadSettings(s) \in Settings
                           /\ \A n \in Networks : [s EXCEPT !.net = n] \in Settings
                           /\ Flipped(s) \in Settings /\ Flipped(Flipped(s)) = s
                           /\ Flipped(s).net # s.net
                           /\ Flipped(s).test = s.test /\ Flipped(s).main = s.main
<1>1. Nothing \in Settings
  BY DEF Nothing, Settings, Networks
<1>2. ASSUME NEW s \in Settings
      PROVE  /\ s.net \in Networks
             /\ s[s.net] \in Configs \cup {NoConfig}
             /\ LoadSettings(s) \in Settings
             /\ \A n \in Networks : [s EXCEPT !.net = n] \in Settings
             /\ Flipped(s) \in Settings /\ Flipped(s).net # s.net
             /\ Flipped(s).test = s.test /\ Flipped(s).main = s.main
  <2>1. s.net \in Networks
    BY DEF Settings
  <2>2. s[s.net] \in Configs \cup {NoConfig}
    BY <2>1 DEF Settings, Networks
  <2>3. \A n \in Networks : [s EXCEPT !.net = n] \in Settings
    BY DEF Settings
  <2>4. LoadSettings(s) \in Settings
    BY <1>1, <2>3 DEF LoadSettings, Networks
  <2>5. Flipped(s) \in Settings
    BY <2>3 DEF Flipped, Networks
  <2>6. /\ Flipped(s).net # s.net
        /\ Flipped(s).test = s.test /\ Flipped(s).main = s.main
    BY <2>1 DEF Flipped, Settings, Networks
  <2> QED BY <2>1, <2>2, <2>3, <2>4, <2>5, <2>6
<1>3. ASSUME NEW s \in Settings PROVE Flipped(Flipped(s)) = s
  BY DEF Flipped, Settings, Networks
<1> QED BY <1>1, <1>2, <1>3

\* What a new call is.
LEMMA NewCall ==
    ASSUME NEW what \in {"init", "config", "create", "rekey", "deleteAll",
                         "open", "list", "settings", "saveKey", "saveNone"},
           NEW s \in Settings, NEW keys \in SUBSET Keys, NEW after \in Afters
    PROVE  /\ New(what, s, keys, after) \in Call
           /\ New(what, s, keys, after).what = what
           /\ New(what, s, keys, after).settings = s
           /\ New(what, s, keys, after).keys = keys
           /\ New(what, s, keys, after).after = after
           /\ New(what, s, keys, after).said = "pending"
BY DEF New, Call

\* The sets of QueuesInv.
LEMMA QueuesSets ==
    ASSUME NEW c \in Call
    PROVE  /\ c \in ToLibrary <=> c.what \in {"init", "config", "create", "rekey", "deleteAll"}
           /\ c \in ToDatabase <=> c.what \in {"open", "list", "settings", "saveKey", "saveNone"}
           /\ c \in Waits <=> c.said = "pending"
           /\ c \in IsServed <=> c.said # "pending"
           /\ c \in Misjudged <=> /\ c.what = "config" /\ c.said # "pending"
                                  /\ c.said = "ok" <=> Config(c) \notin Valid
           /\ c \in StartSaves <=> c.what = "settings" /\ c.after = "start"
BY DEF ToLibrary, ToDatabase, AllOf, Waits, IsServed, Misjudged, StartSaves

\* The sets of WorkInv and of UpdatesInv.
LEMMA WorkSets ==
    ASSUME NEW c \in Call
    PROVE  /\ c \in KeyCalls <=> c.what \in {"create", "rekey", "deleteAll", "saveKey", "saveNone"}
           /\ c \in Creates <=> c.what = "create"
           /\ c \in KeySaves <=> c.what \in {"rekey", "saveKey"}
           /\ c \in Deletions <=> c.what \in {"deleteAll", "saveNone"}
           /\ c \in Deleted <=> c.what = "saveNone" /\ c.said = "ok"
           /\ c \in Updates <=> c.after \in {"finish", "deletion", "switch"}
           /\ c \in Switches <=> c.what = "config" /\ c.after = "switch"
           /\ \A s : c \in OtherSwitches(s) <=> c \in Switches /\ c.settings # s
BY DEF KeyCalls, Creates, KeySaves, Deletions, Deleted, AllOf, Updates, Switches,
       OtherSwitches

\* The sets of OpeningInv, AnswersInv, ListsInv and KeysInv.
LEMMA OpeningSets ==
    ASSUME NEW c \in Call
    PROVE  /\ c \in Opens <=> c.what = "open"
           /\ c \in Inits <=> c.what = "init"
           /\ c \in Opening <=> c.what \in {"open", "init"}
           /\ c \in Lists <=> c.what = "list"
           /\ c \in NotOfOpening <=> c.what \notin {"open", "init", "list"}
           /\ \A net, keys : c \in FalseLists(net, keys) <=>
                 /\ c.what = "list"
                 /\ c.settings.net # net \/ (c.said # "pending" /\ c.keys # keys)
           /\ \A net, listed, keys : c \in FalseKeys(net, listed, keys) <=>
                 /\ c.what \in {"rekey", "saveKey"}
                 /\ \/ c.settings.net # net
                    \/ ~ (listed \subseteq c.keys)
                    \/ c.what = "saveKey" /\ c.said = "ok" /\ c.keys # keys
BY DEF Opens, Inits, Opening, Lists, AllOf, NotOfOpening, FalseLists, FalseKeys

\* The sets of ServedInv and of SettingsInv.
LEMMA SettingsSets ==
    ASSUME NEW c \in Call
    PROVE  /\ c \in Accepts <=> c.what = "config" /\ Config(c) \in Valid
           /\ c \in Accepted <=> c.what = "config" /\ c.said = "ok"
           /\ c \in Refuses <=> /\ c.what = "config" /\ Config(c) \notin Valid
                                /\ c.after \in {"nobody", "finish", "deletion"}
           /\ c \in GoesBack <=> /\ c.what = "config" /\ c.after = "switch"
                                 /\ Config(c) \notin Valid
           /\ c \in WillSave <=> /\ c.what = "config" /\ Config(c) \in Valid
                                 /\ c.after # "start"
           /\ c \in Saves <=> c.what = "settings"
           /\ c \in Saved <=> c.what = "settings" /\ c.said = "ok"
           /\ c \in Unsaved <=> c.what = "settings" /\ c.said = "error"
           /\ \A s : c \in For(s) <=> c.settings = s
           /\ \A config : c \in ForConfig(config) <=> Config(c) = config
BY DEF Accepts, Accepted, Refuses, GoesBack, WillSave, Saves, AllOf, Saved, Unsaved,
       For, ForConfig

\* Calls of one set are calls of another one.
LEMMA HasMore ==
    ASSUME NEW q \in Seq(Call), NEW V, NEW W, \A c \in Call : c \in V => c \in W
    PROVE  Has(q, V) => Has(q, W)
<1>1. \A i \in DOMAIN q : q[i] \in Call
  BY ElementOfSeq, LenProperties
<1> QED BY <1>1 DEF Has

\* What a queue has of one set it has of another one; of an empty set of calls
\* nothing is asked.
LEMMA HasSets ==
    ASSUME NEW q \in Seq(Call)
    PROVE  /\ Has(q, KeyCalls) => Has(q, Creates) \/ Has(q, KeySaves) \/ Has(q, Deletions)
           /\ Has(q, Creates) \/ Has(q, KeySaves) \/ Has(q, Deletions) => Has(q, KeyCalls)
           /\ Has(q, Deleted) => Has(q, Deletions)
           /\ Has(q, Switches) => Has(q, Updates)
           /\ Has(q, GoesBack) => Has(q, Switches)
           /\ \A s : Has(q, OtherSwitches(s)) => Has(q, Switches)
           /\ \A s : Has(q, GoesBack) /\ ~ Has(q, OtherSwitches(s)) =>
                        s[s.net] \notin Valid
           /\ \A net, keys : Has(q, FalseLists(net, keys)) => Has(q, Lists)
           /\ \A net, listed, keys : Has(q, FalseKeys(net, listed, keys)) => Has(q, KeySaves)
           /\ Has(q, Accepted) => Has(q, Accepts) \/ Has(q, Misjudged)
           /\ Has(q, Saved) => Has(q, Saves)
           /\ Has(q, Opening) => Has(q, Opens) \/ Has(q, Inits)
           /\ Has(q, Opens) \/ Has(q, Inits) => Has(q, Opening)
           /\ Has(q, KeyCalls) \/ Has(q, Switches) \/ Has(q, Accepts) \/ Has(q, Saves)
                 \/ Has(q, WillSave) => Has(q, NotOfOpening)
<1>1. \A i \in DOMAIN q : q[i] \in Call
  BY ElementOfSeq, LenProperties
<1>2. /\ Has(q, KeyCalls) => Has(q, Creates) \/ Has(q, KeySaves) \/ Has(q, Deletions)
      /\ Has(q, Creates) \/ Has(q, KeySaves) \/ Has(q, Deletions) => Has(q, KeyCalls)
      /\ Has(q, Deleted) => Has(q, Deletions)
  BY <1>1, WorkSets DEF Has
<1>3. /\ Has(q, Switches) => Has(q, Updates)
      /\ Has(q, GoesBack) => Has(q, Switches)
      /\ \A s : Has(q, OtherSwitches(s)) => Has(q, Switches)
  BY <1>1, WorkSets, SettingsSets DEF Has
<1>4. ASSUME NEW s, Has(q, GoesBack), ~ Has(q, OtherSwitches(s))
      PROVE  s[s.net] \notin Valid
  <2>1. PICK i \in DOMAIN q : q[i] \in GoesBack
    BY <1>4 DEF Has
  <2>2. q[i].settings = s
    BY <1>1, <1>4, <2>1, WorkSets, SettingsSets DEF Has
  <2> QED BY <1>1, <2>1, <2>2, SettingsSets DEF Config
<1>5. \A net, keys : Has(q, FalseLists(net, keys)) => Has(q, Lists)
  BY <1>1, OpeningSets DEF Has
<1>6. \A net, listed, keys : Has(q, FalseKeys(net, listed, keys)) => Has(q, KeySaves)
  BY <1>1, OpeningSets, WorkSets DEF Has
<1>7. Has(q, Accepted) => Has(q, Accepts) \/ Has(q, Misjudged)
  <2>1. \A c \in Call : c \in Accepted => c \in Accepts \/ c \in Misjudged
    BY SettingsSets, QueuesSets
  <2> QED BY <1>1, <2>1 DEF Has
<1>8. Has(q, Saved) => Has(q, Saves)
  BY <1>1, SettingsSets DEF Has
<1>9. /\ Has(q, Opening) => Has(q, Opens) \/ Has(q, Inits)
      /\ Has(q, Opens) \/ Has(q, Inits) => Has(q, Opening)
  BY <1>1, OpeningSets DEF Has
<1>10. \A c \in Call :
          c \in KeyCalls \/ c \in Switches \/ c \in Accepts \/ c \in Saves \/ c \in WillSave
             => c \in NotOfOpening
  BY OpeningSets, WorkSets, SettingsSets
<1>11. Has(q, KeyCalls) \/ Has(q, Switches) \/ Has(q, Accepts) \/ Has(q, Saves)
          \/ Has(q, WillSave) => Has(q, NotOfOpening)
  BY <1>1, <1>10 DEF Has
<1> QED BY <1>2, <1>3, <1>4, <1>5, <1>6, <1>7, <1>8, <1>9, <1>11

\* Of calls that are not there everything can be said.
LEMMA NoneOf ==
    ASSUME NEW q
    PROVE  \A V : ~ Has(q, V) =>
              One(q, V) /\ \A W : Before(q, V, W) /\ Before(q, W, V) /\ LastIn(q, V, W)
BY DEF Has, One, Before, LastIn

-----------------------------------------------------------------------------
(* What the invariant says together *)

\* Calls are where they belong.
LEMMA CallsInPlace ==
    ASSUME Types, QueuesInv
    PROVE  /\ ~ Has(dbCalls, Creates) /\ ~ Has(dbCalls, Inits) /\ ~ Has(dbCalls, Switches)
           /\ ~ Has(libCalls, Opens)
<1>1. libCalls \in Seq(Call) /\ dbCalls \in Seq(Call)
  BY DEF Types
<1>2. \A c \in Call : c \in Creates \/ c \in Inits \/ c \in Switches => c \in ToLibrary
  BY QueuesSets, WorkSets, OpeningSets
<1>3. \A c \in Call : c \in Opens => c \in ToDatabase
  BY QueuesSets, OpeningSets
<1>4. ASSUME NEW V, \A c \in Call : c \in V => c \in ToLibrary PROVE ~ Has(dbCalls, V)
  BY <1>1, <1>4, HasMore DEF QueuesInv
<1>5. ~ Has(libCalls, Opens)
  BY <1>1, <1>3, HasMore DEF QueuesInv
<1> QED BY <1>2, <1>4, <1>5

\* No call of a key operation is out when none waits.
LEMMA NoKeyCalls ==
    ASSUME Types, QueuesInv, WorkInv, work \in {"none", "created"}
    PROVE  /\ ~ Has(libCalls, KeyCalls) /\ ~ Has(dbCalls, KeyCalls)
           /\ ~ Has(libCalls, Creates) /\ ~ Has(dbCalls, Creates)
           /\ ~ Has(libCalls, KeySaves) /\ ~ Has(dbCalls, KeySaves)
           /\ ~ Has(libCalls, Deletions) /\ ~ Has(dbCalls, Deletions)
<1>1. libCalls \in Seq(Call) /\ dbCalls \in Seq(Call)
  BY DEF Types
<1>2. /\ ~ Has(libCalls, Creates) /\ ~ Has(libCalls, KeySaves) /\ ~ Has(dbCalls, KeySaves)
      /\ ~ Has(libCalls, Deletions) /\ ~ Has(dbCalls, Deletions)
  BY DEF WorkInv
<1>3. ~ Has(dbCalls, Creates)
  BY CallsInPlace
<1> QED BY <1>1, <1>2, <1>3, HasSets

\* Before the library has started nothing but the opening goes on.
LEMMA OnlyOpening ==
    ASSUME Types, QueuesInv, OpeningInv
    PROVE  /\ Has(libCalls, Inits) \/ Has(dbCalls, Opens) => state = "Opening"
           /\ state # "Opened" =>
                 /\ ~ Has(libCalls, KeyCalls) /\ ~ Has(dbCalls, KeyCalls)
                 /\ ~ Has(libCalls, KeySaves) /\ ~ Has(dbCalls, KeySaves)
                 /\ ~ Has(libCalls, Switches) /\ ~ Has(libCalls, Accepts)
                 /\ ~ Has(libCalls, WillSave) /\ ~ Has(libCalls, GoesBack)
                 /\ ~ Has(dbCalls, Saves)
           /\ state = "Opened" => ~ Has(libCalls, Inits) /\ ~ Has(dbCalls, Opens)
                                     /\ ~ Has(libCalls, Opening) /\ ~ Has(dbCalls, Opening)
<1>1. libCalls \in Seq(Call) /\ dbCalls \in Seq(Call)
  BY DEF Types
<1>2. Has(libCalls, Inits) \/ Has(dbCalls, Opens) => state = "Opening"
  BY DEF OpeningInv
<1>3. ASSUME state # "Opened"
      PROVE  /\ ~ Has(libCalls, KeyCalls) /\ ~ Has(dbCalls, KeyCalls)
             /\ ~ Has(libCalls, KeySaves) /\ ~ Has(dbCalls, KeySaves)
             /\ ~ Has(libCalls, Switches) /\ ~ Has(libCalls, Accepts)
             /\ ~ Has(libCalls, WillSave) /\ ~ Has(libCalls, GoesBack)
             /\ ~ Has(dbCalls, Saves)
  <2>1. ~ Has(libCalls, NotOfOpening) /\ ~ Has(dbCalls, NotOfOpening)
    BY <1>3 DEF OpeningInv
  <2> QED BY <1>1, <2>1, HasSets
<1>4. ASSUME state = "Opened"
      PROVE  /\ ~ Has(libCalls, Inits) /\ ~ Has(dbCalls, Opens)
             /\ ~ Has(libCalls, Opening) /\ ~ Has(dbCalls, Opening)
  <2>1. ~ Has(libCalls, Inits) /\ ~ Has(dbCalls, Opens)
    BY <1>2, <1>4
  <2>2. ~ Has(libCalls, Opens) /\ ~ Has(dbCalls, Inits)
    BY CallsInPlace
  <2> QED BY <1>1, <2>1, <2>2, HasSets
<1> QED BY <1>2, <1>3, <1>4

\* While nobody waits for an update nothing switches.
LEMMA NoSwitch ==
    ASSUME Types, UpdatesInv, ~ updating
    PROVE  /\ ~ Has(libCalls, Updates) /\ ~ Has(dbCalls, Updates)
           /\ ~ Has(libCalls, Switches) /\ ~ Has(libCalls, GoesBack)
           /\ \A s : ~ Has(libCalls, OtherSwitches(s))
<1>1. libCalls \in Seq(Call)
  BY DEF Types
<1>2. ~ Has(libCalls, Updates) /\ ~ Has(dbCalls, Updates)
  BY DEF UpdatesInv
<1> QED BY <1>1, <1>2, HasSets

-----------------------------------------------------------------------------
(* At first, and after a restart *)

\* Nothing goes on, and nothing is known.
LEMMA NothingGoesOn ==
    ASSUME Types, state = "Initial", list = {}, work = "none", ~ updating, ~ started,
           ~ switched, libCalls = <<>>, dbCalls = <<>>, library = NoConfig,
           answers = <<>>, health = "fresh"
    PROVE  IInv
<1>1. /\ \A V : ~ Has(libCalls, V) /\ One(libCalls, V)
      /\ \A V : ~ Has(dbCalls, V) /\ One(dbCalls, V)
      /\ \A V, W : Before(libCalls, V, W) /\ LastIn(libCalls, V, W)
      /\ \A V, W : Before(dbCalls, V, W) /\ LastIn(dbCalls, V, W)
  BY EmptyQueue
<1>2. QueuesInv /\ WorkInv /\ UpdatesInv /\ OpeningInv /\ ListsInv /\ KeysInv /\ ServedInv
  BY <1>1 DEF QueuesInv, WorkInv, UpdatesInv, OpeningInv, ListsInv, KeysInv, ServedInv
<1>3. AnswersInv
  BY DEF AnswersInv, OpenAnsweredOnce
<1>4. SettingsInv
  BY <1>1 DEF SettingsInv, LibraryWillAgree
<1> QED BY <1>2, <1>3, <1>4 DEF IInv

\* The initial states.
LEMMA InitIInv == Init => IInv
<1> SUFFICES ASSUME Init PROVE IInv
  OBVIOUS
<1>1. disk \in Disk
  BY SettingsAssumption DEF Init, Disk
<1>2. counts \in [updates : 0..MaxUpdates, resets : 0..MaxUpsets, restarts : 0..MaxUpsets]
  BY BoundsAssumption DEF Init
<1>3. Types
  BY <1>1, <1>2, SettingsTypes, EmptyQueue DEF Init, Types
<1> QED BY <1>3, NothingGoesOn DEF Init

\* A restart.
LEMMA RestartIInv == IInv /\ Restart => IInv'
<1> SUFFICES ASSUME IInv, Restart PROVE IInv'
  OBVIOUS
<1> USE DEF IInv
<1>1. counts' \in [updates : 0..MaxUpdates, resets : 0..MaxUpsets, restarts : 0..MaxUpsets]
  BY BoundsAssumption DEF Types, Restart
<1>2. Types'
  BY <1>1, SettingsTypes, EmptyQueue DEF Types, Restart
<1>3. (Types /\ state = "Initial" /\ list = {} /\ work = "none" /\ ~ updating
         /\ ~ started /\ ~ switched /\ libCalls = <<>> /\ dbCalls = <<>>
         /\ library = NoConfig /\ answers = <<>> /\ health = "fresh" => IInv)'
  BY NothingGoesOn, PTL
<1> QED BY <1>2, <1>3 DEF Restart

-----------------------------------------------------------------------------
(* Key operations *)

\* A key is asked for.
LEMMA CreateKeyIInv == IInv /\ CreateKey => IInv'
<1> SUFFICES ASSUME IInv, CreateKey PROVE IInv'
  OBVIOUS
<1> USE DEF IInv
<1> DEFINE c == New("create", settings, {}, "nobody")
<1>1. /\ c \in Call /\ c.what = "create" /\ c.settings = settings /\ c.keys = {}
      /\ c.after = "nobody" /\ c.said = "pending"
  BY NewCall DEF Types, Afters
<1>2. /\ libCalls' = Append(libCalls, c)
      /\ state = "Opened" /\ work = "none" /\ work' = "creating" /\ answers # <<>>
      /\ UNCHANGED <<list, updating, started, switched, external, dbCalls, library,
                     disk, history>>
  BY DEF CreateKey
<1> HIDE DEF c
<1>3. libCalls \in Seq(Call) /\ dbCalls \in Seq(Call)
  BY DEF Types
<1>4. /\ libCalls' \in Seq(Call)
      /\ \A V : Has(libCalls', V) <=> Has(libCalls, V) \/ c \in V
      /\ \A V : One(libCalls', V) <=> One(libCalls, V) /\ (c \in V => ~ Has(libCalls, V))
      /\ \A V, W : Before(libCalls', V, W) <=>
                      Before(libCalls, V, W) /\ (c \in V => ~ Has(libCalls, W) /\ c \notin W)
      /\ \A V, T : LastIn(libCalls', V, T) <=>
                      (IF c \in V THEN c \in T ELSE LastIn(libCalls, V, T))
  BY <1>1, <1>2, <1>3, AppendCall
<1>5. Types'
  BY <1>2, <1>4 DEF Types, external, history
<1>6. QueuesInv'
  BY <1>1, <1>2, <1>4, QueuesSets DEF QueuesInv
<1>7. WorkInv'
  BY <1>1, <1>2, <1>4, WorkSets, NoKeyCalls DEF WorkInv
<1>8. UpdatesInv'
  BY <1>1, <1>2, <1>4, WorkSets DEF UpdatesInv, external
<1>9. OpeningInv'
  BY <1>1, <1>2, <1>4, OpeningSets DEF OpeningInv, external
<1>10. AnswersInv'
  BY <1>1, <1>2, <1>4 DEF AnswersInv, OpenAnsweredOnce, external, history
<1>11. ListsInv'
  BY <1>1, <1>2, <1>4, OpeningSets DEF ListsInv, external
<1>12. KeysInv'
  BY <1>1, <1>2, <1>3, <1>4, OpeningSets, WorkSets, HasSets DEF KeysInv, external, history
<1>13. ServedInv'
  BY <1>1, <1>2, <1>4, SettingsSets DEF ServedInv
<1>14. SettingsInv'
  BY <1>1, <1>2, <1>4, SettingsSets
     DEF SettingsInv, LibraryWillAgree, DiskWillAgree, Final, external, history
<1> QED BY <1>5, <1>6, <1>7, <1>8, <1>9, <1>10, <1>11, <1>12, <1>13, <1>14

\* A key that was created is to be saved, with the list and the network there are.
LEMMA SaveKeyIInv == \A k \in Keys : IInv /\ SaveKey(k) => IInv'
<1> SUFFICES ASSUME NEW k \in Keys, IInv, SaveKey(k) PROVE IInv'
  OBVIOUS
<1> USE DEF IInv
<1> DEFINE c == New("rekey", settings, list \cup {k}, "nobody")
<1>1. /\ c \in Call /\ c.what = "rekey" /\ c.settings = settings /\ c.keys = list \cup {k}
      /\ c.after = "nobody" /\ c.said = "pending"
  BY NewCall DEF Types, Afters
<1>2. /\ libCalls' = Append(libCalls, c)
      /\ work = "created" /\ work' = "saving"
      /\ UNCHANGED <<list, updating, started, switched, external, dbCalls, library,
                     disk, history>>
  BY DEF SaveKey
<1> HIDE DEF c
<1>3. libCalls \in Seq(Call) /\ dbCalls \in Seq(Call)
  BY DEF Types
<1>4. /\ libCalls' \in Seq(Call)
      /\ \A V : Has(libCalls', V) <=> Has(libCalls, V) \/ c \in V
      /\ \A V : One(libCalls', V) <=> One(libCalls, V) /\ (c \in V => ~ Has(libCalls, V))
      /\ \A V, W : Before(libCalls', V, W) <=>
                      Before(libCalls, V, W) /\ (c \in V => ~ Has(libCalls, W) /\ c \notin W)
      /\ \A V, T : LastIn(libCalls', V, T) <=>
                      (IF c \in V THEN c \in T ELSE LastIn(libCalls, V, T))
  BY <1>1, <1>2, <1>3, AppendCall
<1>5. Types'
  BY <1>1, <1>2, <1>4 DEF Types, external, history
<1>6. QueuesInv'
  BY <1>1, <1>2, <1>4, QueuesSets DEF QueuesInv, external, history
<1>7. WorkInv'
  BY <1>1, <1>2, <1>4, WorkSets, NoKeyCalls DEF WorkInv, external, history
<1>8. UpdatesInv'
  BY <1>1, <1>2, <1>4, WorkSets DEF UpdatesInv, external, history
<1>9. OpeningInv'
  BY <1>1, <1>2, <1>4, OpeningSets DEF OpeningInv, external, history
<1>10. AnswersInv'
  BY <1>1, <1>2, <1>4 DEF AnswersInv, OpenAnsweredOnce, external, history
<1>11. ListsInv'
  BY <1>1, <1>2, <1>4, OpeningSets DEF ListsInv, external, history
<1>12. KeysInv'
  BY <1>1, <1>2, <1>4, OpeningSets, WorkSets, NoKeyCalls DEF KeysInv, external, history
<1>13. ServedInv'
  BY <1>1, <1>2, <1>4, SettingsSets DEF ServedInv, external, history
<1>14. SettingsInv'
  BY <1>1, <1>2, <1>4, SettingsSets DEF SettingsInv, LibraryWillAgree, DiskWillAgree,
     Final, external, history
<1> QED BY <1>5, <1>6, <1>7, <1>8, <1>9, <1>10, <1>11, <1>12, <1>13, <1>14

\* All keys are to be deleted.
LEMMA DeleteAllKeysIInv == IInv /\ DeleteAllKeys => IInv'
<1> SUFFICES ASSUME IInv, DeleteAllKeys PROVE IInv'
  OBVIOUS
<1> USE DEF IInv
<1> DEFINE c == New("deleteAll", settings, {}, "nobody")
<1>1. /\ c \in Call /\ c.what = "deleteAll" /\ c.settings = settings /\ c.keys = {}
      /\ c.after = "nobody" /\ c.said = "pending"
  BY NewCall DEF Types, Afters
<1>2. /\ libCalls' = Append(libCalls, c)
      /\ state = "Opened" /\ answers # <<>> /\ work = "none" /\ work' = "deleting"
      /\ UNCHANGED <<list, updating, started, switched, external, dbCalls, library,
                     disk, history>>
  BY DEF DeleteAllKeys, DeleteAll
<1> HIDE DEF c
<1>3. libCalls \in Seq(Call) /\ dbCalls \in Seq(Call)
  BY DEF Types
<1>4. /\ libCalls' \in Seq(Call)
      /\ \A V : Has(libCalls', V) <=> Has(libCalls, V) \/ c \in V
      /\ \A V : One(libCalls', V) <=> One(libCalls, V) /\ (c \in V => ~ Has(libCalls, V))
      /\ \A V, W : Before(libCalls', V, W) <=>
                      Before(libCalls, V, W) /\ (c \in V => ~ Has(libCalls, W) /\ c \notin W)
      /\ \A V, T : LastIn(libCalls', V, T) <=>
                      (IF c \in V THEN c \in T ELSE LastIn(libCalls, V, T))
  BY <1>1, <1>2, <1>3, AppendCall
<1>5. Types'
  BY <1>1, <1>2, <1>4 DEF Types, external, history
<1>6. QueuesInv'
  BY <1>1, <1>2, <1>4, QueuesSets DEF QueuesInv, external, history
<1>7. WorkInv'
  BY <1>1, <1>2, <1>4, WorkSets, NoKeyCalls DEF WorkInv, external, history
<1>8. UpdatesInv'
  BY <1>1, <1>2, <1>4, WorkSets DEF UpdatesInv, external, history
<1>9. OpeningInv'
  BY <1>1, <1>2, <1>4, OpeningSets DEF OpeningInv, external, history
<1>10. AnswersInv'
  BY <1>1, <1>2, <1>4 DEF AnswersInv, OpenAnsweredOnce, external, history
<1>11. ListsInv'
  BY <1>1, <1>2, <1>4, OpeningSets DEF ListsInv, external, history
<1>12. KeysInv'
  BY <1>1, <1>2, <1>4, OpeningSets, WorkSets DEF KeysInv, external, history
<1>13. ServedInv'
  BY <1>1, <1>2, <1>4, SettingsSets DEF ServedInv, external, history
<1>14. SettingsInv'
  BY <1>1, <1>2, <1>4, SettingsSets DEF SettingsInv, LibraryWillAgree, DiskWillAgree,
     Final, external, history
<1> QED BY <1>5, <1>6, <1>7, <1>8, <1>9, <1>10, <1>11, <1>12, <1>13, <1>14

\* The library gets the configuration there is.
LEMMA StartIInv == IInv /\ Start => IInv'
<1> SUFFICES ASSUME IInv, Start PROVE IInv'
  OBVIOUS
<1> USE DEF IInv
<1> DEFINE c == New("config", settings, {}, "start")
<1>1. /\ c \in Call /\ c.what = "config" /\ c.settings = settings /\ c.keys = {}
      /\ c.after = "start" /\ c.said = "pending"
  BY NewCall DEF Types, Afters
<1>2. /\ libCalls' = Append(libCalls, c)
      /\ state = "Opened" /\ answers # <<>>
      /\ UNCHANGED <<wallet, external, dbCalls, library, disk, history>>
  BY DEF Start, SetConfig
<1> HIDE DEF c
<1>3. libCalls \in Seq(Call) /\ dbCalls \in Seq(Call)
  BY DEF Types
<1>4. /\ libCalls' \in Seq(Call)
      /\ \A V : Has(libCalls', V) <=> Has(libCalls, V) \/ c \in V
      /\ \A V : One(libCalls', V) <=> One(libCalls, V) /\ (c \in V => ~ Has(libCalls, V))
      /\ \A V, W : Before(libCalls', V, W) <=>
                      Before(libCalls, V, W) /\ (c \in V => ~ Has(libCalls, W) /\ c \notin W)
      /\ \A V, T : LastIn(libCalls', V, T) <=>
                      (IF c \in V THEN c \in T ELSE LastIn(libCalls, V, T))
  BY <1>1, <1>2, <1>3, AppendCall
<1>5. Types'
  BY <1>1, <1>2, <1>4 DEF Types, wallet, external, history
<1>6. QueuesInv'
  BY <1>1, <1>2, <1>4, QueuesSets DEF QueuesInv, wallet, external, history
<1>7. WorkInv'
  BY <1>1, <1>2, <1>4, WorkSets DEF WorkInv, wallet, external, history
<1>8. UpdatesInv'
  BY <1>1, <1>2, <1>4, WorkSets DEF UpdatesInv, wallet, external, history
<1>9. OpeningInv'
  BY <1>1, <1>2, <1>4, OpeningSets DEF OpeningInv, wallet, external, history
<1>10. AnswersInv'
  BY <1>1, <1>2, <1>4 DEF AnswersInv, OpenAnsweredOnce, wallet, external, history
<1>11. ListsInv'
  BY <1>1, <1>2, <1>4, OpeningSets DEF ListsInv, wallet, external, history
<1>12. KeysInv'
  BY <1>1, <1>2, <1>4, OpeningSets, WorkSets DEF KeysInv, wallet, external, history
<1>13. ServedInv'
  BY <1>1, <1>2, <1>4, SettingsSets DEF ServedInv, wallet, external, history
<1>14. SettingsInv'
  <2>1. c \notin Refuses /\ c \notin WillSave /\ c \notin GoesBack
    BY <1>1, SettingsSets
  <2>2. Final' = Final
    BY <1>2, <1>4, <2>1 DEF Final, external
  <2>3. c \in Accepts => Config(c) \in Valid /\ Config(c) = settings[settings.net]
    BY <1>1, SettingsSets DEF Config
  <2>4. Has(libCalls, GoesBack) => settings[settings.net] \notin Valid
    BY <1>3, HasSets DEF UpdatesInv
  <2>5. c \in Accepts => c \in ForConfig(Final[Final.net])
    BY <1>1, <2>3, <2>4, SettingsSets DEF Final
  <2>6. LibraryWillAgree => LibraryWillAgree'
    BY <1>2, <1>4, <2>2, <2>5 DEF LibraryWillAgree
  <2>7. DiskWillAgree => DiskWillAgree'
    BY <1>2, <1>4, <2>1, <2>2 DEF DiskWillAgree
  <2> QED BY <1>2, <1>4, <2>1, <2>6, <2>7 DEF SettingsInv, history
<1> QED BY <1>5, <1>6, <1>7, <1>8, <1>9, <1>10, <1>11, <1>12, <1>13, <1>14

\* The library gets it again, and it is saved again.
LEMMA ResetNetworkIInv == IInv /\ ResetNetwork => IInv'
<1> SUFFICES ASSUME IInv, ResetNetwork PROVE IInv'
  OBVIOUS
<1> USE DEF IInv
<1> DEFINE c == New("config", settings, {}, "nobody")
<1>1. /\ c \in Call /\ c.what = "config" /\ c.settings = settings /\ c.keys = {}
      /\ c.after = "nobody" /\ c.said = "pending"
  BY NewCall DEF Types, Afters
<1>2. /\ libCalls' = Append(libCalls, c) /\ settings' = settings
      /\ started
      /\ health' = IF health = "astray" THEN "astray" ELSE "changed"
      /\ UNCHANGED <<wallet, state, upgrade, future, dbCalls, library, disk, answers>>
  BY DEF ResetNetwork, ExternalUpdate, SetConfig
<1> HIDE DEF c
<1>3. libCalls \in Seq(Call) /\ dbCalls \in Seq(Call)
  BY DEF Types
<1>4. /\ libCalls' \in Seq(Call)
      /\ \A V : Has(libCalls', V) <=> Has(libCalls, V) \/ c \in V
      /\ \A V : One(libCalls', V) <=> One(libCalls, V) /\ (c \in V => ~ Has(libCalls, V))
      /\ \A V, W : Before(libCalls', V, W) <=>
                      Before(libCalls, V, W) /\ (c \in V => ~ Has(libCalls, W) /\ c \notin W)
      /\ \A V, T : LastIn(libCalls', V, T) <=>
                      (IF c \in V THEN c \in T ELSE LastIn(libCalls, V, T))
  BY <1>1, <1>2, <1>3, AppendCall
<1>5. Types'
  <2>1. counts' \in [updates : 0..MaxUpdates, resets : 0..MaxUpsets,
                     restarts : 0..MaxUpsets]
    BY BoundsAssumption DEF ResetNetwork, Types
  <2> QED BY <1>2, <1>4, <2>1 DEF Types, wallet
<1>6. QueuesInv'
  BY <1>1, <1>2, <1>4, QueuesSets DEF QueuesInv, wallet
<1>7. WorkInv'
  BY <1>1, <1>2, <1>4, WorkSets DEF WorkInv, wallet
<1>8. UpdatesInv'
  BY <1>1, <1>2, <1>4, WorkSets DEF UpdatesInv, wallet
<1>9. OpeningInv'
  BY <1>1, <1>2, <1>4, OpeningSets DEF OpeningInv, wallet
<1>10. AnswersInv'
  BY <1>1, <1>2, <1>4 DEF AnswersInv, OpenAnsweredOnce, wallet
<1>11. ListsInv'
  BY <1>1, <1>2, <1>4, OpeningSets DEF ListsInv, wallet
<1>12. KeysInv'
  BY <1>1, <1>2, <1>4, OpeningSets, WorkSets DEF KeysInv, wallet
<1>13. ServedInv'
  BY <1>1, <1>2, <1>4, SettingsSets DEF ServedInv, wallet
<1>14. SettingsInv'
  <2>1. /\ c \notin GoesBack
        /\ c \notin Refuses => c \in Accepts /\ c \in WillSave
        /\ c \in For(settings) /\ c \in ForConfig(settings[settings.net])
        /\ c \in Accepts => settings[settings.net] \in Valid
    BY <1>1, SettingsSets DEF Config
  <2>2. Has(libCalls, GoesBack) => settings[settings.net] \notin Valid
    BY <1>3, HasSets DEF UpdatesInv
  <2> SUFFICES ASSUME c \notin Refuses PROVE LibraryWillAgree' /\ DiskWillAgree'
    BY <1>4 DEF SettingsInv
  <2>3. Final' = settings
    BY <1>2, <1>4, <2>1, <2>2 DEF Final
  <2> QED BY <1>4, <2>1, <2>3 DEF LibraryWillAgree, DiskWillAgree
<1> QED BY <1>5, <1>6, <1>7, <1>8, <1>9, <1>10, <1>11, <1>12, <1>13, <1>14

\* New settings are kept, and the library gets them; the network stays for now.
LEMMA UpdateSettingsIInv == \A s \in Settings : IInv /\ UpdateSettings(s) => IInv'
<1> SUFFICES ASSUME NEW s \in Settings, IInv, UpdateSettings(s) PROVE IInv'
  OBVIOUS
<1> USE DEF IInv
<1>1. settings' = [s EXCEPT !.net = settings.net] /\ settings' \in Settings
      /\ settings'.net = settings.net
  <2>1. settings' = [s EXCEPT !.net = settings.net]
    BY DEF UpdateSettings, WalletUpdate, ExternalUpdate
  <2>2. settings.net \in Networks
    BY SettingsTypes DEF Types
  <2>3. settings' \in Settings
    BY <2>1, <2>2, SettingsTypes
  <2> QED BY <2>1, <2>3 DEF Settings
<1> DEFINE c == New("config", settings', {}, IF s.net = settings.net THEN "finish" ELSE "deletion")
<1>2. /\ c \in Call /\ c.what = "config" /\ c.settings = settings' /\ c.keys = {}
      /\ c.after \in {"finish", "deletion"} /\ c.said = "pending"
  BY <1>1, NewCall, SettingsTypes DEF Types, Afters
<1>3. /\ libCalls' = Append(libCalls, c)
      /\ state = "Opened" /\ answers # <<>> /\ ~ updating /\ updating' = TRUE
      /\ health' = IF health = "astray" THEN "astray" ELSE "changed"
      /\ UNCHANGED <<list, work, started, switched, state, upgrade, future, dbCalls,
                     library, disk, answers>>
  BY DEF UpdateSettings, WalletUpdate, ExternalUpdate, SetConfig
<1> HIDE DEF c
<1>4. libCalls \in Seq(Call) /\ dbCalls \in Seq(Call)
  BY DEF Types
<1>5. /\ libCalls' \in Seq(Call)
      /\ \A V : Has(libCalls', V) <=> Has(libCalls, V) \/ c \in V
      /\ \A V : One(libCalls', V) <=> One(libCalls, V) /\ (c \in V => ~ Has(libCalls, V))
      /\ \A V, W : Before(libCalls', V, W) <=>
                      Before(libCalls, V, W) /\ (c \in V => ~ Has(libCalls, W) /\ c \notin W)
      /\ \A V, T : LastIn(libCalls', V, T) <=>
                      (IF c \in V THEN c \in T ELSE LastIn(libCalls, V, T))
  BY <1>2, <1>3, <1>4, AppendCall
<1>6. Types'
  <2>1. counts' \in [updates : 0..MaxUpdates, resets : 0..MaxUpsets,
                     restarts : 0..MaxUpsets]
    BY BoundsAssumption DEF UpdateSettings, Types
  <2> QED BY <1>1, <1>3, <1>5, <2>1 DEF Types
<1>7. QueuesInv'
  BY <1>1, <1>2, <1>3, <1>5, QueuesSets DEF QueuesInv
<1>8. WorkInv'
  BY <1>1, <1>2, <1>3, <1>5, WorkSets DEF WorkInv
<1>9. UpdatesInv'
  BY <1>1, <1>2, <1>3, <1>5, WorkSets, NoSwitch DEF UpdatesInv
<1>10. OpeningInv'
  BY <1>1, <1>2, <1>3, <1>5, OpeningSets DEF OpeningInv
<1>11. AnswersInv'
  BY <1>1, <1>2, <1>3, <1>5 DEF AnswersInv, OpenAnsweredOnce
<1>12. ListsInv'
  BY <1>1, <1>2, <1>3, <1>5, OpeningSets DEF ListsInv
<1>13. KeysInv'
  BY <1>1, <1>2, <1>3, <1>5, OpeningSets, WorkSets, NoSwitch DEF KeysInv
<1>14. ServedInv'
  BY <1>1, <1>2, <1>3, <1>5, SettingsSets DEF ServedInv
<1>15. SettingsInv'
  <2>1. /\ c \notin GoesBack
        /\ c \notin Refuses => c \in Accepts /\ c \in WillSave
        /\ c \in For(settings') /\ c \in ForConfig(settings'[settings'.net])
    BY <1>2, SettingsSets DEF Config
  <2>2. ~ Has(libCalls, GoesBack)
    BY <1>3, NoSwitch
  <2> SUFFICES ASSUME c \notin Refuses PROVE LibraryWillAgree' /\ DiskWillAgree'
    BY <1>5 DEF SettingsInv
  <2>3. Final' = settings'
    BY <1>3, <1>5, <2>1, <2>2 DEF Final
  <2> QED BY <1>5, <2>1, <2>3 DEF LibraryWillAgree, DiskWillAgree
<1> QED BY <1>6, <1>7, <1>8, <1>9, <1>10, <1>11, <1>12, <1>13, <1>14, <1>15

\* A key is created, or not.
LEMMA OnCreatedIInv == IInv /\ OnCreated => IInv'
<1> SUFFICES ASSUME IInv, OnCreated PROVE IInv'
  OBVIOUS
<1> USE DEF IInv
<1> DEFINE h == Head(libCalls)
<1>1. libCalls \in Seq(Call) /\ dbCalls \in Seq(Call)
  BY DEF Types
<1>2. /\ libCalls # <<>> /\ h.what = "create" /\ libCalls' = Tail(libCalls)
      /\ work' \in {"created", "none"}
      /\ UNCHANGED <<list, updating, started, switched, external, dbCalls, library,
                     disk, history>>
  BY DEF OnCreated, Ready
<1>3. /\ h \in Call /\ libCalls' \in Seq(Call)
      /\ \A V : Has(libCalls, V) <=> h \in V \/ Has(libCalls', V)
      /\ \A V : One(libCalls, V) <=> One(libCalls', V) /\ (h \in V => ~ Has(libCalls', V))
      /\ \A V, W : Before(libCalls, V, W) <=>
                      /\ Before(libCalls', V, W)
                      /\ h \in W => ~ Has(libCalls', V) /\ h \notin V
      /\ \A V, T : LastIn(libCalls, V, T) <=>
                      /\ LastIn(libCalls', V, T)
                      /\ h \in V => h \in T \/ Has(libCalls', V)
  BY <1>1, <1>2, TailCall
<1> HIDE DEF h
<1>4. work = "creating"
  BY <1>2, <1>3, WorkSets DEF WorkInv
<1>5. Types'
  BY <1>2, <1>3, <1>4 DEF Types, external, history
<1>6. QueuesInv'
  BY <1>2, <1>3, <1>4, QueuesSets DEF QueuesInv, external, history
<1>7. WorkInv'
  BY <1>2, <1>3, <1>4, WorkSets, HasSets DEF WorkInv, external, history
<1>8. UpdatesInv'
  BY <1>2, <1>3, <1>4, WorkSets DEF UpdatesInv, external, history
<1>9. OpeningInv'
  BY <1>2, <1>3, <1>4, OpeningSets DEF OpeningInv, external, history
<1>10. AnswersInv'
  BY <1>2, <1>3, <1>4 DEF AnswersInv, OpenAnsweredOnce, external, history
<1>11. ListsInv'
  BY <1>2, <1>3, <1>4, OpeningSets DEF ListsInv, external, history
<1>12. KeysInv'
  BY <1>2, <1>3, <1>4, OpeningSets, WorkSets DEF KeysInv, external, history
<1>13. ServedInv'
  BY <1>2, <1>3, <1>4, SettingsSets DEF ServedInv, external, history
<1>14. SettingsInv'
  BY <1>2, <1>3, <1>4, SettingsSets DEF SettingsInv, LibraryWillAgree, DiskWillAgree,
     Final, external, history
<1> QED BY <1>5, <1>6, <1>7, <1>8, <1>9, <1>10, <1>11, <1>12, <1>13, <1>14

\* A key with its password goes to the list.
LEMMA KeyRekeyedIInv == IInv /\ OnRekeyed /\ Ok(Head(libCalls)) => IInv'
<1> SUFFICES ASSUME IInv, OnRekeyed /\ Ok(Head(libCalls)) PROVE IInv'
  OBVIOUS
<1> USE DEF IInv
<1> DEFINE h == Head(libCalls)
           c == New("saveKey", h.settings, h.keys, "nobody")
<1>1. libCalls \in Seq(Call) /\ dbCalls \in Seq(Call)
  BY DEF Types
<1>2. /\ libCalls # <<>> /\ h.what = "rekey" /\ h.said # "pending"
      /\ libCalls' = Tail(libCalls) /\ dbCalls' = Append(dbCalls, c)
      /\ UNCHANGED <<wallet, external, library, disk, history>>
  BY DEF OnRekeyed, Ready, Ok, wallet
<1>3. /\ h \in Call /\ libCalls' \in Seq(Call)
      /\ \A V : Has(libCalls, V) <=> h \in V \/ Has(libCalls', V)
      /\ \A V : One(libCalls, V) <=> One(libCalls', V) /\ (h \in V => ~ Has(libCalls', V))
      /\ \A V, W : Before(libCalls, V, W) <=>
                      /\ Before(libCalls', V, W)
                      /\ h \in W => ~ Has(libCalls', V) /\ h \notin V
      /\ \A V, T : LastIn(libCalls, V, T) <=>
                      /\ LastIn(libCalls', V, T)
                      /\ h \in V => h \in T \/ Has(libCalls', V)
  BY <1>1, <1>2, TailCall
<1>4. h.settings \in Settings /\ h.keys \in SUBSET Keys /\ h.after \in Afters
  BY <1>3 DEF Call
<1>5. /\ c \in Call /\ c.what = "saveKey" /\ c.settings = h.settings /\ c.keys = h.keys
      /\ c.after = "nobody" /\ c.said = "pending"
  BY <1>4, NewCall DEF Afters
<1>6. /\ dbCalls' \in Seq(Call)
      /\ \A V : Has(dbCalls', V) <=> Has(dbCalls, V) \/ c \in V
      /\ \A V : One(dbCalls', V) <=> One(dbCalls, V) /\ (c \in V => ~ Has(dbCalls, V))
      /\ \A V, W : Before(dbCalls', V, W) <=>
                      Before(dbCalls, V, W) /\ (c \in V => ~ Has(dbCalls, W) /\ c \notin W)
      /\ \A V, T : LastIn(dbCalls', V, T) <=>
                      (IF c \in V THEN c \in T ELSE LastIn(dbCalls, V, T))
  BY <1>1, <1>2, <1>5, AppendCall
<1> HIDE DEF h, c
<1>7. work = "saving"
  BY <1>2, <1>3, WorkSets DEF WorkInv
<1>8. Types'
  BY <1>2, <1>3, <1>4, <1>5, <1>6, <1>7 DEF Types, wallet, external, history
<1>9. QueuesInv'
  BY <1>2, <1>3, <1>4, <1>5, <1>6, <1>7, QueuesSets DEF QueuesInv, wallet, external,
     history
<1>10. WorkInv'
  BY <1>2, <1>3, <1>4, <1>5, <1>6, <1>7, WorkSets, HasSets DEF WorkInv, wallet,
     external, history
<1>11. UpdatesInv'
  BY <1>2, <1>3, <1>4, <1>5, <1>6, <1>7, WorkSets DEF UpdatesInv, wallet, external,
     history
<1>12. OpeningInv'
  BY <1>2, <1>3, <1>4, <1>5, <1>6, <1>7, OpeningSets DEF OpeningInv, wallet, external,
     history
<1>13. AnswersInv'
  BY <1>2, <1>3, <1>4, <1>5, <1>6, <1>7, OpeningSets DEF AnswersInv, OpenAnsweredOnce,
     wallet, external, history
<1>14. ListsInv'
  BY <1>2, <1>3, <1>4, <1>5, <1>6, <1>7, OpeningSets DEF ListsInv, wallet, external,
     history
<1>15. KeysInv'
  BY <1>2, <1>3, <1>4, <1>5, <1>6, <1>7, OpeningSets, WorkSets DEF KeysInv, wallet,
     external, history
<1>16. ServedInv'
  BY <1>2, <1>3, <1>4, <1>5, <1>6, <1>7, SettingsSets DEF ServedInv, wallet, external,
     history
<1>17. SettingsInv'
  BY <1>2, <1>3, <1>4, <1>5, <1>6, <1>7, SettingsSets DEF SettingsInv,
     LibraryWillAgree, DiskWillAgree, Final, wallet, external, history
<1> QED BY <1>8, <1>9, <1>10, <1>11, <1>12, <1>13, <1>14, <1>15, <1>16, <1>17

\* A key without it may be saved again.
LEMMA KeyNotRekeyedIInv == IInv /\ OnRekeyed /\ ~ Ok(Head(libCalls)) => IInv'
<1> SUFFICES ASSUME IInv, OnRekeyed /\ ~ Ok(Head(libCalls)) PROVE IInv'
  OBVIOUS
<1> USE DEF IInv
<1> DEFINE h == Head(libCalls)
<1>1. libCalls \in Seq(Call) /\ dbCalls \in Seq(Call)
  BY DEF Types
<1>2. /\ libCalls # <<>> /\ h.what = "rekey"
      /\ libCalls' = Tail(libCalls) /\ work' = "created"
      /\ UNCHANGED <<list, updating, started, switched, external, dbCalls, library,
                     disk, history>>
  BY DEF OnRekeyed, Ready
<1>3. /\ h \in Call /\ libCalls' \in Seq(Call)
      /\ \A V : Has(libCalls, V) <=> h \in V \/ Has(libCalls', V)
      /\ \A V : One(libCalls, V) <=> One(libCalls', V) /\ (h \in V => ~ Has(libCalls', V))
      /\ \A V, W : Before(libCalls, V, W) <=>
                      /\ Before(libCalls', V, W)
                      /\ h \in W => ~ Has(libCalls', V) /\ h \notin V
      /\ \A V, T : LastIn(libCalls, V, T) <=>
                      /\ LastIn(libCalls', V, T)
                      /\ h \in V => h \in T \/ Has(libCalls', V)
  BY <1>1, <1>2, TailCall
<1> HIDE DEF h
<1>4. work = "saving"
  BY <1>2, <1>3, WorkSets DEF WorkInv
<1>5. h \in KeyCalls /\ ~ Has(libCalls', KeyCalls) /\ ~ Has(dbCalls, KeyCalls)
  BY <1>2, <1>3, WorkSets DEF WorkInv
<1>6. /\ ~ Has(libCalls', Creates) /\ ~ Has(libCalls', KeySaves) /\ ~ Has(libCalls', Deletions)
      /\ ~ Has(dbCalls, KeySaves) /\ ~ Has(dbCalls, Deletions)
  BY <1>1, <1>3, <1>5, HasSets
<1>7. Types'
  BY <1>2, <1>3, <1>4, <1>5, <1>6 DEF Types, external, history
<1>8. QueuesInv'
  BY <1>2, <1>3, <1>4, <1>5, <1>6, QueuesSets DEF QueuesInv, external, history
<1>9. WorkInv'
  BY <1>2, <1>3, <1>4, <1>5, <1>6, WorkSets DEF WorkInv, external, history
<1>10. UpdatesInv'
  BY <1>2, <1>3, <1>4, <1>5, <1>6, WorkSets DEF UpdatesInv, external, history
<1>11. OpeningInv'
  BY <1>2, <1>3, <1>4, <1>5, <1>6, OpeningSets DEF OpeningInv, external, history
<1>12. AnswersInv'
  BY <1>2, <1>3, <1>4, <1>5, <1>6 DEF AnswersInv, OpenAnsweredOnce, external, history
<1>13. ListsInv'
  BY <1>2, <1>3, <1>4, <1>5, <1>6, OpeningSets DEF ListsInv, external, history
<1>14. KeysInv'
  BY <1>2, <1>3, <1>4, <1>5, <1>6, OpeningSets, WorkSets DEF KeysInv, external, history
<1>15. ServedInv'
  BY <1>2, <1>3, <1>4, <1>5, <1>6, SettingsSets DEF ServedInv, external, history
<1>16. SettingsInv'
  BY <1>2, <1>3, <1>4, <1>5, <1>6, SettingsSets DEF SettingsInv, LibraryWillAgree,
     DiskWillAgree, Final, external, history
<1> QED BY <1>7, <1>8, <1>9, <1>10, <1>11, <1>12, <1>13, <1>14, <1>15, <1>16

\* The list is saved, or not.
LEMMA OnKeySavedIInv == IInv /\ OnKeySaved => IInv'
<1> SUFFICES ASSUME IInv, OnKeySaved PROVE IInv'
  OBVIOUS
<1> USE DEF IInv
<1> DEFINE h == Head(dbCalls)
<1>1. libCalls \in Seq(Call) /\ dbCalls \in Seq(Call)
  BY DEF Types
<1>2. /\ dbCalls # <<>> /\ h.what = "saveKey" /\ h.said # "pending"
      /\ dbCalls' = Tail(dbCalls)
      /\ \/ h.said = "ok" /\ list' = h.keys /\ work' = "none"
         \/ list' = list /\ work' = "created"
      /\ UNCHANGED <<updating, started, switched, external, libCalls, library, disk,
                     history>>
  BY DEF OnKeySaved, Ready, Ok
<1>3. /\ h \in Call /\ dbCalls' \in Seq(Call)
      /\ \A V : Has(dbCalls, V) <=> h \in V \/ Has(dbCalls', V)
      /\ \A V : One(dbCalls, V) <=> One(dbCalls', V) /\ (h \in V => ~ Has(dbCalls', V))
      /\ \A V, W : Before(dbCalls, V, W) <=>
                      /\ Before(dbCalls', V, W)
                      /\ h \in W => ~ Has(dbCalls', V) /\ h \notin V
      /\ \A V, T : LastIn(dbCalls, V, T) <=>
                      /\ LastIn(dbCalls', V, T)
                      /\ h \in V => h \in T \/ Has(dbCalls', V)
  BY <1>1, <1>2, TailCall
<1>4. h.settings \in Settings /\ h.keys \in SUBSET Keys /\ h.after \in Afters
  BY <1>3 DEF Call
<1> HIDE DEF h
<1>5. work = "saving"
  BY <1>2, <1>3, WorkSets DEF WorkInv
<1>6. h \in KeyCalls /\ ~ Has(libCalls, KeyCalls) /\ ~ Has(dbCalls', KeyCalls)
  BY <1>2, <1>3, WorkSets DEF WorkInv
<1>7. /\ ~ Has(libCalls, Creates) /\ ~ Has(libCalls, KeySaves) /\ ~ Has(libCalls, Deletions)
      /\ ~ Has(dbCalls', KeySaves) /\ ~ Has(dbCalls', Deletions)
      /\ \A listed, keys : ~ Has(libCalls, FalseKeys(settings.net, listed, keys))
      /\ \A listed, keys : ~ Has(dbCalls', FalseKeys(settings.net, listed, keys))
  BY <1>1, <1>3, <1>6, HasSets
<1>8. Types'
  BY <1>2, <1>3, <1>4, <1>5, <1>6, <1>7 DEF Types, external, history
<1>9. QueuesInv'
  BY <1>2, <1>3, <1>4, <1>5, <1>6, <1>7, QueuesSets DEF QueuesInv, external, history
<1>10. WorkInv'
  BY <1>2, <1>3, <1>4, <1>5, <1>6, <1>7, WorkSets DEF WorkInv, external, history
<1>11. UpdatesInv'
  BY <1>2, <1>3, <1>4, <1>5, <1>6, <1>7, WorkSets DEF UpdatesInv, external, history
<1>12. OpeningInv'
  BY <1>2, <1>3, <1>4, <1>5, <1>6, <1>7, OpeningSets DEF OpeningInv, external, history
<1>13. AnswersInv'
  BY <1>2, <1>3, <1>4, <1>5, <1>6, <1>7 DEF AnswersInv, OpenAnsweredOnce, external,
     history
<1>14. ListsInv'
  BY <1>2, <1>3, <1>4, <1>5, <1>6, <1>7, OpeningSets DEF ListsInv, external, history
<1>15. KeysInv'
  BY <1>2, <1>3, <1>4, <1>5, <1>6, <1>7, OpeningSets, WorkSets DEF KeysInv, external,
     history
<1>16. ServedInv'
  BY <1>2, <1>3, <1>4, <1>5, <1>6, <1>7, SettingsSets DEF ServedInv, external, history
<1>17. SettingsInv'
  BY <1>2, <1>3, <1>4, <1>5, <1>6, <1>7, SettingsSets DEF SettingsInv,
     LibraryWillAgree, DiskWillAgree, Final, external, history
<1> QED BY <1>8, <1>9, <1>10, <1>11, <1>12, <1>13, <1>14, <1>15, <1>16, <1>17

\* The files are deleted, and the list is to be emptied.
LEMMA OnAllDeletedIInv == IInv /\ OnAllDeleted => IInv'
<1> SUFFICES ASSUME IInv, OnAllDeleted PROVE IInv'
  OBVIOUS
<1> USE DEF IInv
<1> DEFINE h == Head(libCalls)
           c == New("saveNone", h.settings, {}, h.after)
<1>1. libCalls \in Seq(Call) /\ dbCalls \in Seq(Call)
  BY DEF Types
<1>2. /\ libCalls # <<>> /\ h.what = "deleteAll" /\ h.said # "pending"
      /\ libCalls' = Tail(libCalls) /\ dbCalls' = Append(dbCalls, c)
      /\ UNCHANGED <<wallet, external, library, disk, history>>
  BY DEF OnAllDeleted, Ready, Ok, wallet
<1>3. /\ h \in Call /\ libCalls' \in Seq(Call)
      /\ \A V : Has(libCalls, V) <=> h \in V \/ Has(libCalls', V)
      /\ \A V : One(libCalls, V) <=> One(libCalls', V) /\ (h \in V => ~ Has(libCalls', V))
      /\ \A V, W : Before(libCalls, V, W) <=>
                      /\ Before(libCalls', V, W)
                      /\ h \in W => ~ Has(libCalls', V) /\ h \notin V
      /\ \A V, T : LastIn(libCalls, V, T) <=>
                      /\ LastIn(libCalls', V, T)
                      /\ h \in V => h \in T \/ Has(libCalls', V)
  BY <1>1, <1>2, TailCall
<1>4. h.settings \in Settings /\ h.keys \in SUBSET Keys /\ h.after \in Afters
  BY <1>3 DEF Call
<1>5. /\ c \in Call /\ c.what = "saveNone" /\ c.settings = h.settings /\ c.keys = {}
      /\ c.after = h.after /\ c.said = "pending"
  BY <1>4, NewCall DEF Afters
<1>6. /\ dbCalls' \in Seq(Call)
      /\ \A V : Has(dbCalls', V) <=> Has(dbCalls, V) \/ c \in V
      /\ \A V : One(dbCalls', V) <=> One(dbCalls, V) /\ (c \in V => ~ Has(dbCalls, V))
      /\ \A V, W : Before(dbCalls', V, W) <=>
                      Before(dbCalls, V, W) /\ (c \in V => ~ Has(dbCalls, W) /\ c \notin W)
      /\ \A V, T : LastIn(dbCalls', V, T) <=>
                      (IF c \in V THEN c \in T ELSE LastIn(dbCalls, V, T))
  BY <1>1, <1>2, <1>5, AppendCall
<1> HIDE DEF h, c
<1>7. work = "deleting"
  BY <1>2, <1>3, WorkSets DEF WorkInv
<1>8. Types'
  BY <1>2, <1>3, <1>4, <1>5, <1>6, <1>7 DEF Types, wallet, external, history
<1>9. QueuesInv'
  BY <1>2, <1>3, <1>4, <1>5, <1>6, <1>7, QueuesSets DEF QueuesInv, wallet, external,
     history
<1>10. WorkInv'
  BY <1>2, <1>3, <1>4, <1>5, <1>6, <1>7, WorkSets, HasSets DEF WorkInv, wallet,
     external, history
<1>11. UpdatesInv'
  BY <1>2, <1>3, <1>4, <1>5, <1>6, <1>7, WorkSets DEF UpdatesInv, wallet, external,
     history
<1>12. OpeningInv'
  BY <1>2, <1>3, <1>4, <1>5, <1>6, <1>7, OpeningSets DEF OpeningInv, wallet, external,
     history
<1>13. AnswersInv'
  BY <1>2, <1>3, <1>4, <1>5, <1>6, <1>7, OpeningSets DEF AnswersInv, OpenAnsweredOnce,
     wallet, external, history
<1>14. ListsInv'
  BY <1>2, <1>3, <1>4, <1>5, <1>6, <1>7, OpeningSets DEF ListsInv, wallet, external,
     history
<1>15. KeysInv'
  BY <1>2, <1>3, <1>4, <1>5, <1>6, <1>7, OpeningSets, WorkSets DEF KeysInv, wallet,
     external, history
<1>16. ServedInv'
  BY <1>2, <1>3, <1>4, <1>5, <1>6, <1>7, SettingsSets DEF ServedInv, wallet, external,
     history
<1>17. SettingsInv'
  BY <1>2, <1>3, <1>4, <1>5, <1>6, <1>7, SettingsSets DEF SettingsInv,
     LibraryWillAgree, DiskWillAgree, Final, wallet, external, history
<1> QED BY <1>8, <1>9, <1>10, <1>11, <1>12, <1>13, <1>14, <1>15, <1>16, <1>17

\* A configuration is refused, of an update it is the end.
LEMMA ConfigRejectedIInv == IInv /\ OnConfigRejected /\ Head(libCalls).after # "switch" => IInv'
<1> SUFFICES ASSUME IInv, OnConfigRejected /\ Head(libCalls).after # "switch" PROVE IInv'
  OBVIOUS
<1> USE DEF IInv
<1> DEFINE h == Head(libCalls)
<1>1. libCalls \in Seq(Call) /\ dbCalls \in Seq(Call)
  BY DEF Types
<1>2. /\ libCalls # <<>> /\ h.what = "config" /\ h.said # "pending" /\ h.said # "ok"
      /\ h.after # "switch" /\ libCalls' = Tail(libCalls)
      /\ health' = IF h.after = "start" THEN health ELSE "astray"
      /\ \/ h.after \in {"nobody", "start"} /\ updating' = updating /\ answers' = answers
         \/ /\ h.after \notin {"nobody", "start"} /\ updating' = FALSE
            /\ answers' = IF updating /\ answers = <<>> THEN <<"error">> ELSE answers
      /\ UNCHANGED <<list, work, started, switched, external, dbCalls, library,
                     disk, counts>>
  BY DEF OnConfigRejected, EndsUpdate, Ready, Ok, external, Types
<1>3. /\ h \in Call /\ libCalls' \in Seq(Call)
      /\ \A V : Has(libCalls, V) <=> h \in V \/ Has(libCalls', V)
      /\ \A V : One(libCalls, V) <=> One(libCalls', V) /\ (h \in V => ~ Has(libCalls', V))
      /\ \A V, W : Before(libCalls, V, W) <=>
                      /\ Before(libCalls', V, W)
                      /\ h \in W => ~ Has(libCalls', V) /\ h \notin V
      /\ \A V, T : LastIn(libCalls, V, T) <=>
                      /\ LastIn(libCalls', V, T)
                      /\ h \in V => h \in T \/ Has(libCalls', V)
  BY <1>1, <1>2, TailCall
<1>4. h.after \in Afters
  BY <1>3 DEF Call
<1> HIDE DEF h
<1>5. state = "Opened" /\ Config(h) \notin Valid
  BY <1>2, <1>3, QueuesSets, OpeningSets DEF QueuesInv, OpeningInv
<1>6. h.after \notin {"nobody", "start"} => h \in Updates
  BY <1>3, <1>4, WorkSets DEF Afters
<1>7. Types'
  BY <1>2, <1>3, <1>4, <1>5, <1>6 DEF Types, external
<1>8. QueuesInv'
  BY <1>2, <1>3, <1>4, <1>5, <1>6, QueuesSets DEF QueuesInv, external
<1>9. WorkInv'
  BY <1>2, <1>3, <1>4, <1>5, <1>6, WorkSets DEF WorkInv, external
<1>10. UpdatesInv'
  BY <1>2, <1>3, <1>4, <1>5, <1>6, WorkSets DEF UpdatesInv, external
<1>11. OpeningInv'
  BY <1>2, <1>3, <1>4, <1>5, <1>6, OpeningSets DEF OpeningInv, external
<1>12. AnswersInv'
  <2>1. CASE h.after \in {"nobody", "start"}
    BY <1>2, <1>3, <2>1 DEF AnswersInv, OpenAnsweredOnce, external
  <2>2. CASE h.after \notin {"nobody", "start"}
    <3>1. updating /\ ~ updating'
      BY <1>2, <1>3, <1>6, <2>2 DEF UpdatesInv
    <3>2. answers' = IF answers = <<>> THEN <<"error">> ELSE answers
      BY <1>2, <2>2, <3>1
    <3> QED BY <1>2, <1>5, <3>1, <3>2 DEF AnswersInv, OpenAnsweredOnce, external
  <2> QED BY <2>1, <2>2
<1>13. ListsInv'
  BY <1>2, <1>3, <1>4, <1>5, <1>6, OpeningSets DEF ListsInv, external
<1>14. KeysInv'
  BY <1>2, <1>3, <1>4, <1>5, <1>6, OpeningSets, WorkSets DEF KeysInv, external
<1>15. ServedInv'
  BY <1>2, <1>3, <1>4, <1>5, <1>6, SettingsSets DEF ServedInv, external
<1>16. SettingsInv'
  BY <1>2, <1>3, <1>4, <1>5, <1>6, SettingsSets DEF SettingsInv, LibraryWillAgree,
     DiskWillAgree, Final, external
<1> QED BY <1>7, <1>8, <1>9, <1>10, <1>11, <1>12, <1>13, <1>14, <1>15, <1>16

\* The other network is refused: the settings go back.
LEMMA SwitchRefusedIInv == IInv /\ OnConfigRejected /\ Head(libCalls).after = "switch" => IInv'
<1> SUFFICES ASSUME IInv, OnConfigRejected /\ Head(libCalls).after = "switch" PROVE IInv'
  OBVIOUS
<1> USE DEF IInv
<1> DEFINE h == Head(libCalls)
<1>1. libCalls \in Seq(Call) /\ dbCalls \in Seq(Call)
  BY DEF Types
<1>2. /\ libCalls # <<>> /\ h.what = "config" /\ h.said # "pending" /\ h.said # "ok"
      /\ h.after = "switch" /\ libCalls' = Tail(libCalls)
      /\ settings' = Flipped(settings) /\ updating' = FALSE
      /\ answers' = IF updating /\ answers = <<>> THEN <<"error">> ELSE answers
      /\ UNCHANGED <<list, work, started, switched, state, upgrade, future, dbCalls,
                     library, disk, health, counts>>
  BY DEF OnConfigRejected, EndsUpdate, Ready, Ok, Types
<1>3. /\ h \in Call /\ libCalls' \in Seq(Call)
      /\ \A V : Has(libCalls, V) <=> h \in V \/ Has(libCalls', V)
      /\ \A V : One(libCalls, V) <=> One(libCalls', V) /\ (h \in V => ~ Has(libCalls', V))
      /\ \A V, W : Before(libCalls, V, W) <=>
                      /\ Before(libCalls', V, W)
                      /\ h \in W => ~ Has(libCalls', V) /\ h \notin V
      /\ \A V, T : LastIn(libCalls, V, T) <=>
                      /\ LastIn(libCalls', V, T)
                      /\ h \in V => h \in T \/ Has(libCalls', V)
  BY <1>1, <1>2, TailCall
<1> HIDE DEF h
<1>4. settings' \in Settings
  BY <1>2, SettingsTypes DEF Types
<1>5. state = "Opened" /\ Config(h) \notin Valid
  BY <1>2, <1>3, QueuesSets, OpeningSets DEF QueuesInv, OpeningInv
<1>6. updating /\ h \in Updates /\ h \in Switches /\ h \in GoesBack
  BY <1>2, <1>3, <1>5, WorkSets, SettingsSets DEF UpdatesInv
<1>7. /\ ~ Has(libCalls', Switches) /\ ~ Has(libCalls', GoesBack)
      /\ \A s : ~ Has(libCalls', OtherSwitches(s))
  BY <1>3, <1>6, HasSets DEF UpdatesInv
<1>8. /\ ~ Has(libCalls, Inits) /\ ~ Has(dbCalls, Opens) /\ ~ Has(dbCalls, Lists)
      /\ \A net, keys : ~ Has(dbCalls, FalseLists(net, keys))
  BY <1>1, <1>5, <1>6, OnlyOpening, HasSets DEF AnswersInv
<1>9. Types'
  BY <1>2, <1>3, <1>4, <1>5, <1>6, <1>7, <1>8 DEF Types
<1>10. QueuesInv'
  BY <1>2, <1>3, <1>4, <1>5, <1>6, <1>7, <1>8, QueuesSets DEF QueuesInv
<1>11. WorkInv'
  BY <1>2, <1>3, <1>4, <1>5, <1>6, <1>7, <1>8, WorkSets DEF WorkInv
<1>12. UpdatesInv'
  BY <1>2, <1>3, <1>4, <1>5, <1>6, <1>7, <1>8, WorkSets DEF UpdatesInv
<1>13. OpeningInv'
  BY <1>2, <1>3, <1>4, <1>5, <1>6, <1>7, <1>8, OpeningSets DEF OpeningInv
<1>14. AnswersInv'
  BY <1>2, <1>3, <1>4, <1>5, <1>6, <1>7, <1>8 DEF AnswersInv, OpenAnsweredOnce
<1>15. ListsInv'
  BY <1>2, <1>3, <1>4, <1>5, <1>6, <1>7, <1>8, OpeningSets DEF ListsInv
<1>16. KeysInv'
  <2> SUFFICES ASSUME health # "astray" PROVE KeysInv'
    BY <1>2 DEF KeysInv
  <2>1. list = {} /\ work # "saving"
    BY <1>3, <1>6 DEF KeysInv
  <2>2. ~ Has(libCalls, KeySaves) /\ ~ Has(dbCalls, KeySaves)
    BY <2>1 DEF WorkInv
  <2>3. ~ Has(libCalls', KeySaves)
    BY <1>3, <2>2
  <2>4. /\ \A net, listed, keys : ~ Has(libCalls', FalseKeys(net, listed, keys))
        /\ \A net, listed, keys : ~ Has(dbCalls, FalseKeys(net, listed, keys))
    BY <1>1, <1>3, <2>2, <2>3, HasSets
  <2> QED BY <1>2, <1>3, <1>7, <2>1, <2>4 DEF KeysInv
<1>17. ServedInv'
  BY <1>2, <1>3, <1>4, <1>5, <1>6, <1>7, <1>8, SettingsSets DEF ServedInv
<1>18. SettingsInv'
  BY <1>2, <1>3, <1>4, <1>5, <1>6, <1>7, <1>8, SettingsSets DEF SettingsInv,
     LibraryWillAgree, DiskWillAgree, Final
<1> QED BY <1>9, <1>10, <1>11, <1>12, <1>13, <1>14, <1>15, <1>16, <1>17, <1>18

\* The library has the configuration that start has given to it.
LEMMA StartedIInv == IInv /\ OnConfigSet /\ Head(libCalls).after = "start" => IInv'
<1> SUFFICES ASSUME IInv, OnConfigSet /\ Head(libCalls).after = "start" PROVE IInv'
  OBVIOUS
<1> USE DEF IInv
<1> DEFINE h == Head(libCalls)
<1>1. libCalls \in Seq(Call) /\ dbCalls \in Seq(Call)
  BY DEF Types
<1>2. /\ libCalls # <<>> /\ h.what = "config" /\ h.said = "ok" /\ h.after = "start"
      /\ libCalls' = Tail(libCalls) /\ started' = TRUE
      /\ UNCHANGED <<list, work, updating, switched, external, dbCalls, library, disk,
                     history>>
  BY DEF OnConfigSet, Ready, Ok
<1>3. /\ h \in Call /\ libCalls' \in Seq(Call)
      /\ \A V : Has(libCalls, V) <=> h \in V \/ Has(libCalls', V)
      /\ \A V : One(libCalls, V) <=> One(libCalls', V) /\ (h \in V => ~ Has(libCalls', V))
      /\ \A V, W : Before(libCalls, V, W) <=>
                      /\ Before(libCalls', V, W)
                      /\ h \in W => ~ Has(libCalls', V) /\ h \notin V
      /\ \A V, T : LastIn(libCalls, V, T) <=>
                      /\ LastIn(libCalls', V, T)
                      /\ h \in V => h \in T \/ Has(libCalls', V)
  BY <1>1, <1>2, TailCall
<1> HIDE DEF h
<1>4. /\ h \in Accepted /\ h \in Accepts /\ h \notin GoesBack /\ h \notin Refuses
      /\ library # NoConfig /\ state = "Opened"
  BY <1>2, <1>3, QueuesSets, OpeningSets, SettingsSets
     DEF QueuesInv, ServedInv, OpeningInv
<1>5. ~ Has(libCalls', Accepts) => Config(h) = library
  BY <1>3, <1>4, HasSets, SettingsSets DEF QueuesInv, ServedInv
<1>6. Types'
  BY <1>2, <1>3, <1>4, <1>5 DEF Types, external, history
<1>7. QueuesInv'
  BY <1>2, <1>3, <1>4, <1>5, QueuesSets DEF QueuesInv, external, history
<1>8. WorkInv'
  BY <1>2, <1>3, <1>4, <1>5, WorkSets DEF WorkInv, external, history
<1>9. UpdatesInv'
  BY <1>2, <1>3, <1>4, <1>5, WorkSets DEF UpdatesInv, external, history
<1>10. OpeningInv'
  BY <1>2, <1>3, <1>4, <1>5, OpeningSets DEF OpeningInv, external, history
<1>11. AnswersInv'
  BY <1>2, <1>3, <1>4, <1>5 DEF AnswersInv, OpenAnsweredOnce, external, history
<1>12. ListsInv'
  BY <1>2, <1>3, <1>4, <1>5, OpeningSets DEF ListsInv, external, history
<1>13. KeysInv'
  BY <1>2, <1>3, <1>4, <1>5, OpeningSets, WorkSets DEF KeysInv, external, history
<1>14. ServedInv'
  BY <1>2, <1>3, <1>4, <1>5, SettingsSets DEF ServedInv, external, history
<1>15. SettingsInv'
  <2>1. Final' = Final
    BY <1>2, <1>3, <1>4 DEF Final, external
  <2>2. h \notin WillSave
    BY <1>2, <1>3, SettingsSets
  <2>3. LibraryWillAgree => LibraryWillAgree'
    BY <1>2, <1>3, <1>4, <1>5, <2>1, SettingsSets DEF LibraryWillAgree
  <2>4. DiskWillAgree => DiskWillAgree'
    BY <1>2, <1>3, <2>1, <2>2 DEF DiskWillAgree
  <2> QED BY <1>2, <1>3, <1>4, <2>3, <2>4 DEF SettingsInv, history
<1> QED BY <1>6, <1>7, <1>8, <1>9, <1>10, <1>11, <1>12, <1>13, <1>14, <1>15

\* The library has it, and it is to be saved.
LEMMA ConfigSetIInv == IInv /\ OnConfigSet /\ Head(libCalls).after # "start" => IInv'
<1> SUFFICES ASSUME IInv, OnConfigSet /\ Head(libCalls).after # "start" PROVE IInv'
  OBVIOUS
<1> USE DEF IInv
<1> DEFINE h == Head(libCalls)
           c == New("settings", h.settings, {}, h.after)
<1>1. libCalls \in Seq(Call) /\ dbCalls \in Seq(Call)
  BY DEF Types
<1>2. /\ libCalls # <<>> /\ h.what = "config" /\ h.said = "ok" /\ h.after # "start"
      /\ libCalls' = Tail(libCalls) /\ dbCalls' = Append(dbCalls, c) /\ started' = started
      /\ UNCHANGED <<list, work, updating, switched, external, library, disk, history>>
  BY DEF OnConfigSet, Ready, Ok, Types
<1>3. /\ h \in Call /\ libCalls' \in Seq(Call)
      /\ \A V : Has(libCalls, V) <=> h \in V \/ Has(libCalls', V)
      /\ \A V : One(libCalls, V) <=> One(libCalls', V) /\ (h \in V => ~ Has(libCalls', V))
      /\ \A V, W : Before(libCalls, V, W) <=>
                      /\ Before(libCalls', V, W)
                      /\ h \in W => ~ Has(libCalls', V) /\ h \notin V
      /\ \A V, T : LastIn(libCalls, V, T) <=>
                      /\ LastIn(libCalls', V, T)
                      /\ h \in V => h \in T \/ Has(libCalls', V)
  BY <1>1, <1>2, TailCall
<1>4. h.settings \in Settings /\ h.keys \in SUBSET Keys /\ h.after \in Afters
  BY <1>3 DEF Call
<1>5. /\ c \in Call /\ c.what = "settings" /\ c.settings = h.settings /\ c.keys = {}
      /\ c.after = h.after /\ c.said = "pending"
  BY <1>4, NewCall
<1>6. /\ dbCalls' \in Seq(Call)
      /\ \A V : Has(dbCalls', V) <=> Has(dbCalls, V) \/ c \in V
      /\ \A V : One(dbCalls', V) <=> One(dbCalls, V) /\ (c \in V => ~ Has(dbCalls, V))
      /\ \A V, W : Before(dbCalls', V, W) <=>
                      Before(dbCalls, V, W) /\ (c \in V => ~ Has(dbCalls, W) /\ c \notin W)
      /\ \A V, T : LastIn(dbCalls', V, T) <=>
                      (IF c \in V THEN c \in T ELSE LastIn(dbCalls, V, T))
  BY <1>1, <1>2, <1>5, AppendCall
<1> HIDE DEF h, c
<1>7. /\ h \in Accepted /\ h \in Accepts /\ h \notin GoesBack /\ h \notin Refuses
      /\ library # NoConfig /\ state = "Opened"
  BY <1>2, <1>3, QueuesSets, OpeningSets, SettingsSets
     DEF QueuesInv, ServedInv, OpeningInv
<1>8. ~ Has(libCalls', Accepts) => Config(h) = library
  BY <1>3, <1>7, HasSets, SettingsSets DEF QueuesInv, ServedInv
<1>9. Types'
  BY <1>2, <1>3, <1>4, <1>5, <1>6, <1>7, <1>8 DEF Types, external, history
<1>10. QueuesInv'
  BY <1>2, <1>3, <1>4, <1>5, <1>6, <1>7, <1>8, QueuesSets DEF QueuesInv, external,
     history
<1>11. WorkInv'
  BY <1>2, <1>3, <1>4, <1>5, <1>6, <1>7, <1>8, WorkSets DEF WorkInv, external, history
<1>12. UpdatesInv'
  BY <1>2, <1>3, <1>4, <1>5, <1>6, <1>7, <1>8, WorkSets DEF UpdatesInv, external,
     history
<1>13. OpeningInv'
  BY <1>2, <1>3, <1>4, <1>5, <1>6, <1>7, <1>8, OpeningSets DEF OpeningInv, external,
     history
<1>14. AnswersInv'
  BY <1>2, <1>3, <1>4, <1>5, <1>6, <1>7, <1>8, OpeningSets DEF AnswersInv,
     OpenAnsweredOnce, external, history
<1>15. ListsInv'
  BY <1>2, <1>3, <1>4, <1>5, <1>6, <1>7, <1>8, OpeningSets DEF ListsInv, external,
     history
<1>16. KeysInv'
  BY <1>2, <1>3, <1>4, <1>5, <1>6, <1>7, <1>8, OpeningSets, WorkSets DEF KeysInv,
     external, history
<1>17. ServedInv'
  BY <1>2, <1>3, <1>4, <1>5, <1>6, <1>7, <1>8, SettingsSets DEF ServedInv, external,
     history
<1>18. SettingsInv'
  <2>1. Final' = Final
    BY <1>2, <1>3, <1>7 DEF Final, external
  <2>2. /\ h \in WillSave /\ c \in Saves /\ c \notin Unsaved
        /\ \A s : h \in For(s) <=> c \in For(s)
    BY <1>2, <1>3, <1>5, <1>7, SettingsSets
  <2>3. LibraryWillAgree => LibraryWillAgree'
    BY <1>2, <1>3, <1>7, <1>8, <2>1, SettingsSets DEF LibraryWillAgree
  <2>4. DiskWillAgree => DiskWillAgree'
    BY <1>3, <1>6, <2>1, <2>2 DEF DiskWillAgree
  <2> QED BY <1>2, <1>3, <1>6, <1>7, <2>2, <2>3, <2>4 DEF SettingsInv, history
<1> QED BY <1>9, <1>10, <1>11, <1>12, <1>13, <1>14, <1>15, <1>16, <1>17, <1>18

\* Settings are saved, and an update ends with it.
LEMMA SettingsSavedIInv == IInv /\ OnSettingsSaved /\ Head(dbCalls).after # "deletion" => IInv'
<1> SUFFICES ASSUME IInv, OnSettingsSaved /\ Head(dbCalls).after # "deletion" PROVE IInv'
  OBVIOUS
<1> USE DEF IInv
<1> DEFINE h == Head(dbCalls)
<1>1. libCalls \in Seq(Call) /\ dbCalls \in Seq(Call)
  BY DEF Types
<1>2. /\ dbCalls # <<>> /\ h.what = "settings" /\ h.said = "ok" /\ h.after # "deletion"
      /\ dbCalls' = Tail(dbCalls)
      /\ \/ h.after = "nobody" /\ updating' = updating /\ answers' = answers
         \/ /\ h.after # "nobody" /\ updating' = FALSE
            /\ answers' = IF updating /\ answers = <<>> THEN <<"ok">> ELSE answers
      /\ UNCHANGED <<work, libCalls, list, started, switched, external, library, disk,
                     health, counts>>
  BY DEF OnSettingsSaved, EndsUpdate, Ready, Ok, Types, external
<1>3. /\ h \in Call /\ dbCalls' \in Seq(Call)
      /\ \A V : Has(dbCalls, V) <=> h \in V \/ Has(dbCalls', V)
      /\ \A V : One(dbCalls, V) <=> One(dbCalls', V) /\ (h \in V => ~ Has(dbCalls', V))
      /\ \A V, W : Before(dbCalls, V, W) <=>
                      /\ Before(dbCalls', V, W)
                      /\ h \in W => ~ Has(dbCalls', V) /\ h \notin V
      /\ \A V, T : LastIn(dbCalls, V, T) <=>
                      /\ LastIn(dbCalls', V, T)
                      /\ h \in V => h \in T \/ Has(dbCalls', V)
  BY <1>1, <1>2, TailCall
<1>4. h.settings \in Settings /\ h.keys \in SUBSET Keys /\ h.after \in Afters
  BY <1>3 DEF Call
<1> HIDE DEF h
<1>5. /\ state = "Opened" /\ h \in Saves /\ h \in Saved /\ h.after # "start"
  BY <1>2, <1>3, QueuesSets, OpeningSets, SettingsSets
     DEF QueuesInv, OpeningInv
<1>6. ~ Has(dbCalls', Saves) => h.settings = disk.settings
  BY <1>3, <1>5, HasSets, SettingsSets DEF ServedInv
<1>7. h.after # "nobody" => h \in Updates /\ updating
  BY <1>2, <1>3, <1>4, <1>5, WorkSets DEF UpdatesInv, Afters
<1>8. Types'
  BY <1>2, <1>3, <1>4, <1>5, <1>6, <1>7 DEF Types, external
<1>9. QueuesInv'
  BY <1>2, <1>3, <1>4, <1>5, <1>6, <1>7, QueuesSets DEF QueuesInv, external
<1>10. WorkInv'
  BY <1>2, <1>3, <1>4, <1>5, <1>6, <1>7, WorkSets DEF WorkInv, external
<1>11. UpdatesInv'
  BY <1>2, <1>3, <1>4, <1>5, <1>6, <1>7, WorkSets DEF UpdatesInv, external
<1>12. OpeningInv'
  BY <1>2, <1>3, <1>4, <1>5, <1>6, <1>7, OpeningSets DEF OpeningInv, external
<1>13. AnswersInv'
  <2>1. CASE h.after = "nobody"
    BY <1>2, <1>3, <2>1 DEF AnswersInv, OpenAnsweredOnce, external
  <2>2. CASE h.after # "nobody"
    <3>1. updating /\ ~ updating'
      BY <1>2, <1>7, <2>2
    <3>2. answers' = IF answers = <<>> THEN <<"ok">> ELSE answers
      BY <1>2, <2>2, <3>1
    <3> QED BY <1>2, <1>3, <1>5, <3>1, <3>2 DEF AnswersInv, OpenAnsweredOnce, external
  <2> QED BY <2>1, <2>2
<1>14. ListsInv'
  BY <1>2, <1>3, <1>4, <1>5, <1>6, <1>7, OpeningSets DEF ListsInv, external
<1>15. KeysInv'
  BY <1>2, <1>3, <1>4, <1>5, <1>6, <1>7, OpeningSets, WorkSets DEF KeysInv, external
<1>16. ServedInv'
  BY <1>2, <1>3, <1>4, <1>5, <1>6, <1>7, SettingsSets DEF ServedInv, external
<1>17. SettingsInv'
  <2>1. Final' = Final
    BY <1>2 DEF Final, external
  <2>2. LibraryWillAgree => LibraryWillAgree'
    BY <1>2, <2>1 DEF LibraryWillAgree
  <2>3. DiskWillAgree => DiskWillAgree'
    BY <1>2, <1>3, <1>5, <1>6, <2>1, SettingsSets DEF DiskWillAgree
  <2>4. h \notin Unsaved
    BY <1>2, <1>3, SettingsSets
  <2> QED BY <1>2, <1>3, <2>2, <2>3, <2>4 DEF SettingsInv
<1> QED BY <1>8, <1>9, <1>10, <1>11, <1>12, <1>13, <1>14, <1>15, <1>16, <1>17

\* Settings are saved with the old network, and all keys are to be deleted.
LEMMA DeletionStartsIInv == IInv /\ OnSettingsSaved /\ Head(dbCalls).after = "deletion" => IInv'
<1> SUFFICES ASSUME IInv, OnSettingsSaved /\ Head(dbCalls).after = "deletion" PROVE IInv'
  OBVIOUS
<1> USE DEF IInv
<1> DEFINE h == Head(dbCalls)
           c == New("deleteAll", settings, {}, "switch")
<1>1. libCalls \in Seq(Call) /\ dbCalls \in Seq(Call)
  BY DEF Types
<1>2. /\ dbCalls # <<>> /\ h.what = "settings" /\ h.said = "ok" /\ h.after = "deletion"
      /\ dbCalls' = Tail(dbCalls) /\ libCalls' = Append(libCalls, c)
      /\ work = "none" /\ work' = "deleting"
      /\ UNCHANGED <<updating, answers, list, started, switched, external, library, disk,
                     health, counts>>
  BY DEF OnSettingsSaved, DeleteAll, Ready, Ok, external
<1>3. /\ c \in Call /\ c.what = "deleteAll" /\ c.settings = settings /\ c.keys = {}
      /\ c.after = "switch" /\ c.said = "pending"
  BY NewCall DEF Types, Afters
<1>4. /\ libCalls' \in Seq(Call)
      /\ \A V : Has(libCalls', V) <=> Has(libCalls, V) \/ c \in V
      /\ \A V : One(libCalls', V) <=> One(libCalls, V) /\ (c \in V => ~ Has(libCalls, V))
      /\ \A V, W : Before(libCalls', V, W) <=>
                      Before(libCalls, V, W) /\ (c \in V => ~ Has(libCalls, W) /\ c \notin W)
      /\ \A V, T : LastIn(libCalls', V, T) <=>
                      (IF c \in V THEN c \in T ELSE LastIn(libCalls, V, T))
  BY <1>1, <1>2, <1>3, AppendCall
<1>5. /\ h \in Call /\ dbCalls' \in Seq(Call)
      /\ \A V : Has(dbCalls, V) <=> h \in V \/ Has(dbCalls', V)
      /\ \A V : One(dbCalls, V) <=> One(dbCalls', V) /\ (h \in V => ~ Has(dbCalls', V))
      /\ \A V, W : Before(dbCalls, V, W) <=>
                      /\ Before(dbCalls', V, W)
                      /\ h \in W => ~ Has(dbCalls', V) /\ h \notin V
      /\ \A V, T : LastIn(dbCalls, V, T) <=>
                      /\ LastIn(dbCalls', V, T)
                      /\ h \in V => h \in T \/ Has(dbCalls', V)
  BY <1>1, <1>2, TailCall
<1>6. h.settings \in Settings /\ h.keys \in SUBSET Keys /\ h.after \in Afters
  BY <1>5 DEF Call
<1> HIDE DEF h, c
<1>7. /\ state = "Opened" /\ h \in Saves /\ h \in Saved /\ h.after # "start"
  BY <1>2, <1>5, QueuesSets, OpeningSets, SettingsSets
     DEF QueuesInv, OpeningInv
<1>8. ~ Has(dbCalls', Saves) => h.settings = disk.settings
  BY <1>5, <1>7, HasSets, SettingsSets DEF ServedInv
<1>9. h.after # "nobody" => h \in Updates /\ updating
  BY <1>2, <1>5, <1>6, <1>7, WorkSets DEF UpdatesInv, Afters
<1>10. Types'
  BY <1>2, <1>3, <1>4, <1>5, <1>6, <1>7, <1>8, <1>9 DEF Types, external
<1>11. QueuesInv'
  BY <1>2, <1>3, <1>4, <1>5, <1>6, <1>7, <1>8, <1>9, QueuesSets DEF QueuesInv, external
<1>12. WorkInv'
  BY <1>2, <1>3, <1>4, <1>5, <1>6, <1>7, <1>8, <1>9, WorkSets, NoKeyCalls DEF WorkInv,
     external
<1>13. UpdatesInv'
  BY <1>2, <1>3, <1>4, <1>5, <1>6, <1>7, <1>8, <1>9, WorkSets DEF UpdatesInv, external
<1>14. OpeningInv'
  BY <1>2, <1>3, <1>4, <1>5, <1>6, <1>7, <1>8, <1>9, OpeningSets DEF OpeningInv,
     external
<1>15. AnswersInv'
  BY <1>2, <1>3, <1>4, <1>5, <1>6, <1>7, <1>8, <1>9 DEF AnswersInv, OpenAnsweredOnce,
     external
<1>16. ListsInv'
  BY <1>2, <1>3, <1>4, <1>5, <1>6, <1>7, <1>8, <1>9, OpeningSets DEF ListsInv, external
<1>17. KeysInv'
  BY <1>2, <1>3, <1>4, <1>5, <1>6, <1>7, <1>8, <1>9, OpeningSets, WorkSets, NoKeyCalls
     DEF KeysInv, external
<1>18. ServedInv'
  BY <1>2, <1>3, <1>4, <1>5, <1>6, <1>7, <1>8, <1>9, SettingsSets DEF ServedInv,
     external
<1>19. SettingsInv'
  <2>1. Final' = Final
    BY <1>2, <1>3, <1>4, SettingsSets DEF Final, external
  <2>2. LibraryWillAgree => LibraryWillAgree'
    BY <1>2, <1>3, <1>4, <2>1, SettingsSets DEF LibraryWillAgree
  <2>3. c \notin WillSave /\ c \notin Refuses
    BY <1>3, SettingsSets
  <2>4. DiskWillAgree => DiskWillAgree'
    BY <1>2, <1>4, <1>5, <1>7, <1>8, <2>1, <2>3, SettingsSets DEF DiskWillAgree
  <2>5. h \notin Unsaved
    BY <1>2, <1>5, SettingsSets
  <2> QED BY <1>2, <1>4, <1>5, <2>2, <2>3, <2>4, <2>5 DEF SettingsInv
<1> QED BY <1>10, <1>11, <1>12, <1>13, <1>14, <1>15, <1>16, <1>17, <1>18, <1>19

\* Settings cannot be saved, an update ends with it.
LEMMA SettingsNotSavedIInv == IInv /\ OnSettingsNotSaved /\ Head(dbCalls).after # "switch" => IInv'
<1> SUFFICES ASSUME IInv, OnSettingsNotSaved /\ Head(dbCalls).after # "switch" PROVE IInv'
  OBVIOUS
<1> USE DEF IInv
<1> DEFINE h == Head(dbCalls)
<1>1. libCalls \in Seq(Call) /\ dbCalls \in Seq(Call)
  BY DEF Types
<1>2. /\ dbCalls # <<>> /\ h.what = "settings" /\ h.said # "pending"
      /\ dbCalls' = Tail(dbCalls) /\ health' = "astray"
      /\ \/ h.after = "nobody" /\ updating' = updating /\ answers' = answers
         \/ /\ h.after # "nobody" /\ updating' = FALSE
            /\ answers' = IF updating /\ answers = <<>> THEN <<"error">> ELSE answers
      /\ UNCHANGED <<list, work, started, switched, external, libCalls, library,
                     disk, counts>>
  BY DEF OnSettingsNotSaved, EndsUpdate, Ready, Types, external
<1>3. /\ h \in Call /\ dbCalls' \in Seq(Call)
      /\ \A V : Has(dbCalls, V) <=> h \in V \/ Has(dbCalls', V)
      /\ \A V : One(dbCalls, V) <=> One(dbCalls', V) /\ (h \in V => ~ Has(dbCalls', V))
      /\ \A V, W : Before(dbCalls, V, W) <=>
                      /\ Before(dbCalls', V, W)
                      /\ h \in W => ~ Has(dbCalls', V) /\ h \notin V
      /\ \A V, T : LastIn(dbCalls, V, T) <=>
                      /\ LastIn(dbCalls', V, T)
                      /\ h \in V => h \in T \/ Has(dbCalls', V)
  BY <1>1, <1>2, TailCall
<1>4. h.settings \in Settings /\ h.keys \in SUBSET Keys /\ h.after \in Afters
  BY <1>3 DEF Call
<1> HIDE DEF h
<1>5. /\ state = "Opened" /\ h.after # "start"
  BY <1>2, <1>3, QueuesSets, OpeningSets DEF QueuesInv, OpeningInv
<1>6. h.after # "nobody" => h \in Updates /\ updating
  BY <1>2, <1>3, <1>4, <1>5, WorkSets DEF UpdatesInv, Afters
<1>7. Types'
  BY <1>2, <1>3, <1>4, <1>5, <1>6 DEF Types, external
<1>8. QueuesInv'
  BY <1>2, <1>3, <1>4, <1>5, <1>6, QueuesSets DEF QueuesInv, external
<1>9. WorkInv'
  BY <1>2, <1>3, <1>4, <1>5, <1>6, WorkSets DEF WorkInv, external
<1>10. UpdatesInv'
  BY <1>2, <1>3, <1>4, <1>5, <1>6, WorkSets DEF UpdatesInv, external
<1>11. OpeningInv'
  BY <1>2, <1>3, <1>4, <1>5, <1>6, OpeningSets DEF OpeningInv, external
<1>12. AnswersInv'
  <2>1. CASE h.after = "nobody"
    BY <1>2, <1>3, <2>1 DEF AnswersInv, OpenAnsweredOnce, external
  <2>2. CASE h.after # "nobody"
    <3>1. updating /\ ~ updating'
      BY <1>2, <1>6, <2>2
    <3>2. answers' = IF answers = <<>> THEN <<"error">> ELSE answers
      BY <1>2, <2>2, <3>1
    <3> QED BY <1>2, <1>3, <1>5, <3>1, <3>2 DEF AnswersInv, OpenAnsweredOnce, external
  <2> QED BY <2>1, <2>2
<1>13. ListsInv'
  BY <1>2, <1>3, <1>4, <1>5, <1>6, OpeningSets DEF ListsInv, external
<1>14. KeysInv'
  BY <1>2, <1>3, <1>4, <1>5, <1>6, OpeningSets, WorkSets DEF KeysInv, external
<1>15. ServedInv'
  BY <1>2, <1>3, <1>4, <1>5, <1>6, SettingsSets DEF ServedInv, external
<1>16. SettingsInv'
  BY <1>2, <1>3, <1>4, <1>5, <1>6, SettingsSets DEF SettingsInv, LibraryWillAgree,
     DiskWillAgree, Final, external
<1> QED BY <1>7, <1>8, <1>9, <1>10, <1>11, <1>12, <1>13, <1>14, <1>15, <1>16

\* The other network cannot be saved: the settings go back.
LEMMA SwitchNotSavedIInv == IInv /\ OnSettingsNotSaved /\ Head(dbCalls).after = "switch" => IInv'
<1> SUFFICES ASSUME IInv, OnSettingsNotSaved /\ Head(dbCalls).after = "switch" PROVE IInv'
  OBVIOUS
<1> USE DEF IInv
<1> DEFINE h == Head(dbCalls)
<1>1. libCalls \in Seq(Call) /\ dbCalls \in Seq(Call)
  BY DEF Types
<1>2. /\ dbCalls # <<>> /\ h.what = "settings" /\ h.said # "pending"
      /\ dbCalls' = Tail(dbCalls) /\ health' = "astray"
      /\ h.after = "switch" /\ settings' = Flipped(settings) /\ updating' = FALSE
      /\ answers' = IF updating /\ answers = <<>> THEN <<"error">> ELSE answers
      /\ UNCHANGED <<list, work, started, switched, state, upgrade, future, libCalls,
                     library, disk, counts>>
  BY DEF OnSettingsNotSaved, EndsUpdate, Ready, Types
<1>3. /\ h \in Call /\ dbCalls' \in Seq(Call)
      /\ \A V : Has(dbCalls, V) <=> h \in V \/ Has(dbCalls', V)
      /\ \A V : One(dbCalls, V) <=> One(dbCalls', V) /\ (h \in V => ~ Has(dbCalls', V))
      /\ \A V, W : Before(dbCalls, V, W) <=>
                      /\ Before(dbCalls', V, W)
                      /\ h \in W => ~ Has(dbCalls', V) /\ h \notin V
      /\ \A V, T : LastIn(dbCalls, V, T) <=>
                      /\ LastIn(dbCalls', V, T)
                      /\ h \in V => h \in T \/ Has(dbCalls', V)
  BY <1>1, <1>2, TailCall
<1>4. h.settings \in Settings /\ h.keys \in SUBSET Keys /\ h.after \in Afters
  BY <1>3 DEF Call
<1> HIDE DEF h
<1>5. settings' \in Settings
  BY <1>2, SettingsTypes DEF Types
<1>6. /\ state = "Opened" /\ h.after # "start"
  BY <1>2, <1>3, QueuesSets, OpeningSets DEF QueuesInv, OpeningInv
<1>7. h.after # "nobody" => h \in Updates /\ updating
  BY <1>2, <1>3, <1>4, <1>6, WorkSets DEF UpdatesInv, Afters
<1>8. ~ Has(libCalls, Updates) /\ ~ Has(dbCalls', Updates)
  BY <1>2, <1>3, <1>7 DEF UpdatesInv
<1>9. \A s : ~ Has(libCalls, OtherSwitches(s))
  BY <1>1, <1>8, HasSets
<1>10. /\ ~ Has(libCalls, Inits) /\ ~ Has(dbCalls', Lists)
       /\ \A net, keys : ~ Has(dbCalls', FalseLists(net, keys))
  BY <1>1, <1>2, <1>3, <1>6, <1>7, OnlyOpening, HasSets DEF AnswersInv
<1>11. Types'
  BY <1>2, <1>3, <1>4, <1>5, <1>6, <1>7, <1>8, <1>9, <1>10 DEF Types
<1>12. QueuesInv'
  BY <1>2, <1>3, <1>4, <1>5, <1>6, <1>7, <1>8, <1>9, <1>10, QueuesSets DEF QueuesInv
<1>13. WorkInv'
  BY <1>2, <1>3, <1>4, <1>5, <1>6, <1>7, <1>8, <1>9, <1>10, WorkSets DEF WorkInv
<1>14. UpdatesInv'
  BY <1>2, <1>3, <1>4, <1>5, <1>6, <1>7, <1>8, <1>9, <1>10, WorkSets DEF UpdatesInv
<1>15. OpeningInv'
  BY <1>2, <1>3, <1>4, <1>5, <1>6, <1>7, <1>8, <1>9, <1>10, OpeningSets DEF OpeningInv
<1>16. AnswersInv'
  BY <1>2, <1>3, <1>4, <1>5, <1>6, <1>7, <1>8, <1>9, <1>10 DEF AnswersInv,
     OpenAnsweredOnce
<1>17. ListsInv'
  BY <1>2, <1>3, <1>4, <1>5, <1>6, <1>7, <1>8, <1>9, <1>10, OpeningSets DEF ListsInv
<1>18. KeysInv'
  BY <1>2, <1>3, <1>4, <1>5, <1>6, <1>7, <1>8, <1>9, <1>10, OpeningSets, WorkSets DEF
     KeysInv
<1>19. ServedInv'
  BY <1>2, <1>3, <1>4, <1>5, <1>6, <1>7, <1>8, <1>9, <1>10, SettingsSets DEF ServedInv
<1>20. SettingsInv'
  BY <1>2, <1>3, <1>4, <1>5, <1>6, <1>7, <1>8, <1>9, <1>10, SettingsSets DEF
     SettingsInv, LibraryWillAgree, DiskWillAgree, Final
<1> QED BY <1>11, <1>12, <1>13, <1>14, <1>15, <1>16, <1>17, <1>18, <1>19, <1>20

\* A deletion ends, with an error perhaps, and with it an update.
LEMMA NoneSavedIInv == IInv /\
       OnNoneSaved /\ ~ (Ok(Head(dbCalls)) /\ Head(dbCalls).after = "switch") => IInv'
<1> SUFFICES ASSUME IInv,
       OnNoneSaved /\ ~ (Ok(Head(dbCalls)) /\ Head(dbCalls).after = "switch") PROVE IInv'
  OBVIOUS
<1> USE DEF IInv
<1> DEFINE h == Head(dbCalls)
<1>1. libCalls \in Seq(Call) /\ dbCalls \in Seq(Call)
  BY DEF Types
<1>2. /\ dbCalls # <<>> /\ h.what = "saveNone" /\ dbCalls' = Tail(dbCalls)
      /\ work' = "none"
      /\ \/ h.said = "ok" /\ list' = {}
         \/ h.said # "ok" /\ list' = list
      /\ \/ updating' = updating /\ answers' = answers
         \/ /\ h.after = "switch" /\ updating' = FALSE
            /\ answers' = IF updating /\ answers = <<>> THEN <<"error">> ELSE answers
      /\ UNCHANGED <<libCalls, started, switched, external, library, disk, health,
                     counts>>
  BY DEF OnNoneSaved, EndsUpdate, Ready, Ok, Types, external
<1>3. /\ h \in Call /\ dbCalls' \in Seq(Call)
      /\ \A V : Has(dbCalls, V) <=> h \in V \/ Has(dbCalls', V)
      /\ \A V : One(dbCalls, V) <=> One(dbCalls', V) /\ (h \in V => ~ Has(dbCalls', V))
      /\ \A V, W : Before(dbCalls, V, W) <=>
                      /\ Before(dbCalls', V, W)
                      /\ h \in W => ~ Has(dbCalls', V) /\ h \notin V
      /\ \A V, T : LastIn(dbCalls, V, T) <=>
                      /\ LastIn(dbCalls', V, T)
                      /\ h \in V => h \in T \/ Has(dbCalls', V)
  BY <1>1, <1>2, TailCall
<1> HIDE DEF h
<1>4. state = "Opened" /\ (h.after = "switch" => h \in Updates /\ updating)
  BY <1>2, <1>3, OpeningSets, WorkSets DEF OpeningInv, UpdatesInv
<1>5. h \in KeyCalls /\ ~ Has(libCalls, KeyCalls) /\ ~ Has(dbCalls', KeyCalls)
  BY <1>2, <1>3, WorkSets DEF WorkInv
<1>6. /\ ~ Has(libCalls, Creates) /\ ~ Has(libCalls, KeySaves) /\ ~ Has(libCalls, Deletions)
      /\ ~ Has(dbCalls', KeySaves) /\ ~ Has(dbCalls', Deletions)
      /\ \A net, listed, keys : ~ Has(libCalls, FalseKeys(net, listed, keys))
      /\ \A net, listed, keys : ~ Has(dbCalls', FalseKeys(net, listed, keys))
  BY <1>1, <1>3, <1>5, HasSets
<1>7. Types'
  BY <1>2, <1>3, <1>4, <1>5, <1>6 DEF Types, external
<1>8. QueuesInv'
  BY <1>2, <1>3, <1>4, <1>5, <1>6, QueuesSets DEF QueuesInv, external
<1>9. WorkInv'
  BY <1>2, <1>3, <1>4, <1>5, <1>6, WorkSets DEF WorkInv, external
<1>10. UpdatesInv'
  BY <1>2, <1>3, <1>4, <1>5, <1>6, WorkSets DEF UpdatesInv, external
<1>11. OpeningInv'
  BY <1>2, <1>3, <1>4, <1>5, <1>6, OpeningSets DEF OpeningInv, external
<1>12. AnswersInv'
  <2>1. CASE updating' = updating /\ answers' = answers
    BY <1>2, <1>3, <2>1 DEF AnswersInv, OpenAnsweredOnce, external
  <2>2. CASE /\ h.after = "switch" /\ updating' = FALSE
             /\ answers' = IF updating /\ answers = <<>> THEN <<"error">> ELSE answers
    <3>1. updating /\ ~ updating'
      BY <1>4, <2>2
    <3>2. answers' = IF answers = <<>> THEN <<"error">> ELSE answers
      BY <2>2, <3>1
    <3> QED BY <1>2, <1>3, <1>4, <3>1, <3>2 DEF AnswersInv, OpenAnsweredOnce, external
  <2> QED BY <1>2, <2>1, <2>2
<1>13. ListsInv'
  BY <1>2, <1>3, <1>4, <1>5, <1>6, OpeningSets DEF ListsInv, external
<1>14. KeysInv'
  BY <1>2, <1>3, <1>4, <1>5, <1>6, OpeningSets, WorkSets DEF KeysInv, external
<1>15. ServedInv'
  BY <1>2, <1>3, <1>4, <1>5, <1>6, SettingsSets DEF ServedInv, external
<1>16. SettingsInv'
  BY <1>2, <1>3, <1>4, <1>5, <1>6, SettingsSets DEF SettingsInv, LibraryWillAgree,
     DiskWillAgree, Final, external
<1> QED BY <1>7, <1>8, <1>9, <1>10, <1>11, <1>12, <1>13, <1>14, <1>15, <1>16

\* The keys are gone, and the library gets the other network.
LEMMA SwitchGoesOnIInv == IInv /\
       OnNoneSaved /\ Ok(Head(dbCalls)) /\ Head(dbCalls).after = "switch" => IInv'
<1> SUFFICES ASSUME IInv,
       OnNoneSaved /\ Ok(Head(dbCalls)) /\ Head(dbCalls).after = "switch" PROVE IInv'
  OBVIOUS
<1> USE DEF IInv
<1> DEFINE h == Head(dbCalls)
           c == New("config", Flipped(settings), {}, "switch")
<1>1. libCalls \in Seq(Call) /\ dbCalls \in Seq(Call)
  BY DEF Types
<1>2. /\ dbCalls # <<>> /\ h.what = "saveNone" /\ h.after = "switch"
      /\ dbCalls' = Tail(dbCalls) /\ libCalls' = Append(libCalls, c)
      /\ work' = "none" /\ list' = {} /\ settings' = Flipped(settings)
      /\ updating' = updating /\ answers' = answers
      /\ UNCHANGED <<started, switched, state, upgrade, future, library, disk, health,
                     counts>>
  BY DEF OnNoneSaved, EndsUpdate, ExternalUpdate, SetConfig, Ready, Ok, Types
<1>3. settings' \in Settings
  BY <1>2, SettingsTypes DEF Types
<1>4. /\ c \in Call /\ c.what = "config" /\ c.settings = settings' /\ c.keys = {}
      /\ c.after = "switch" /\ c.said = "pending"
  BY <1>3, <1>2, NewCall DEF Afters
<1>5. /\ libCalls' \in Seq(Call)
      /\ \A V : Has(libCalls', V) <=> Has(libCalls, V) \/ c \in V
      /\ \A V : One(libCalls', V) <=> One(libCalls, V) /\ (c \in V => ~ Has(libCalls, V))
      /\ \A V, W : Before(libCalls', V, W) <=>
                      Before(libCalls, V, W) /\ (c \in V => ~ Has(libCalls, W) /\ c \notin W)
      /\ \A V, T : LastIn(libCalls', V, T) <=>
                      (IF c \in V THEN c \in T ELSE LastIn(libCalls, V, T))
  BY <1>1, <1>2, <1>4, AppendCall
<1>6. /\ h \in Call /\ dbCalls' \in Seq(Call)
      /\ \A V : Has(dbCalls, V) <=> h \in V \/ Has(dbCalls', V)
      /\ \A V : One(dbCalls, V) <=> One(dbCalls', V) /\ (h \in V => ~ Has(dbCalls', V))
      /\ \A V, W : Before(dbCalls, V, W) <=>
                      /\ Before(dbCalls', V, W)
                      /\ h \in W => ~ Has(dbCalls', V) /\ h \notin V
      /\ \A V, T : LastIn(dbCalls, V, T) <=>
                      /\ LastIn(dbCalls', V, T)
                      /\ h \in V => h \in T \/ Has(dbCalls', V)
  BY <1>1, <1>2, TailCall
<1> HIDE DEF h, c
<1>7. state = "Opened" /\ h \in Updates /\ updating
  BY <1>2, <1>6, OpeningSets, WorkSets DEF OpeningInv, UpdatesInv
<1>8. ~ Has(libCalls, Updates) /\ ~ Has(dbCalls', Updates)
  BY <1>6, <1>7 DEF UpdatesInv
<1>9. /\ \A s : ~ Has(libCalls, OtherSwitches(s))
      /\ ~ Has(libCalls, Switches) /\ ~ Has(libCalls, GoesBack)
  BY <1>1, <1>8, HasSets
<1>10. /\ ~ Has(libCalls', Inits) /\ ~ Has(dbCalls', Lists)
       /\ \A net, keys : ~ Has(dbCalls', FalseLists(net, keys))
  BY <1>1, <1>6, <1>4, <1>5, <1>7, OnlyOpening, OpeningSets, HasSets DEF AnswersInv
<1>11. h \in KeyCalls /\ ~ Has(libCalls, KeyCalls) /\ ~ Has(dbCalls', KeyCalls)
  BY <1>2, <1>6, WorkSets DEF WorkInv
<1>12. /\ ~ Has(libCalls, Creates) /\ ~ Has(libCalls, KeySaves) /\ ~ Has(libCalls, Deletions)
       /\ ~ Has(dbCalls', KeySaves) /\ ~ Has(dbCalls', Deletions)
       /\ \A net, listed, keys : ~ Has(libCalls, FalseKeys(net, listed, keys))
       /\ \A net, listed, keys : ~ Has(dbCalls', FalseKeys(net, listed, keys))
  BY <1>1, <1>6, <1>11, HasSets
<1>13. Types'
  BY <1>2, <1>3, <1>4, <1>5, <1>6, <1>7, <1>8, <1>9, <1>10, <1>11, <1>12 DEF Types
<1>14. QueuesInv'
  BY <1>2, <1>3, <1>4, <1>5, <1>6, <1>7, <1>8, <1>9, <1>10, <1>11, <1>12, QueuesSets
     DEF QueuesInv
<1>15. WorkInv'
  BY <1>2, <1>3, <1>4, <1>5, <1>6, <1>7, <1>8, <1>9, <1>10, <1>11, <1>12, WorkSets DEF
     WorkInv
<1>16. UpdatesInv'
  BY <1>2, <1>3, <1>4, <1>5, <1>6, <1>7, <1>8, <1>9, <1>10, <1>11, <1>12, WorkSets DEF
     UpdatesInv
<1>17. OpeningInv'
  BY <1>2, <1>3, <1>4, <1>5, <1>6, <1>7, <1>8, <1>9, <1>10, <1>11, <1>12, OpeningSets
     DEF OpeningInv
<1>18. AnswersInv'
  BY <1>2, <1>3, <1>4, <1>5, <1>6, <1>7, <1>8, <1>9, <1>10, <1>11, <1>12 DEF
     AnswersInv, OpenAnsweredOnce
<1>19. ListsInv'
  BY <1>2, <1>3, <1>4, <1>5, <1>6, <1>7, <1>8, <1>9, <1>10, <1>11, <1>12, OpeningSets
     DEF ListsInv
<1>20. KeysInv'
  BY <1>2, <1>3, <1>4, <1>5, <1>6, <1>7, <1>8, <1>9, <1>10, <1>11, <1>12, OpeningSets,
     WorkSets DEF KeysInv
<1>21. ServedInv'
  BY <1>2, <1>3, <1>4, <1>5, <1>6, <1>7, <1>8, <1>9, <1>10, <1>11, <1>12, SettingsSets
     DEF ServedInv
<1>22. SettingsInv'
  <2>1. /\ c \notin Refuses
        /\ c \in GoesBack \/ (c \in Accepts /\ c \in WillSave)
        /\ c \in GoesBack => c \notin Accepts /\ c \notin WillSave
        /\ c \in Accepts => c \notin GoesBack
        /\ c \in For(settings') /\ c \in ForConfig(settings'[settings'.net])
    BY <1>4, SettingsSets DEF Config
  <2>2. /\ ~ Has(dbCalls', Unsaved) => ~ Has(dbCalls, Unsaved)
        /\ ~ Has(dbCalls', Saves) => ~ Has(dbCalls, Saves)
        /\ LastIn(dbCalls, Saves, For(settings)) => LastIn(dbCalls', Saves, For(settings))
    BY <1>2, <1>6, SettingsSets
  <2>3. Final = settings
    BY <1>9 DEF Final
  <2>4. CASE c \in GoesBack
    <3>1. Final' = settings
      BY <1>2, <1>5, <2>4, SettingsTypes DEF Final, Types
    <3> QED BY <1>2, <1>5, <2>1, <2>2, <2>3, <2>4, <3>1
        DEF SettingsInv, LibraryWillAgree, DiskWillAgree
  <2>5. CASE c \notin GoesBack
    <3>1. Final' = settings'
      BY <1>5, <1>9, <2>5 DEF Final
    <3> QED BY <1>2, <1>5, <2>1, <2>2, <2>5, <3>1
        DEF SettingsInv, LibraryWillAgree, DiskWillAgree
  <2> QED BY <2>4, <2>5
<1> QED BY <1>13, <1>14, <1>15, <1>16, <1>17, <1>18, <1>19, <1>20, <1>21, <1>22

\* The database is to be opened.
LEMMA OpenBeginsIInv == \A s \in Settings : IInv /\ Open(s) /\ state' = "Opening" => IInv'
<1> SUFFICES ASSUME NEW s \in Settings, IInv, Open(s) /\ state' = "Opening" PROVE IInv'
  OBVIOUS
<1> USE DEF IInv
<1> DEFINE c == New("open", s, {}, "nobody")
<1>1. libCalls \in Seq(Call) /\ dbCalls \in Seq(Call)
  BY DEF Types
<1>2. /\ state = "Initial" /\ state' = "Opening" /\ settings' = s /\ answers' = <<>>
      /\ dbCalls' = Append(dbCalls, c)
      /\ UNCHANGED <<wallet, upgrade, future, libCalls, library, disk, health, counts>>
  BY DEF Open
<1>3. /\ c \in Call /\ c.what = "open" /\ c.settings = s /\ c.keys = {}
      /\ c.after = "nobody" /\ c.said = "pending"
  BY NewCall DEF Afters
<1>4. /\ dbCalls' \in Seq(Call)
      /\ \A V : Has(dbCalls', V) <=> Has(dbCalls, V) \/ c \in V
      /\ \A V : One(dbCalls', V) <=> One(dbCalls, V) /\ (c \in V => ~ Has(dbCalls, V))
      /\ \A V, W : Before(dbCalls', V, W) <=>
                      Before(dbCalls, V, W) /\ (c \in V => ~ Has(dbCalls, W) /\ c \notin W)
      /\ \A V, T : LastIn(dbCalls', V, T) <=>
                      (IF c \in V THEN c \in T ELSE LastIn(dbCalls, V, T))
  BY <1>1, <1>2, <1>3, AppendCall
<1> HIDE DEF c
<1>5. /\ ~ Has(libCalls, Opening) /\ ~ Has(dbCalls, Opening)
      /\ ~ Has(libCalls, Inits) /\ ~ Has(dbCalls, Opens)
  BY <1>1, <1>2, CallsInPlace, HasSets DEF OpeningInv
<1>6. list = {} /\ ~ updating
  BY <1>2 DEF OpeningInv
<1>7. /\ ~ Has(libCalls, Switches) /\ ~ Has(libCalls, Accepts) /\ ~ Has(libCalls, GoesBack)
      /\ \A t : ~ Has(libCalls, OtherSwitches(t))
      /\ \A net, keys : /\ ~ Has(libCalls, FalseKeys(net, {}, keys))
                        /\ ~ Has(dbCalls, FalseKeys(net, {}, keys))
  BY <1>1, <1>2, OnlyOpening, HasSets
<1>8. Types'
  BY <1>2, <1>3, <1>4, <1>5, <1>6, <1>7 DEF Types, wallet
<1>9. QueuesInv'
  BY <1>2, <1>3, <1>4, <1>5, <1>6, <1>7, QueuesSets DEF QueuesInv, wallet
<1>10. WorkInv'
  BY <1>2, <1>3, <1>4, <1>5, <1>6, <1>7, WorkSets DEF WorkInv, wallet
<1>11. UpdatesInv'
  BY <1>2, <1>3, <1>4, <1>5, <1>6, <1>7, WorkSets DEF UpdatesInv, wallet
<1>12. OpeningInv'
  BY <1>2, <1>3, <1>4, <1>5, <1>6, <1>7, OpeningSets DEF OpeningInv, wallet
<1>13. AnswersInv'
  BY <1>2, <1>3, <1>4, <1>5, <1>6, <1>7 DEF AnswersInv, OpenAnsweredOnce, wallet
<1>14. ListsInv'
  BY <1>2, <1>3, <1>4, <1>5, <1>6, <1>7, OpeningSets DEF ListsInv, wallet
<1>15. KeysInv'
  BY <1>2, <1>3, <1>4, <1>5, <1>6, <1>7, OpeningSets, WorkSets, NoneOf DEF KeysInv,
     wallet
<1>16. ServedInv'
  BY <1>2, <1>3, <1>4, <1>5, <1>6, <1>7, SettingsSets DEF ServedInv, wallet
<1>17. SettingsInv'
  BY <1>2, <1>7, NoneOf DEF SettingsInv, LibraryWillAgree, OpeningInv, wallet
<1> QED BY <1>8, <1>9, <1>10, <1>11, <1>12, <1>13, <1>14, <1>15, <1>16, <1>17

\* The salt can be neither read nor written.
LEMMA OpenFailsIInv == \A s \in Settings : IInv /\ Open(s) /\ state' # "Opening" => IInv'
<1> SUFFICES ASSUME NEW s \in Settings, IInv, Open(s) /\ state' # "Opening" PROVE IInv'
  OBVIOUS
<1> USE DEF IInv
<1>1. libCalls \in Seq(Call) /\ dbCalls \in Seq(Call)
  BY DEF Types
<1>2. /\ state = "Initial" /\ answers' = <<"error">>
      /\ UNCHANGED <<state, settings, dbCalls>>
      /\ UNCHANGED <<wallet, upgrade, future, libCalls, library, disk, health, counts>>
  BY DEF Open
<1>3. Types'
  BY <1>2 DEF Types, wallet
<1>4. QueuesInv'
  BY <1>2, QueuesSets DEF QueuesInv, wallet
<1>5. WorkInv'
  BY <1>2, WorkSets DEF WorkInv, wallet
<1>6. UpdatesInv'
  BY <1>2, WorkSets DEF UpdatesInv, wallet
<1>7. OpeningInv'
  BY <1>2, OpeningSets DEF OpeningInv, wallet
<1>8. AnswersInv'
  BY <1>2 DEF AnswersInv, OpenAnsweredOnce, wallet
<1>9. ListsInv'
  BY <1>2, OpeningSets DEF ListsInv, wallet
<1>10. KeysInv'
  BY <1>2, OpeningSets, WorkSets DEF KeysInv, wallet
<1>11. ServedInv'
  BY <1>2, SettingsSets DEF ServedInv, wallet
<1>12. SettingsInv'
  BY <1>2, SettingsSets DEF SettingsInv, LibraryWillAgree, DiskWillAgree, Final, wallet
<1> QED BY <1>3, <1>4, <1>5, <1>6, <1>7, <1>8, <1>9, <1>10, <1>11, <1>12

\* The database cannot be opened.
LEMMA OnDatabaseFailedIInv == IInv /\ OnDatabaseFailed => IInv'
<1> SUFFICES ASSUME IInv, OnDatabaseFailed PROVE IInv'
  OBVIOUS
<1> USE DEF IInv
<1> DEFINE h == Head(dbCalls)
<1>1. libCalls \in Seq(Call) /\ dbCalls \in Seq(Call)
  BY DEF Types
<1>2. /\ dbCalls # <<>> /\ h.what = "open"
      /\ dbCalls' = Tail(dbCalls) /\ state' = "Initial" /\ answers' = Append(answers, "error")
      /\ UNCHANGED <<wallet, settings, upgrade, future, libCalls, library, disk,
                     health, counts>>
  BY DEF OnDatabaseFailed, Ready, Fails
<1>3. /\ h \in Call /\ dbCalls' \in Seq(Call)
      /\ \A V : Has(dbCalls, V) <=> h \in V \/ Has(dbCalls', V)
      /\ \A V : One(dbCalls, V) <=> One(dbCalls', V) /\ (h \in V => ~ Has(dbCalls', V))
      /\ \A V, W : Before(dbCalls, V, W) <=>
                      /\ Before(dbCalls', V, W)
                      /\ h \in W => ~ Has(dbCalls', V) /\ h \notin V
      /\ \A V, T : LastIn(dbCalls, V, T) <=>
                      /\ LastIn(dbCalls', V, T)
                      /\ h \in V => h \in T \/ Has(dbCalls', V)
  BY <1>1, <1>2, TailCall
<1> HIDE DEF h
<1>4. state = "Opening" /\ answers = <<>> /\ h \in Opening
  BY <1>2, <1>3, OpeningSets DEF OpeningInv, AnswersInv, OpenAnsweredOnce
<1>5. answers' = <<"error">>
  BY <1>2, <1>4
<1>6. /\ ~ Has(libCalls', Opening) /\ ~ Has(dbCalls', Opening)
  BY <1>2, <1>3, <1>4 DEF OpeningInv
<1>7. ~ Has(libCalls', Inits) /\ ~ Has(dbCalls', Opens)
  BY <1>1, <1>2, <1>3, <1>6, HasSets
<1>8. Types'
  BY <1>2, <1>3, <1>4, <1>5, <1>6, <1>7 DEF Types, wallet
<1>9. QueuesInv'
  BY <1>2, <1>3, <1>4, <1>5, <1>6, <1>7, QueuesSets DEF QueuesInv, wallet
<1>10. WorkInv'
  BY <1>2, <1>3, <1>4, <1>5, <1>6, <1>7, WorkSets DEF WorkInv, wallet
<1>11. UpdatesInv'
  BY <1>2, <1>3, <1>4, <1>5, <1>6, <1>7, WorkSets DEF UpdatesInv, wallet
<1>12. OpeningInv'
  BY <1>2, <1>3, <1>4, <1>5, <1>6, <1>7, OpeningSets DEF OpeningInv, wallet
<1>13. AnswersInv'
  BY <1>2, <1>3, <1>4, <1>5, <1>6, <1>7 DEF AnswersInv, OpenAnsweredOnce, wallet
<1>14. ListsInv'
  BY <1>2, <1>3, <1>4, <1>5, <1>6, <1>7, OpeningSets DEF ListsInv, wallet
<1>15. KeysInv'
  BY <1>2, <1>3, <1>4, <1>5, <1>6, <1>7, OpeningSets, WorkSets DEF KeysInv, wallet
<1>16. ServedInv'
  BY <1>2, <1>3, <1>4, <1>5, <1>6, <1>7, SettingsSets DEF ServedInv, wallet
<1>17. SettingsInv'
  BY <1>2, <1>3, <1>4, <1>5, <1>6, <1>7, SettingsSets DEF SettingsInv,
     LibraryWillAgree, DiskWillAgree, Final, wallet
<1> QED BY <1>8, <1>9, <1>10, <1>11, <1>12, <1>13, <1>14, <1>15, <1>16, <1>17

\* The library cannot be started.
LEMMA OnLibraryFailedIInv == IInv /\ OnLibraryFailed => IInv'
<1> SUFFICES ASSUME IInv, OnLibraryFailed PROVE IInv'
  OBVIOUS
<1> USE DEF IInv
<1> DEFINE h == Head(libCalls)
<1>1. libCalls \in Seq(Call) /\ dbCalls \in Seq(Call)
  BY DEF Types
<1>2. /\ libCalls # <<>> /\ h.what = "init"
      /\ libCalls' = Tail(libCalls) /\ state' = "Initial" /\ answers' = Append(answers, "error")
      /\ UNCHANGED <<wallet, settings, upgrade, future, dbCalls, library, disk,
                     health, counts>>
  BY DEF OnLibraryFailed, Ready, Fails
<1>3. /\ h \in Call /\ libCalls' \in Seq(Call)
      /\ \A V : Has(libCalls, V) <=> h \in V \/ Has(libCalls', V)
      /\ \A V : One(libCalls, V) <=> One(libCalls', V) /\ (h \in V => ~ Has(libCalls', V))
      /\ \A V, W : Before(libCalls, V, W) <=>
                      /\ Before(libCalls', V, W)
                      /\ h \in W => ~ Has(libCalls', V) /\ h \notin V
      /\ \A V, T : LastIn(libCalls, V, T) <=>
                      /\ LastIn(libCalls', V, T)
                      /\ h \in V => h \in T \/ Has(libCalls', V)
  BY <1>1, <1>2, TailCall
<1> HIDE DEF h
<1>4. state = "Opening" /\ answers = <<>> /\ h \in Opening
  BY <1>2, <1>3, OpeningSets DEF OpeningInv, AnswersInv, OpenAnsweredOnce
<1>5. answers' = <<"error">>
  BY <1>2, <1>4
<1>6. /\ ~ Has(libCalls', Opening) /\ ~ Has(dbCalls', Opening)
  BY <1>2, <1>3, <1>4 DEF OpeningInv
<1>7. ~ Has(libCalls', Inits) /\ ~ Has(dbCalls', Opens)
  BY <1>1, <1>2, <1>3, <1>6, HasSets
<1>8. Types'
  BY <1>2, <1>3, <1>4, <1>5, <1>6, <1>7 DEF Types, wallet
<1>9. QueuesInv'
  BY <1>2, <1>3, <1>4, <1>5, <1>6, <1>7, QueuesSets DEF QueuesInv, wallet
<1>10. WorkInv'
  BY <1>2, <1>3, <1>4, <1>5, <1>6, <1>7, WorkSets DEF WorkInv, wallet
<1>11. UpdatesInv'
  BY <1>2, <1>3, <1>4, <1>5, <1>6, <1>7, WorkSets DEF UpdatesInv, wallet
<1>12. OpeningInv'
  BY <1>2, <1>3, <1>4, <1>5, <1>6, <1>7, OpeningSets DEF OpeningInv, wallet
<1>13. AnswersInv'
  BY <1>2, <1>3, <1>4, <1>5, <1>6, <1>7 DEF AnswersInv, OpenAnsweredOnce, wallet
<1>14. ListsInv'
  BY <1>2, <1>3, <1>4, <1>5, <1>6, <1>7, OpeningSets DEF ListsInv, wallet
<1>15. KeysInv'
  BY <1>2, <1>3, <1>4, <1>5, <1>6, <1>7, OpeningSets, WorkSets DEF KeysInv, wallet
<1>16. ServedInv'
  BY <1>2, <1>3, <1>4, <1>5, <1>6, <1>7, SettingsSets DEF ServedInv, wallet
<1>17. SettingsInv'
  BY <1>2, <1>3, <1>4, <1>5, <1>6, <1>7, SettingsSets DEF SettingsInv,
     LibraryWillAgree, DiskWillAgree, Final, wallet
<1> QED BY <1>8, <1>9, <1>10, <1>11, <1>12, <1>13, <1>14, <1>15, <1>16, <1>17

\* The settings that are loaded, or those the application has given, upgraded.
LEMMA AppliedSettings ==
    IInv /\ OnDatabaseOpened =>
        /\ state = "Opening"
        /\ settings' \in Settings
        /\ upgrade' \in {"None", "TestnetToTestnet2", "TestnetToMainnet"}
<1> SUFFICES ASSUME IInv, OnDatabaseOpened
             PROVE  /\ state = "Opening"
                    /\ settings' \in Settings
                    /\ upgrade' \in {"None", "TestnetToTestnet2", "TestnetToMainnet"}
  OBVIOUS
<1> DEFINE s == Head(dbCalls).settings
<1>1. state = "Opening"
  <2>1. dbCalls \in Seq(Call) /\ dbCalls # <<>> /\ Head(dbCalls).what = "open"
    BY DEF IInv, Types, OnDatabaseOpened, Ready
  <2>2. Head(dbCalls) \in Opens /\ Has(dbCalls, Opens)
    BY <2>1, TailCall, OpeningSets
  <2> QED BY <2>2 DEF IInv, OpeningInv
<1>2. s \in Settings /\ settings \in Settings
  <2>1. Head(dbCalls) \in Call
    BY TailCall DEF IInv, Types, OnDatabaseOpened, Ready
  <2> QED BY <2>1 DEF Call, IInv, Types
<1>3. IF s.test # NoConfig THEN ApplyLocalSettings(s) ELSE UNCHANGED <<settings, upgrade>>
  BY DEF OnDatabaseOpened
<1> HIDE DEF s
<1>4. upgrade \in {"None", "TestnetToTestnet2", "TestnetToMainnet"}
  BY DEF IInv, Types
<1>5. [settings EXCEPT !.test = s.test, !.net = "test"] \in Settings
  BY <1>2 DEF Settings, Networks
<1> QED BY <1>1, <1>2, <1>3, <1>4, <1>5 DEF ApplyLocalSettings

\* The list is asked for, and the library started.
LEMMA DatabaseOpenedIInv == IInv /\ OnDatabaseOpened /\ state' # "Initial" => IInv'
<1> SUFFICES ASSUME IInv, OnDatabaseOpened /\ state' # "Initial" PROVE IInv'
  OBVIOUS
<1> USE DEF IInv
<1> DEFINE h == Head(dbCalls)
           d == Tail(dbCalls)
           c == New("list", settings', {}, "nobody")
           i == New("init", settings', {}, "nobody")
<1>1. libCalls \in Seq(Call) /\ dbCalls \in Seq(Call)
  BY DEF Types
<1>2. /\ dbCalls # <<>> /\ h.what = "open" /\ future' = {}
      /\ dbCalls' = Append(d, c)
      /\ libCalls' = Append(libCalls, i) /\ state' = state /\ answers' = answers
      /\ UNCHANGED <<wallet, library, disk, health, counts>>
  BY DEF OnDatabaseOpened, Ready, Fails
<1>3. /\ settings' \in Settings
      /\ upgrade' \in {"None", "TestnetToTestnet2", "TestnetToMainnet"}
  BY AppliedSettings
<1>4. /\ i \in Call /\ i.what = "init" /\ i.settings = settings' /\ i.keys = {}
      /\ i.after = "nobody" /\ i.said = "pending"
  BY <1>3, NewCall DEF Afters
<1>5. /\ libCalls' \in Seq(Call)
      /\ \A V : Has(libCalls', V) <=> Has(libCalls, V) \/ i \in V
      /\ \A V : One(libCalls', V) <=> One(libCalls, V) /\ (i \in V => ~ Has(libCalls, V))
      /\ \A V, W : Before(libCalls', V, W) <=>
                      Before(libCalls, V, W) /\ (i \in V => ~ Has(libCalls, W) /\ i \notin W)
      /\ \A V, T : LastIn(libCalls', V, T) <=>
                      (IF i \in V THEN i \in T ELSE LastIn(libCalls, V, T))
  BY <1>1, <1>2, <1>4, AppendCall
<1>6. /\ c \in Call /\ c.what = "list" /\ c.settings = settings' /\ c.keys = {}
      /\ c.after = "nobody" /\ c.said = "pending"
  BY <1>3, NewCall DEF Afters
<1>7. /\ h \in Call /\ d \in Seq(Call)
      /\ \A V : Has(dbCalls, V) <=> h \in V \/ Has(d, V)
      /\ \A V : One(dbCalls, V) <=> One(d, V) /\ (h \in V => ~ Has(d, V))
      /\ \A V, W : Before(dbCalls, V, W) <=>
                      /\ Before(d, V, W)
                      /\ h \in W => ~ Has(d, V) /\ h \notin V
      /\ \A V, T : LastIn(dbCalls, V, T) <=>
                      /\ LastIn(d, V, T)
                      /\ h \in V => h \in T \/ Has(d, V)
  BY <1>1, <1>2, TailCall
<1> HIDE DEF h, d, c, i
<1>8. /\ dbCalls' \in Seq(Call)
      /\ \A V : Has(dbCalls', V) <=> Has(d, V) \/ c \in V
      /\ \A V : One(dbCalls', V) <=> One(d, V) /\ (c \in V => ~ Has(d, V))
      /\ \A V, W : Before(dbCalls', V, W) <=>
                      Before(d, V, W) /\ (c \in V => ~ Has(d, W) /\ c \notin W)
      /\ \A V, T : LastIn(dbCalls', V, T) <=>
                      (IF c \in V THEN c \in T ELSE LastIn(d, V, T))
  BY <1>2, <1>7, <1>6, AppendCall
<1>9. /\ state = "Opening" /\ answers = <<>> /\ h \in Opens /\ h \in Opening
      /\ list = {} /\ work = "none" /\ ~ updating
  BY <1>2, <1>7, OpeningSets DEF OpeningInv, AnswersInv, OpenAnsweredOnce
<1>10. /\ ~ Has(libCalls, Opening) /\ ~ Has(d, Opening) /\ ~ Has(d, Lists)
       /\ ~ Has(libCalls, Inits) /\ ~ Has(d, Opens)
  BY <1>1, <1>7, <1>9, HasSets DEF OpeningInv
<1>11. /\ ~ Has(libCalls, Switches) /\ ~ Has(libCalls, Accepts) /\ ~ Has(libCalls, GoesBack)
       /\ \A t : ~ Has(libCalls, OtherSwitches(t))
       /\ \A net, keys : ~ Has(libCalls, FalseKeys(net, {}, keys))
       /\ \A net, keys : ~ Has(dbCalls, FalseKeys(net, {}, keys))
       /\ \A net, keys : ~ Has(d, FalseLists(net, keys))
  BY <1>1, <1>7, <1>9, <1>10, OnlyOpening, HasSets
<1>12. Types'
  BY <1>2, <1>3, <1>4, <1>5, <1>6, <1>7, <1>8, <1>9, <1>10, <1>11 DEF Types, wallet
<1>13. QueuesInv'
  BY <1>2, <1>3, <1>4, <1>5, <1>6, <1>7, <1>8, <1>9, <1>10, <1>11, QueuesSets DEF
     QueuesInv, wallet
<1>14. WorkInv'
  BY <1>2, <1>3, <1>4, <1>5, <1>6, <1>7, <1>8, <1>9, <1>10, <1>11, WorkSets DEF
     WorkInv, wallet
<1>15. UpdatesInv'
  BY <1>2, <1>3, <1>4, <1>5, <1>6, <1>7, <1>8, <1>9, <1>10, <1>11, WorkSets DEF
     UpdatesInv, wallet
<1>16. OpeningInv'
  <2>1. /\ One(libCalls', Opening) /\ One(dbCalls', Opening)
        /\ ~ Has(libCalls', Opening) \/ ~ Has(dbCalls', Opening)
        /\ Before(dbCalls', Lists, Opens)
    BY <1>2, <1>3, <1>4, <1>5, <1>6, <1>7, <1>8, <1>9, <1>10, <1>11, OpeningSets DEF OpeningInv
  <2>2. state' = "Opening" /\ One(dbCalls', Lists) /\ future' = {}
    BY <1>2, <1>3, <1>4, <1>5, <1>6, <1>7, <1>8, <1>9, <1>10, <1>11, OpeningSets, NoneOf
    DEF OpeningInv
  <2>3. /\ list' = {} /\ work' = "none" /\ ~ updating' /\ ~ started' /\ ~ switched'
        /\ health' = "fresh" /\ library' = NoConfig
        /\ ~ Has(libCalls', NotOfOpening) /\ ~ Has(dbCalls', NotOfOpening)
    BY <1>2, <1>3, <1>4, <1>5, <1>6, <1>7, <1>8, <1>9, <1>10, <1>11, OpeningSets
    DEF OpeningInv, wallet
  <2> QED BY <2>1, <2>2, <2>3 DEF OpeningInv
<1>17. AnswersInv'
  BY <1>2, <1>3, <1>4, <1>5, <1>6, <1>7, <1>8, <1>9, <1>10, <1>11 DEF AnswersInv,
     OpenAnsweredOnce, wallet
<1>18. ListsInv'
  BY <1>2, <1>3, <1>4, <1>5, <1>6, <1>7, <1>8, <1>9, <1>10, <1>11, OpeningSets DEF
     ListsInv, wallet
<1>19. KeysInv'
  BY <1>2, <1>3, <1>4, <1>5, <1>6, <1>7, <1>8, <1>9, <1>10, <1>11, OpeningSets,
     WorkSets, NoneOf DEF KeysInv, wallet
<1>20. ServedInv'
  BY <1>2, <1>3, <1>4, <1>5, <1>6, <1>7, <1>8, <1>9, <1>10, <1>11, SettingsSets DEF
     ServedInv, wallet
<1>21. SettingsInv'
  BY <1>2, <1>9, <1>11, <1>5, <1>4, SettingsSets, NoneOf DEF SettingsInv,
     LibraryWillAgree, OpeningInv, wallet
<1> QED BY <1>12, <1>13, <1>14, <1>15, <1>16, <1>17, <1>18, <1>19, <1>20, <1>21

\* There is no place for its files.
LEMMA NoPlaceIInv == IInv /\ OnDatabaseOpened /\ state' # state => IInv'
<1> SUFFICES ASSUME IInv, OnDatabaseOpened /\ state' # state PROVE IInv'
  OBVIOUS
<1> USE DEF IInv
<1> DEFINE h == Head(dbCalls)
           d == Tail(dbCalls)
           c == New("list", settings', {}, "nobody")
<1>1. libCalls \in Seq(Call) /\ dbCalls \in Seq(Call)
  BY DEF Types
<1>2. /\ dbCalls # <<>> /\ h.what = "open" /\ future' = {}
      /\ dbCalls' = Append(d, c)
      /\ libCalls' = libCalls /\ state' = "Initial" /\ answers' = Append(answers, "error")
      /\ UNCHANGED <<wallet, library, disk, health, counts>>
  BY DEF OnDatabaseOpened, Ready, Fails
<1>3. /\ settings' \in Settings
      /\ upgrade' \in {"None", "TestnetToTestnet2", "TestnetToMainnet"}
  BY AppliedSettings
<1>4. /\ c \in Call /\ c.what = "list" /\ c.settings = settings' /\ c.keys = {}
      /\ c.after = "nobody" /\ c.said = "pending"
  BY <1>3, NewCall DEF Afters
<1>5. /\ h \in Call /\ d \in Seq(Call)
      /\ \A V : Has(dbCalls, V) <=> h \in V \/ Has(d, V)
      /\ \A V : One(dbCalls, V) <=> One(d, V) /\ (h \in V => ~ Has(d, V))
      /\ \A V, W : Before(dbCalls, V, W) <=>
                      /\ Before(d, V, W)
                      /\ h \in W => ~ Has(d, V) /\ h \notin V
      /\ \A V, T : LastIn(dbCalls, V, T) <=>
                      /\ LastIn(d, V, T)
                      /\ h \in V => h \in T \/ Has(d, V)
  BY <1>1, <1>2, TailCall
<1> HIDE DEF h, d, c
<1>6. /\ dbCalls' \in Seq(Call)
      /\ \A V : Has(dbCalls', V) <=> Has(d, V) \/ c \in V
      /\ \A V : One(dbCalls', V) <=> One(d, V) /\ (c \in V => ~ Has(d, V))
      /\ \A V, W : Before(dbCalls', V, W) <=>
                      Before(d, V, W) /\ (c \in V => ~ Has(d, W) /\ c \notin W)
      /\ \A V, T : LastIn(dbCalls', V, T) <=>
                      (IF c \in V THEN c \in T ELSE LastIn(d, V, T))
  BY <1>2, <1>5, <1>4, AppendCall
<1>7. /\ state = "Opening" /\ answers = <<>> /\ h \in Opens /\ h \in Opening
      /\ list = {} /\ work = "none" /\ ~ updating
  BY <1>2, <1>5, OpeningSets DEF OpeningInv, AnswersInv, OpenAnsweredOnce
<1>8. answers' = <<"error">>
  BY <1>2, <1>7
<1>9. /\ ~ Has(libCalls, Opening) /\ ~ Has(d, Opening) /\ ~ Has(d, Lists)
      /\ ~ Has(libCalls, Inits) /\ ~ Has(d, Opens)
  BY <1>1, <1>5, <1>7, HasSets DEF OpeningInv
<1>10. /\ ~ Has(libCalls, Switches) /\ ~ Has(libCalls, Accepts) /\ ~ Has(libCalls, GoesBack)
       /\ \A t : ~ Has(libCalls, OtherSwitches(t))
       /\ \A net, keys : ~ Has(libCalls, FalseKeys(net, {}, keys))
       /\ \A net, keys : ~ Has(dbCalls, FalseKeys(net, {}, keys))
       /\ \A net, keys : ~ Has(d, FalseLists(net, keys))
  BY <1>1, <1>5, <1>7, <1>9, OnlyOpening, HasSets
<1>11. Types'
  BY <1>2, <1>3, <1>4, <1>5, <1>6, <1>7, <1>8, <1>9, <1>10 DEF Types, wallet
<1>12. QueuesInv'
  BY <1>2, <1>3, <1>4, <1>5, <1>6, <1>7, <1>8, <1>9, <1>10, QueuesSets DEF QueuesInv,
     wallet
<1>13. WorkInv'
  BY <1>2, <1>3, <1>4, <1>5, <1>6, <1>7, <1>8, <1>9, <1>10, WorkSets DEF WorkInv,
     wallet
<1>14. UpdatesInv'
  BY <1>2, <1>3, <1>4, <1>5, <1>6, <1>7, <1>8, <1>9, <1>10, WorkSets DEF UpdatesInv,
     wallet
<1>15. OpeningInv'
  BY <1>2, <1>3, <1>4, <1>5, <1>6, <1>7, <1>8, <1>9, <1>10, OpeningSets DEF OpeningInv,
     wallet
<1>16. AnswersInv'
  BY <1>2, <1>3, <1>4, <1>5, <1>6, <1>7, <1>8, <1>9, <1>10 DEF AnswersInv,
     OpenAnsweredOnce, wallet
<1>17. ListsInv'
  BY <1>2, <1>3, <1>4, <1>5, <1>6, <1>7, <1>8, <1>9, <1>10, OpeningSets DEF ListsInv,
     wallet
<1>18. KeysInv'
  BY <1>2, <1>3, <1>4, <1>5, <1>6, <1>7, <1>8, <1>9, <1>10, OpeningSets, WorkSets,
     NoneOf DEF KeysInv, wallet
<1>19. ServedInv'
  BY <1>2, <1>3, <1>4, <1>5, <1>6, <1>7, <1>8, <1>9, <1>10, SettingsSets DEF ServedInv,
     wallet
<1>20. SettingsInv'
  BY <1>2, <1>7, <1>10, NoneOf DEF SettingsInv, LibraryWillAgree, OpeningInv, wallet
<1> QED BY <1>11, <1>12, <1>13, <1>14, <1>15, <1>16, <1>17, <1>18, <1>19, <1>20

\* The list comes before the library has started: it waits, or has come too late.
LEMMA ListWaitsIInv == IInv /\ OnListLoaded /\ state # "Opened" => IInv'
<1> SUFFICES ASSUME IInv, OnListLoaded /\ state # "Opened" PROVE IInv'
  OBVIOUS
<1> USE DEF IInv
<1> DEFINE h == Head(dbCalls)
<1>1. libCalls \in Seq(Call) /\ dbCalls \in Seq(Call)
  BY DEF Types
<1>2. /\ dbCalls # <<>> /\ h.what = "list" /\ h.said # "pending"
      /\ dbCalls' = Tail(dbCalls) /\ future' = {h.keys} /\ state # "Opened"
      /\ UNCHANGED <<list, updating, settings, libCalls, answers, health, work, started,
                     switched, state, upgrade, library, disk, counts>>
  BY DEF OnListLoaded, Ready
<1>3. /\ h \in Call /\ dbCalls' \in Seq(Call)
      /\ \A V : Has(dbCalls, V) <=> h \in V \/ Has(dbCalls', V)
      /\ \A V : One(dbCalls, V) <=> One(dbCalls', V) /\ (h \in V => ~ Has(dbCalls', V))
      /\ \A V, W : Before(dbCalls, V, W) <=>
                      /\ Before(dbCalls', V, W)
                      /\ h \in W => ~ Has(dbCalls', V) /\ h \notin V
      /\ \A V, T : LastIn(dbCalls, V, T) <=>
                      /\ LastIn(dbCalls', V, T)
                      /\ h \in V => h \in T \/ Has(dbCalls', V)
  BY <1>1, <1>2, TailCall
<1>4. h.keys \in SUBSET Keys /\ h \in Lists
  BY <1>2, <1>3, OpeningSets DEF Call
<1> HIDE DEF h
<1>5. Types'
  BY <1>2, <1>3, <1>4 DEF Types
<1>6. QueuesInv'
  BY <1>2, <1>3, <1>4, QueuesSets DEF QueuesInv
<1>7. WorkInv'
  BY <1>2, <1>3, <1>4, WorkSets DEF WorkInv
<1>8. UpdatesInv'
  BY <1>2, <1>3, <1>4, WorkSets DEF UpdatesInv
<1>9. OpeningInv'
  BY <1>2, <1>3, <1>4, OpeningSets DEF OpeningInv
<1>10. AnswersInv'
  BY <1>2, <1>3, <1>4 DEF AnswersInv, OpenAnsweredOnce
<1>11. ListsInv'
  BY <1>2, <1>3, <1>4, OpeningSets DEF ListsInv
<1>12. KeysInv'
  BY <1>2, <1>3, <1>4, OpeningSets, WorkSets DEF KeysInv
<1>13. ServedInv'
  BY <1>2, <1>3, <1>4, SettingsSets DEF ServedInv
<1>14. SettingsInv'
  BY <1>2, <1>3, <1>4, SettingsSets DEF SettingsInv, LibraryWillAgree, DiskWillAgree,
     Final
<1> QED BY <1>5, <1>6, <1>7, <1>8, <1>9, <1>10, <1>11, <1>12, <1>13, <1>14

\* The list comes last, and open is answered.
LEMMA ListOpensIInv == IInv /\ OnListLoaded /\ state = "Opened" /\ ~ switched => IInv'
<1> SUFFICES ASSUME IInv, OnListLoaded /\ state = "Opened" /\ ~ switched PROVE IInv'
  OBVIOUS
<1> USE DEF IInv
<1> DEFINE h == Head(dbCalls)
<1>1. libCalls \in Seq(Call) /\ dbCalls \in Seq(Call)
  BY DEF Types
<1>2. /\ dbCalls # <<>> /\ h.what = "list" /\ h.said # "pending" /\ state = "Opened"
      /\ dbCalls' = Tail(dbCalls) /\ list' = h.keys /\ answers' = Append(answers, "ok")
      /\ UNCHANGED <<settings, libCalls, updating, health, future, work, started,
                     switched, state, upgrade, library, disk, counts>>
  BY DEF OnListLoaded, Opened, Ready
<1>3. /\ h \in Call /\ dbCalls' \in Seq(Call)
      /\ \A V : Has(dbCalls, V) <=> h \in V \/ Has(dbCalls', V)
      /\ \A V : One(dbCalls, V) <=> One(dbCalls', V) /\ (h \in V => ~ Has(dbCalls', V))
      /\ \A V, W : Before(dbCalls, V, W) <=>
                      /\ Before(dbCalls', V, W)
                      /\ h \in W => ~ Has(dbCalls', V) /\ h \notin V
      /\ \A V, T : LastIn(dbCalls, V, T) <=>
                      /\ LastIn(dbCalls', V, T)
                      /\ h \in V => h \in T \/ Has(dbCalls', V)
  BY <1>1, <1>2, TailCall
<1>4. h.keys \in SUBSET Keys /\ h \in Lists
  BY <1>2, <1>3, OpeningSets DEF Call
<1> HIDE DEF h
<1>5. /\ answers = <<>> /\ ~ updating /\ work = "none"
  BY <1>2, <1>3, <1>4 DEF AnswersInv
<1>6. /\ ~ Has(libCalls, Inits) /\ One(dbCalls, Lists) /\ ~ Has(dbCalls', Lists)
  BY <1>2, <1>3, <1>4, OnlyOpening DEF OpeningInv
<1>7. h.keys = disk[settings.net]
  BY <1>2, <1>3, OpeningSets DEF ListsInv
<1>8. /\ ~ Has(libCalls, Switches) /\ ~ Has(libCalls, GoesBack) /\ ~ Has(libCalls, Updates)
      /\ ~ Has(dbCalls, Updates) /\ \A s : ~ Has(libCalls, OtherSwitches(s))
  BY <1>5, NoSwitch
<1>9. /\ ~ Has(libCalls, KeyCalls) /\ ~ Has(dbCalls, KeyCalls)
      /\ ~ Has(libCalls, KeySaves) /\ ~ Has(dbCalls, KeySaves)
  BY <1>5, NoKeyCalls
<1>10. /\ \A net, listed, keys : ~ Has(libCalls, FalseKeys(net, listed, keys))
       /\ \A net, listed, keys : ~ Has(dbCalls, FalseKeys(net, listed, keys))
       /\ \A net, keys : ~ Has(dbCalls', FalseLists(net, keys))
  BY <1>1, <1>3, <1>6, <1>9, HasSets
<1>11. answers' = <<"ok">>
  BY <1>2, <1>5
<1>12. Types'
  BY <1>2, <1>3, <1>4, <1>5, <1>6, <1>7, <1>8, <1>9, <1>10, <1>11 DEF Types
<1>13. QueuesInv'
  BY <1>2, <1>3, <1>4, <1>5, <1>6, <1>7, <1>8, <1>9, <1>10, <1>11, QueuesSets DEF
     QueuesInv
<1>14. WorkInv'
  BY <1>2, <1>3, <1>4, <1>5, <1>6, <1>7, <1>8, <1>9, <1>10, <1>11, WorkSets DEF WorkInv
<1>15. UpdatesInv'
  BY <1>2, <1>3, <1>4, <1>5, <1>6, <1>7, <1>8, <1>9, <1>10, <1>11, WorkSets DEF
     UpdatesInv
<1>16. OpeningInv'
  BY <1>2, <1>3, <1>4, <1>5, <1>6, <1>7, <1>8, <1>9, <1>10, <1>11, OpeningSets DEF
     OpeningInv
<1>17. AnswersInv'
  BY <1>2, <1>3, <1>4, <1>5, <1>6, <1>7, <1>8, <1>9, <1>10, <1>11 DEF AnswersInv,
     OpenAnsweredOnce
<1>18. ListsInv'
  BY <1>2, <1>3, <1>4, <1>5, <1>6, <1>7, <1>8, <1>9, <1>10, <1>11, OpeningSets DEF
     ListsInv
<1>19. KeysInv'
  BY <1>2, <1>3, <1>4, <1>5, <1>6, <1>7, <1>8, <1>9, <1>10, <1>11, OpeningSets,
     WorkSets DEF KeysInv
<1>20. ServedInv'
  BY <1>2, <1>3, <1>4, <1>5, <1>6, <1>7, <1>8, <1>9, <1>10, <1>11, SettingsSets DEF
     ServedInv
<1>21. SettingsInv'
  BY <1>2, <1>3, <1>4, <1>5, <1>6, <1>7, <1>8, <1>9, <1>10, <1>11, SettingsSets DEF
     SettingsInv, LibraryWillAgree, DiskWillAgree, Final
<1> QED BY <1>12, <1>13, <1>14, <1>15, <1>16, <1>17, <1>18, <1>19, <1>20, <1>21

\* The list comes last, after an upgrade: the network is to be switched.
LEMMA ListOpensMainIInv == IInv /\ OnListLoaded /\ state = "Opened" /\ switched => IInv'
<1> SUFFICES ASSUME IInv, OnListLoaded /\ state = "Opened" /\ switched PROVE IInv'
  OBVIOUS
<1> USE DEF IInv
<1> DEFINE h == Head(dbCalls)
           after == IF [settings EXCEPT !.net = "main"].net = settings.net
                      THEN "finish" ELSE "deletion"
           c == New("config", [[settings EXCEPT !.net = "main"] EXCEPT !.net = settings.net],
                     {}, after)
<1>1. libCalls \in Seq(Call) /\ dbCalls \in Seq(Call)
  BY DEF Types
<1>2. /\ dbCalls # <<>> /\ h.what = "list" /\ h.said # "pending" /\ state = "Opened"
      /\ dbCalls' = Tail(dbCalls) /\ list' = h.keys /\ answers' = answers
      /\ settings' = [[settings EXCEPT !.net = "main"] EXCEPT !.net = settings.net]
      /\ libCalls' = Append(libCalls, c) /\ updating' = TRUE /\ switched
      /\ health' = IF health = "astray" THEN "astray" ELSE "changed"
      /\ UNCHANGED <<future, work, started, switched, state, upgrade, library, disk,
                     counts>>
  BY DEF OnListLoaded, Opened, WalletUpdate, ExternalUpdate, SetConfig, Ready
<1>3. [[settings EXCEPT !.net = "main"] EXCEPT !.net = settings.net] = settings
  BY DEF Types, Settings
<1>4. settings' = settings
  BY <1>2, <1>3
<1>5. /\ c \in Call /\ c.what = "config" /\ c.settings = settings' /\ c.keys = {}
      /\ c.after \in {"finish", "deletion"} /\ c.said = "pending"
  BY <1>3, <1>4, NewCall DEF Types, Afters
<1>6. /\ libCalls' \in Seq(Call)
      /\ \A V : Has(libCalls', V) <=> Has(libCalls, V) \/ c \in V
      /\ \A V : One(libCalls', V) <=> One(libCalls, V) /\ (c \in V => ~ Has(libCalls, V))
      /\ \A V, W : Before(libCalls', V, W) <=>
                      Before(libCalls, V, W) /\ (c \in V => ~ Has(libCalls, W) /\ c \notin W)
      /\ \A V, T : LastIn(libCalls', V, T) <=>
                      (IF c \in V THEN c \in T ELSE LastIn(libCalls, V, T))
  BY <1>1, <1>2, <1>5, AppendCall
<1>7. /\ h \in Call /\ dbCalls' \in Seq(Call)
      /\ \A V : Has(dbCalls, V) <=> h \in V \/ Has(dbCalls', V)
      /\ \A V : One(dbCalls, V) <=> One(dbCalls', V) /\ (h \in V => ~ Has(dbCalls', V))
      /\ \A V, W : Before(dbCalls, V, W) <=>
                      /\ Before(dbCalls', V, W)
                      /\ h \in W => ~ Has(dbCalls', V) /\ h \notin V
      /\ \A V, T : LastIn(dbCalls, V, T) <=>
                      /\ LastIn(dbCalls', V, T)
                      /\ h \in V => h \in T \/ Has(dbCalls', V)
  BY <1>1, <1>2, TailCall
<1>8. h.keys \in SUBSET Keys /\ h \in Lists
  BY <1>2, <1>7, OpeningSets DEF Call
<1> HIDE DEF h, after, c
<1>9. /\ answers = <<>> /\ ~ updating /\ work = "none"
  BY <1>2, <1>7, <1>8 DEF AnswersInv
<1>10. /\ ~ Has(libCalls, Inits) /\ One(dbCalls, Lists) /\ ~ Has(dbCalls', Lists)
  BY <1>2, <1>7, <1>8, OnlyOpening DEF OpeningInv
<1>11. h.keys = disk[settings.net]
  BY <1>2, <1>7, OpeningSets DEF ListsInv
<1>12. /\ ~ Has(libCalls, Switches) /\ ~ Has(libCalls, GoesBack) /\ ~ Has(libCalls, Updates)
       /\ ~ Has(dbCalls, Updates) /\ \A s : ~ Has(libCalls, OtherSwitches(s))
  BY <1>9, NoSwitch
<1>13. /\ ~ Has(libCalls, KeyCalls) /\ ~ Has(dbCalls, KeyCalls)
       /\ ~ Has(libCalls, KeySaves) /\ ~ Has(dbCalls, KeySaves)
  BY <1>9, NoKeyCalls
<1>14. /\ \A net, listed, keys : ~ Has(libCalls, FalseKeys(net, listed, keys))
       /\ \A net, listed, keys : ~ Has(dbCalls, FalseKeys(net, listed, keys))
       /\ \A net, keys : ~ Has(dbCalls', FalseLists(net, keys))
  BY <1>1, <1>7, <1>10, <1>13, HasSets
<1>15. Types'
  BY <1>2, <1>3, <1>4, <1>5, <1>6, <1>7, <1>8, <1>9, <1>10, <1>11, <1>12, <1>13, <1>14
     DEF Types
<1>16. QueuesInv'
  BY <1>2, <1>3, <1>4, <1>5, <1>6, <1>7, <1>8, <1>9, <1>10, <1>11, <1>12, <1>13, <1>14,
     QueuesSets DEF QueuesInv
<1>17. WorkInv'
  BY <1>2, <1>3, <1>4, <1>5, <1>6, <1>7, <1>8, <1>9, <1>10, <1>11, <1>12, <1>13, <1>14,
     WorkSets DEF WorkInv
<1>18. UpdatesInv'
  BY <1>2, <1>3, <1>4, <1>5, <1>6, <1>7, <1>8, <1>9, <1>10, <1>11, <1>12, <1>13, <1>14,
     WorkSets DEF UpdatesInv
<1>19. OpeningInv'
  BY <1>2, <1>3, <1>4, <1>5, <1>6, <1>7, <1>8, <1>9, <1>10, <1>11, <1>12, <1>13, <1>14,
     OpeningSets DEF OpeningInv
<1>20. AnswersInv'
  BY <1>2, <1>3, <1>4, <1>5, <1>6, <1>7, <1>8, <1>9, <1>10, <1>11, <1>12, <1>13, <1>14
     DEF AnswersInv, OpenAnsweredOnce
<1>21. ListsInv'
  BY <1>2, <1>3, <1>4, <1>5, <1>6, <1>7, <1>8, <1>9, <1>10, <1>11, <1>12, <1>13, <1>14,
     OpeningSets DEF ListsInv
<1>22. KeysInv'
  BY <1>2, <1>3, <1>4, <1>5, <1>6, <1>7, <1>8, <1>9, <1>10, <1>11, <1>12, <1>13, <1>14,
     OpeningSets, WorkSets DEF KeysInv
<1>23. ServedInv'
  BY <1>2, <1>3, <1>4, <1>5, <1>6, <1>7, <1>8, <1>9, <1>10, <1>11, <1>12, <1>13, <1>14,
     SettingsSets DEF ServedInv
<1>24. SettingsInv'
  <2>1. /\ c \notin GoesBack
        /\ c \notin Refuses => c \in Accepts /\ c \in WillSave
        /\ c \in For(settings') /\ c \in ForConfig(settings'[settings'.net])
    BY <1>5, SettingsSets DEF Config
  <2> SUFFICES ASSUME c \notin Refuses PROVE LibraryWillAgree' /\ DiskWillAgree'
    BY <1>6 DEF SettingsInv
  <2>2. Final' = settings'
    BY <1>6, <1>12, <2>1 DEF Final
  <2> QED BY <1>6, <2>1, <2>2 DEF LibraryWillAgree, DiskWillAgree
<1> QED BY <1>15, <1>16, <1>17, <1>18, <1>19, <1>20, <1>21, <1>22, <1>23, <1>24

\* Before the library has started.
LEMMA LibraryStarts ==
    IInv /\ OnLibraryStarted =>
        /\ libCalls # <<>> /\ Head(libCalls).what = "init"
        /\ state = "Opening" /\ answers = <<>> /\ ~ switched
        /\ list = {} /\ work = "none" /\ ~ updating /\ ~ started /\ health = "fresh"
        /\ library = NoConfig
        /\ Has(libCalls, Inits) /\ future \subseteq {disk[settings.net]}
        /\ ~ Has(libCalls, NotOfOpening) /\ ~ Has(dbCalls, NotOfOpening)
<1> SUFFICES ASSUME IInv, OnLibraryStarted
             PROVE  /\ libCalls # <<>> /\ Head(libCalls).what = "init"
                    /\ state = "Opening" /\ answers = <<>> /\ ~ switched
                    /\ list = {} /\ work = "none" /\ ~ updating /\ ~ started
                    /\ health = "fresh" /\ library = NoConfig
                    /\ Has(libCalls, Inits) /\ future \subseteq {disk[settings.net]}
                    /\ ~ Has(libCalls, NotOfOpening) /\ ~ Has(dbCalls, NotOfOpening)
  OBVIOUS
<1>1. /\ libCalls \in Seq(Call) /\ libCalls # <<>> /\ Head(libCalls).what = "init"
  BY DEF IInv, Types, OnLibraryStarted, Ready
<1>2. Has(libCalls, Inits)
  BY <1>1, TailCall, OpeningSets
<1>3. state = "Opening" /\ answers = <<>>
  BY <1>2 DEF IInv, OpeningInv, AnswersInv, OpenAnsweredOnce
<1> QED BY <1>1, <1>2, <1>3 DEF IInv, OpeningInv, ListsInv

\* The library has started, and the list has not come.
LEMMA LibraryOpensIInv == IInv /\ OnLibraryStarted /\ future = {} => IInv'
<1> SUFFICES ASSUME IInv, OnLibraryStarted /\ future = {} PROVE IInv'
  OBVIOUS
<1> USE DEF IInv
<1> DEFINE h == Head(libCalls)
<1>1. libCalls \in Seq(Call) /\ dbCalls \in Seq(Call)
  BY DEF Types
<1>2. /\ libCalls # <<>> /\ libCalls' = Tail(libCalls) /\ future = {}
      /\ h.what = "init" /\ state' = "Opened" /\ state = "Opening"
      /\ answers = <<>> /\ ~ switched
      /\ list = {} /\ work = "none" /\ ~ updating /\ ~ started /\ health = "fresh"
      /\ library = NoConfig
      /\ future \subseteq {disk[settings.net]}
      /\ UNCHANGED <<list, updating, switched, settings, answers, health, work, started,
                     upgrade, future, dbCalls, library, disk, counts>>
  BY LibraryStarts DEF OnLibraryStarted
<1>3. /\ h \in Call /\ libCalls' \in Seq(Call)
      /\ \A V : Has(libCalls, V) <=> h \in V \/ Has(libCalls', V)
      /\ \A V : One(libCalls, V) <=> One(libCalls', V) /\ (h \in V => ~ Has(libCalls', V))
      /\ \A V, W : Before(libCalls, V, W) <=>
                      /\ Before(libCalls', V, W)
                      /\ h \in W => ~ Has(libCalls', V) /\ h \notin V
      /\ \A V, T : LastIn(libCalls, V, T) <=>
                      /\ LastIn(libCalls', V, T)
                      /\ h \in V => h \in T \/ Has(libCalls', V)
  BY <1>1, <1>2, TailCall
<1> HIDE DEF h
<1>4. /\ Has(libCalls, Inits) /\ One(dbCalls, Lists)
      /\ Has(libCalls, Opening) /\ ~ Has(dbCalls, Opening)
      /\ (Has(dbCalls, Lists) => future = {})
  BY <1>1, LibraryStarts, HasSets DEF OpeningInv
<1>5. /\ h \in Inits /\ h \in Opening /\ ~ Has(libCalls', Opening) /\ ~ Has(libCalls', Inits)
      /\ ~ Has(dbCalls, Opens)
  BY <1>1, <1>2, <1>3, <1>4, OpeningSets, HasSets DEF OpeningInv
<1>6. /\ ~ Has(libCalls', KeyCalls) /\ ~ Has(dbCalls, KeyCalls)
      /\ ~ Has(libCalls', KeySaves) /\ ~ Has(dbCalls, KeySaves)
      /\ ~ Has(libCalls', Switches) /\ ~ Has(libCalls', GoesBack) /\ ~ Has(libCalls', Accepts)
      /\ ~ Has(libCalls', WillSave) /\ ~ Has(dbCalls, Saves)
  BY <1>1, <1>2, <1>3, OnlyOpening
<1>7. /\ \A net, listed, keys : ~ Has(libCalls', FalseKeys(net, listed, keys))
      /\ \A net, listed, keys : ~ Has(dbCalls, FalseKeys(net, listed, keys))
      /\ ~ Has(libCalls', Updates) /\ ~ Has(dbCalls, Updates)
      /\ \A s : ~ Has(libCalls', OtherSwitches(s))
  BY <1>1, <1>2, <1>3, <1>6, NoSwitch, HasSets
<1>8. Types'
  BY <1>2, <1>3, <1>4, <1>5, <1>6, <1>7 DEF Types
<1>9. QueuesInv'
  BY <1>2, <1>3, <1>4, <1>5, <1>6, <1>7, QueuesSets DEF QueuesInv
<1>10. WorkInv'
  BY <1>2, <1>3, <1>4, <1>5, <1>6, <1>7, WorkSets DEF WorkInv
<1>11. UpdatesInv'
  BY <1>2, <1>3, <1>4, <1>5, <1>6, <1>7, WorkSets DEF UpdatesInv
<1>12. OpeningInv'
  BY <1>2, <1>3, <1>4, <1>5, <1>6, <1>7, OpeningSets DEF OpeningInv
<1>13. AnswersInv'
  BY <1>2, <1>3, <1>4, <1>5, <1>6, <1>7 DEF AnswersInv, OpenAnsweredOnce
<1>14. ListsInv'
  BY <1>2, <1>3, <1>4, <1>5, <1>6, <1>7, OpeningSets DEF ListsInv
<1>15. KeysInv'
  BY <1>2, <1>3, <1>4, <1>5, <1>6, <1>7, OpeningSets, WorkSets DEF KeysInv
<1>16. ServedInv'
  BY <1>2, <1>3, <1>4, <1>5, <1>6, <1>7, SettingsSets DEF ServedInv
<1>17. SettingsInv'
  BY <1>2, <1>3, <1>4, <1>5, <1>6, <1>7, SettingsSets DEF SettingsInv,
     LibraryWillAgree, DiskWillAgree, Final
<1> QED BY <1>8, <1>9, <1>10, <1>11, <1>12, <1>13, <1>14, <1>15, <1>16, <1>17

\* It has started, and the list is there.
LEMMA OpenedIInv == IInv /\ OnLibraryStarted /\ future # {} /\ upgrade = "None" => IInv'
<1> SUFFICES ASSUME IInv, OnLibraryStarted /\ future # {} /\ upgrade = "None" PROVE IInv'
  OBVIOUS
<1> USE DEF IInv
<1> DEFINE h == Head(libCalls)
<1>1. libCalls \in Seq(Call) /\ dbCalls \in Seq(Call)
  BY DEF Types
<1>2. /\ libCalls # <<>> /\ libCalls' = Tail(libCalls)
      /\ list' = disk[settings.net] /\ future # {}
      /\ h.what = "init" /\ state' = "Opened" /\ state = "Opening"
      /\ answers = <<>> /\ ~ switched
      /\ list = {} /\ work = "none" /\ ~ updating /\ ~ started /\ health = "fresh"
      /\ library = NoConfig
      /\ future \subseteq {disk[settings.net]}
      /\ answers' = Append(answers, "ok") /\ switched' = FALSE
      /\ UNCHANGED <<updating, settings, health, work, started,
                     upgrade, future, dbCalls, library, disk, counts>>
  BY LibraryStarts DEF OnLibraryStarted, Opened
<1>3. /\ h \in Call /\ libCalls' \in Seq(Call)
      /\ \A V : Has(libCalls, V) <=> h \in V \/ Has(libCalls', V)
      /\ \A V : One(libCalls, V) <=> One(libCalls', V) /\ (h \in V => ~ Has(libCalls', V))
      /\ \A V, W : Before(libCalls, V, W) <=>
                      /\ Before(libCalls', V, W)
                      /\ h \in W => ~ Has(libCalls', V) /\ h \notin V
      /\ \A V, T : LastIn(libCalls, V, T) <=>
                      /\ LastIn(libCalls', V, T)
                      /\ h \in V => h \in T \/ Has(libCalls', V)
  BY <1>1, <1>2, TailCall
<1> HIDE DEF h
<1>4. answers' = <<"ok">> /\ disk[settings.net] \in SUBSET Keys
  BY <1>2 DEF Types, Disk, Settings, Networks
<1>5. /\ Has(libCalls, Inits) /\ One(dbCalls, Lists)
      /\ Has(libCalls, Opening) /\ ~ Has(dbCalls, Opening)
      /\ (Has(dbCalls, Lists) => future = {})
  BY <1>1, LibraryStarts, HasSets DEF OpeningInv
<1>6. /\ h \in Inits /\ h \in Opening /\ ~ Has(libCalls', Opening) /\ ~ Has(libCalls', Inits)
      /\ ~ Has(dbCalls, Opens)
  BY <1>1, <1>2, <1>3, <1>5, OpeningSets, HasSets DEF OpeningInv
<1>7. /\ ~ Has(libCalls', KeyCalls) /\ ~ Has(dbCalls, KeyCalls)
      /\ ~ Has(libCalls', KeySaves) /\ ~ Has(dbCalls, KeySaves)
      /\ ~ Has(libCalls', Switches) /\ ~ Has(libCalls', GoesBack) /\ ~ Has(libCalls', Accepts)
      /\ ~ Has(libCalls', WillSave) /\ ~ Has(dbCalls, Saves)
  BY <1>1, <1>2, <1>3, OnlyOpening
<1>8. /\ \A net, listed, keys : ~ Has(libCalls', FalseKeys(net, listed, keys))
      /\ \A net, listed, keys : ~ Has(dbCalls, FalseKeys(net, listed, keys))
      /\ ~ Has(libCalls', Updates) /\ ~ Has(dbCalls, Updates)
      /\ \A s : ~ Has(libCalls', OtherSwitches(s))
  BY <1>1, <1>2, <1>3, <1>7, NoSwitch, HasSets
<1>9. Types'
  BY <1>2, <1>3, <1>4, <1>5, <1>6, <1>7, <1>8 DEF Types
<1>10. QueuesInv'
  BY <1>2, <1>3, <1>4, <1>5, <1>6, <1>7, <1>8, QueuesSets DEF QueuesInv
<1>11. WorkInv'
  BY <1>2, <1>3, <1>4, <1>5, <1>6, <1>7, <1>8, WorkSets DEF WorkInv
<1>12. UpdatesInv'
  BY <1>2, <1>3, <1>4, <1>5, <1>6, <1>7, <1>8, WorkSets DEF UpdatesInv
<1>13. OpeningInv'
  BY <1>2, <1>3, <1>4, <1>5, <1>6, <1>7, <1>8, OpeningSets DEF OpeningInv
<1>14. AnswersInv'
  BY <1>2, <1>3, <1>4, <1>5, <1>6, <1>7, <1>8 DEF AnswersInv, OpenAnsweredOnce
<1>15. ListsInv'
  BY <1>2, <1>3, <1>4, <1>5, <1>6, <1>7, <1>8, OpeningSets DEF ListsInv
<1>16. KeysInv'
  BY <1>2, <1>3, <1>4, <1>5, <1>6, <1>7, <1>8, OpeningSets, WorkSets DEF KeysInv
<1>17. ServedInv'
  BY <1>2, <1>3, <1>4, <1>5, <1>6, <1>7, <1>8, SettingsSets DEF ServedInv
<1>18. SettingsInv'
  BY <1>2, <1>3, <1>4, <1>5, <1>6, <1>7, <1>8, SettingsSets DEF SettingsInv,
     LibraryWillAgree, DiskWillAgree, Final
<1> QED BY <1>9, <1>10, <1>11, <1>12, <1>13, <1>14, <1>15, <1>16, <1>17, <1>18

\* An upgrade of the test network is given to the library and saved.
LEMMA OpenedTestnet2IInv == IInv /\
       OnLibraryStarted /\ future # {} /\ upgrade = "TestnetToTestnet2" => IInv'
<1> SUFFICES ASSUME IInv,
       OnLibraryStarted /\ future # {} /\ upgrade = "TestnetToTestnet2" PROVE IInv'
  OBVIOUS
<1> USE DEF IInv
<1> DEFINE h == Head(libCalls)
           l == Tail(libCalls)
           c == New("config", settings, {}, "nobody")
<1>1. libCalls \in Seq(Call) /\ dbCalls \in Seq(Call)
  BY DEF Types
<1>2. /\ libCalls # <<>> /\ libCalls' = Append(l, c)
      /\ list' = disk[settings.net] /\ future # {}
      /\ h.what = "init" /\ state' = "Opened" /\ state = "Opening"
      /\ answers = <<>> /\ ~ switched
      /\ list = {} /\ work = "none" /\ ~ updating /\ ~ started /\ health = "fresh"
      /\ library = NoConfig
      /\ future \subseteq {disk[settings.net]}
      /\ answers' = Append(answers, "ok") /\ switched' = FALSE
      /\ UNCHANGED <<updating, settings, health, work, started,
                     upgrade, future, dbCalls, library, disk, counts>>
  BY LibraryStarts DEF OnLibraryStarted, Opened, SetConfig
<1>3. /\ c \in Call /\ c.what = "config" /\ c.settings = settings /\ c.keys = {}
      /\ c.after = "nobody" /\ c.said = "pending"
  BY NewCall DEF Types, Afters
<1>4. /\ h \in Call /\ l \in Seq(Call)
      /\ \A V : Has(libCalls, V) <=> h \in V \/ Has(l, V)
      /\ \A V : One(libCalls, V) <=> One(l, V) /\ (h \in V => ~ Has(l, V))
      /\ \A V, W : Before(libCalls, V, W) <=>
                      /\ Before(l, V, W)
                      /\ h \in W => ~ Has(l, V) /\ h \notin V
      /\ \A V, T : LastIn(libCalls, V, T) <=>
                      /\ LastIn(l, V, T)
                      /\ h \in V => h \in T \/ Has(l, V)
  BY <1>1, <1>2, TailCall
<1> HIDE DEF h, l, c
<1>5. /\ libCalls' \in Seq(Call)
      /\ \A V : Has(libCalls', V) <=> Has(l, V) \/ c \in V
      /\ \A V : One(libCalls', V) <=> One(l, V) /\ (c \in V => ~ Has(l, V))
      /\ \A V, W : Before(libCalls', V, W) <=>
                      Before(l, V, W) /\ (c \in V => ~ Has(l, W) /\ c \notin W)
      /\ \A V, T : LastIn(libCalls', V, T) <=>
                      (IF c \in V THEN c \in T ELSE LastIn(l, V, T))
  BY <1>2, <1>4, <1>3, AppendCall
<1>6. answers' = <<"ok">> /\ disk[settings.net] \in SUBSET Keys
  BY <1>2 DEF Types, Disk, Settings, Networks
<1>7. /\ Has(libCalls, Inits) /\ One(dbCalls, Lists)
      /\ Has(libCalls, Opening) /\ ~ Has(dbCalls, Opening)
      /\ (Has(dbCalls, Lists) => future = {})
  BY <1>1, LibraryStarts, HasSets DEF OpeningInv
<1>8. /\ h \in Inits /\ h \in Opening /\ ~ Has(l, Opening) /\ ~ Has(l, Inits)
      /\ ~ Has(dbCalls, Opens)
  BY <1>1, <1>2, <1>4, <1>7, OpeningSets, HasSets DEF OpeningInv
<1>9. /\ ~ Has(l, KeyCalls) /\ ~ Has(dbCalls, KeyCalls)
      /\ ~ Has(l, KeySaves) /\ ~ Has(dbCalls, KeySaves)
      /\ ~ Has(l, Switches) /\ ~ Has(l, GoesBack) /\ ~ Has(l, Accepts)
      /\ ~ Has(l, WillSave) /\ ~ Has(dbCalls, Saves)
  BY <1>1, <1>2, <1>4, OnlyOpening
<1>10. /\ \A net, listed, keys : ~ Has(l, FalseKeys(net, listed, keys))
       /\ \A net, listed, keys : ~ Has(dbCalls, FalseKeys(net, listed, keys))
       /\ ~ Has(l, Updates) /\ ~ Has(dbCalls, Updates)
       /\ \A s : ~ Has(l, OtherSwitches(s))
  BY <1>1, <1>2, <1>4, <1>9, NoSwitch, HasSets
<1>11. Types'
  BY <1>2, <1>3, <1>4, <1>5, <1>6, <1>7, <1>8, <1>9, <1>10 DEF Types
<1>12. QueuesInv'
  BY <1>2, <1>3, <1>4, <1>5, <1>6, <1>7, <1>8, <1>9, <1>10, QueuesSets DEF QueuesInv
<1>13. WorkInv'
  BY <1>2, <1>3, <1>4, <1>5, <1>6, <1>7, <1>8, <1>9, <1>10, WorkSets DEF WorkInv
<1>14. UpdatesInv'
  BY <1>2, <1>3, <1>4, <1>5, <1>6, <1>7, <1>8, <1>9, <1>10, WorkSets DEF UpdatesInv
<1>15. OpeningInv'
  BY <1>2, <1>3, <1>4, <1>5, <1>6, <1>7, <1>8, <1>9, <1>10, OpeningSets DEF OpeningInv
<1>16. AnswersInv'
  BY <1>2, <1>3, <1>4, <1>5, <1>6, <1>7, <1>8, <1>9, <1>10 DEF AnswersInv,
     OpenAnsweredOnce
<1>17. ListsInv'
  BY <1>2, <1>3, <1>4, <1>5, <1>6, <1>7, <1>8, <1>9, <1>10, OpeningSets DEF ListsInv
<1>18. KeysInv'
  BY <1>2, <1>3, <1>4, <1>5, <1>6, <1>7, <1>8, <1>9, <1>10, OpeningSets, WorkSets DEF
     KeysInv
<1>19. ServedInv'
  BY <1>2, <1>3, <1>4, <1>5, <1>6, <1>7, <1>8, <1>9, <1>10, SettingsSets DEF ServedInv
<1>20. SettingsInv'
  <2>1. /\ c \notin GoesBack
        /\ c \notin Refuses => c \in Accepts /\ c \in WillSave
        /\ c \in For(settings) /\ c \in ForConfig(settings[settings.net])
    BY <1>3, SettingsSets DEF Config
  <2> SUFFICES ASSUME c \notin Refuses PROVE LibraryWillAgree'
    BY <1>2, <1>5 DEF SettingsInv
  <2>2. Final' = settings
    BY <1>2, <1>5, <1>9, <2>1 DEF Final
  <2> QED BY <1>2, <1>5, <2>1, <2>2 DEF LibraryWillAgree
<1> QED BY <1>11, <1>12, <1>13, <1>14, <1>15, <1>16, <1>17, <1>18, <1>19, <1>20

\* After an upgrade to the main network it is to be switched to, too.
LEMMA OpenedMainIInv == IInv /\
       OnLibraryStarted /\ future # {} /\ upgrade = "TestnetToMainnet" => IInv'
<1> SUFFICES ASSUME IInv,
       OnLibraryStarted /\ future # {} /\ upgrade = "TestnetToMainnet" PROVE IInv'
  OBVIOUS
<1> USE DEF IInv
<1> DEFINE h == Head(libCalls)
           l == Tail(libCalls)
           c == New("config", settings, {}, "nobody")
           m == Append(l, c)
           after == IF [settings EXCEPT !.net = "main"].net = settings.net
                      THEN "finish" ELSE "deletion"
           e == New("config", [[settings EXCEPT !.net = "main"] EXCEPT !.net = settings.net],
                     {}, after)
<1>1. libCalls \in Seq(Call) /\ dbCalls \in Seq(Call)
  BY DEF Types
<1>2. /\ libCalls # <<>> /\ libCalls' = Append(m, e)
      /\ list' = disk[settings.net] /\ future # {}
      /\ h.what = "init" /\ state' = "Opened" /\ state = "Opening"
      /\ answers = <<>> /\ ~ switched
      /\ list = {} /\ work = "none" /\ ~ updating /\ ~ started /\ health = "fresh"
      /\ library = NoConfig
      /\ future \subseteq {disk[settings.net]}
      /\ answers' = answers /\ switched' = TRUE /\ updating' = TRUE
      /\ settings' = [[settings EXCEPT !.net = "main"] EXCEPT !.net = settings.net]
      /\ health' = "changed"
      /\ UNCHANGED <<work, started, upgrade, future, dbCalls, library, disk, counts>>
  BY LibraryStarts DEF OnLibraryStarted, Opened, WalletUpdate, ExternalUpdate, SetConfig
<1>3. /\ c \in Call /\ c.what = "config" /\ c.settings = settings /\ c.keys = {}
      /\ c.after = "nobody" /\ c.said = "pending"
  BY NewCall DEF Types, Afters
<1>4. [[settings EXCEPT !.net = "main"] EXCEPT !.net = settings.net] = settings
  BY DEF Types, Settings
<1>5. settings' = settings
  BY <1>2, <1>4
<1>6. /\ e \in Call /\ e.what = "config" /\ e.settings = settings /\ e.keys = {}
      /\ e.after \in {"finish", "deletion"} /\ e.said = "pending"
  BY <1>4, <1>5, NewCall DEF Types, Afters
<1>7. /\ h \in Call /\ l \in Seq(Call)
      /\ \A V : Has(libCalls, V) <=> h \in V \/ Has(l, V)
      /\ \A V : One(libCalls, V) <=> One(l, V) /\ (h \in V => ~ Has(l, V))
      /\ \A V, W : Before(libCalls, V, W) <=>
                      /\ Before(l, V, W)
                      /\ h \in W => ~ Has(l, V) /\ h \notin V
      /\ \A V, T : LastIn(libCalls, V, T) <=>
                      /\ LastIn(l, V, T)
                      /\ h \in V => h \in T \/ Has(l, V)
  BY <1>1, <1>2, TailCall
<1> HIDE DEF h, l, c, after, e
<1>8. /\ m \in Seq(Call)
      /\ \A V : Has(m, V) <=> Has(l, V) \/ c \in V
      /\ \A V : One(m, V) <=> One(l, V) /\ (c \in V => ~ Has(l, V))
      /\ \A V, W : Before(m, V, W) <=>
                      Before(l, V, W) /\ (c \in V => ~ Has(l, W) /\ c \notin W)
      /\ \A V, T : LastIn(m, V, T) <=>
                      (IF c \in V THEN c \in T ELSE LastIn(l, V, T))
  BY <1>7, <1>3, AppendCall
<1> HIDE DEF m
<1>9. /\ libCalls' \in Seq(Call)
      /\ \A V : Has(libCalls', V) <=> Has(m, V) \/ e \in V
      /\ \A V : One(libCalls', V) <=> One(m, V) /\ (e \in V => ~ Has(m, V))
      /\ \A V, W : Before(libCalls', V, W) <=>
                      Before(m, V, W) /\ (e \in V => ~ Has(m, W) /\ e \notin W)
      /\ \A V, T : LastIn(libCalls', V, T) <=>
                      (IF e \in V THEN e \in T ELSE LastIn(m, V, T))
  BY <1>2, <1>8, <1>6, AppendCall
<1>10. disk[settings.net] \in SUBSET Keys
  BY DEF Types, Disk, Settings, Networks
<1>11. /\ Has(libCalls, Inits) /\ One(dbCalls, Lists)
       /\ Has(libCalls, Opening) /\ ~ Has(dbCalls, Opening)
       /\ (Has(dbCalls, Lists) => future = {})
  BY <1>1, LibraryStarts, HasSets DEF OpeningInv
<1>12. /\ h \in Inits /\ h \in Opening /\ ~ Has(l, Opening) /\ ~ Has(l, Inits)
       /\ ~ Has(dbCalls, Opens)
  BY <1>1, <1>2, <1>7, <1>11, OpeningSets, HasSets DEF OpeningInv
<1>13. /\ ~ Has(l, KeyCalls) /\ ~ Has(dbCalls, KeyCalls)
       /\ ~ Has(l, KeySaves) /\ ~ Has(dbCalls, KeySaves)
       /\ ~ Has(l, Switches) /\ ~ Has(l, GoesBack) /\ ~ Has(l, Accepts)
       /\ ~ Has(l, WillSave) /\ ~ Has(dbCalls, Saves)
  BY <1>1, <1>2, <1>7, OnlyOpening
<1>14. /\ \A net, listed, keys : ~ Has(l, FalseKeys(net, listed, keys))
       /\ \A net, listed, keys : ~ Has(dbCalls, FalseKeys(net, listed, keys))
       /\ ~ Has(l, Updates) /\ ~ Has(dbCalls, Updates)
       /\ \A s : ~ Has(l, OtherSwitches(s))
  BY <1>1, <1>2, <1>7, <1>13, NoSwitch, HasSets
<1>15. Types'
  BY <1>2, <1>3, <1>4, <1>5, <1>6, <1>7, <1>8, <1>9, <1>10, <1>11, <1>12, <1>13, <1>14
     DEF Types
<1>16. QueuesInv'
  BY <1>2, <1>3, <1>4, <1>5, <1>6, <1>7, <1>8, <1>9, <1>10, <1>11, <1>12, <1>13, <1>14,
     QueuesSets DEF QueuesInv
<1>17. WorkInv'
  BY <1>2, <1>3, <1>4, <1>5, <1>6, <1>7, <1>8, <1>9, <1>10, <1>11, <1>12, <1>13, <1>14,
     WorkSets DEF WorkInv
<1>18. UpdatesInv'
  BY <1>2, <1>3, <1>4, <1>5, <1>6, <1>7, <1>8, <1>9, <1>10, <1>11, <1>12, <1>13, <1>14,
     WorkSets DEF UpdatesInv
<1>19. OpeningInv'
  BY <1>2, <1>3, <1>4, <1>5, <1>6, <1>7, <1>8, <1>9, <1>10, <1>11, <1>12, <1>13, <1>14,
     OpeningSets DEF OpeningInv
<1>20. AnswersInv'
  BY <1>2, <1>3, <1>4, <1>5, <1>6, <1>7, <1>8, <1>9, <1>10, <1>11, <1>12, <1>13, <1>14
     DEF AnswersInv, OpenAnsweredOnce
<1>21. ListsInv'
  BY <1>2, <1>3, <1>4, <1>5, <1>6, <1>7, <1>8, <1>9, <1>10, <1>11, <1>12, <1>13, <1>14,
     OpeningSets DEF ListsInv
<1>22. KeysInv'
  BY <1>2, <1>3, <1>4, <1>5, <1>6, <1>7, <1>8, <1>9, <1>10, <1>11, <1>12, <1>13, <1>14,
     OpeningSets, WorkSets DEF KeysInv
<1>23. ServedInv'
  BY <1>2, <1>3, <1>4, <1>5, <1>6, <1>7, <1>8, <1>9, <1>10, <1>11, <1>12, <1>13, <1>14,
     SettingsSets DEF ServedInv
<1>24. SettingsInv'
  <2>1. /\ c \notin GoesBack /\ e \notin GoesBack
        /\ e \notin Refuses => e \in Accepts /\ e \in WillSave
        /\ e \in For(settings) /\ e \in ForConfig(settings[settings.net])
    BY <1>3, <1>6, SettingsSets DEF Config
  <2> SUFFICES ASSUME e \notin Refuses PROVE LibraryWillAgree' /\ DiskWillAgree'
    BY <1>9 DEF SettingsInv
  <2>2. Final' = settings
    BY <1>5, <1>8, <1>9, <1>13, <2>1 DEF Final
  <2> QED BY <1>5, <1>9, <2>1, <2>2 DEF LibraryWillAgree, DiskWillAgree
<1> QED BY <1>15, <1>16, <1>17, <1>18, <1>19, <1>20, <1>21, <1>22, <1>23, <1>24

-----------------------------------------------------------------------------
(* The library and the database serve calls *)

\* Calls are answered in order; the one that has just been is the last one that
\* is.
LEMMA ServeCall ==
    ASSUME NEW q \in Seq(Call), NEW t \in Seq(Call), NEW i \in DOMAIN q, Turn(q, i),
           DOMAIN t = DOMAIN q, \A j \in DOMAIN q : j # i => t[j] = q[j],
           t[i].said # "pending", Before(q, IsServed, Waits)
    PROVE  /\ Before(t, IsServed, Waits)
           /\ \A V : Has(t, V) => Has(q, V) \/ t[i] \in V
           /\ \A V, T : /\ \A c \in Call : c \in V => c \in IsServed
                        /\ t[i] \in T
                        /\ t[i] \in V
                        => LastIn(t, V, T)
<1>1. /\ \A j \in DOMAIN q : q[j] \in Call /\ t[j] \in Call
      /\ DOMAIN q = 1..Len(q) /\ Len(q) \in Nat
  BY ElementOfSeq, LenProperties
<1>2. \A j \in DOMAIN q : j < i => q[j].said # "pending"
  BY <1>1 DEF Turn
<1>3. \A j \in DOMAIN q : i < j => q[j] \notin IsServed
  <2>1. q[i] \in Waits
    BY <1>1, QueuesSets DEF Turn
  <2> QED BY <1>1, <2>1 DEF Before
<1>4. \A j \in DOMAIN q : t[j] \in IsServed => j <= i
  BY <1>1, <1>3
<1>5. \A j \in DOMAIN q : t[j] \in Waits => i < j
  <2> SUFFICES ASSUME NEW j \in DOMAIN q, j <= i PROVE t[j] \notin Waits
    BY <1>1
  <2>1. t[j].said # "pending"
    BY <1>1, <1>2
  <2> QED BY <1>1, <2>1, QueuesSets
<1>6. Before(t, IsServed, Waits)
  <2> SUFFICES ASSUME NEW j \in DOMAIN q, NEW k \in DOMAIN q,
                      t[j] \in IsServed, t[k] \in Waits
               PROVE  j < k
    BY DEF Before
  <2>1. j <= i /\ i < k
    BY <1>4, <1>5
  <2> QED BY <1>1, <2>1
<1>7. \A V : Has(t, V) => Has(q, V) \/ t[i] \in V
  BY DEF Has
<1>8. ASSUME NEW V, NEW T, \A c \in Call : c \in V => c \in IsServed,
             t[i] \in T, t[i] \in V
      PROVE  LastIn(t, V, T)
  <2> SUFFICES ASSUME NEW j \in DOMAIN q, t[j] \in V, t[j] \notin T
               PROVE  \E k \in DOMAIN q : j < k /\ t[k] \in V
    BY DEF LastIn
  <2>1. j <= i /\ j # i
    BY <1>1, <1>4, <1>8
  <2> QED BY <1>1, <1>8, <2>1
<1> QED BY <1>6, <1>7, <1>8

\* The library answers a call.
LEMMA LibServesIInv == IInv /\ LibServes => IInv'
<1> SUFFICES ASSUME IInv, LibServes PROVE IInv'
  OBVIOUS
<1> USE DEF IInv
<1>1. libCalls \in Seq(Call) /\ dbCalls \in Seq(Call)
  BY DEF Types
<1>2. PICK i \in DOMAIN libCalls, said \in {"ok", "error"} :
         LET c == libCalls[i]
             config == c.settings[c.settings.net]
         IN /\ Turn(libCalls, i)
            /\ c.what = "config" => (said = "ok" <=> config \in Valid)
            /\ libCalls' = Answer(libCalls, i, said)
            /\ library' = IF c.what = "config" /\ said = "ok" THEN config
                                                             ELSE library
  BY DEF LibServes
<1> DEFINE c == libCalls[i]
           a == libCalls'[i]
<1>3. c \in Call /\ c.said = "pending"
  BY <1>1, <1>2, ElementOfSeq, LenProperties DEF Turn
<1>4. /\ libCalls' \in Seq(Call) /\ DOMAIN libCalls' = DOMAIN libCalls
      /\ \A j \in DOMAIN libCalls : j # i => libCalls'[j] = libCalls[j]
      /\ a = [c EXCEPT !.said = said] /\ a \in Call
  <2>1. a = [c EXCEPT !.said = said]
    BY <1>1, <1>2 DEF Answer
  <2>2. a \in Call
    BY <1>3, <2>1 DEF Call
  <2>3. libCalls' = [libCalls EXCEPT ![i] = a]
    BY <1>1, <1>2, <2>1 DEF Answer
  <2> QED BY <1>1, <2>1, <2>2, <2>3, ExceptSeq
<1>5. /\ a.what = c.what /\ a.after = c.after /\ a.settings = c.settings
      /\ a.keys = c.keys /\ a.said = said /\ Config(a) = Config(c)
  BY <1>3, <1>4 DEF Call, Config
<1>6. /\ c.what = "config" => (said = "ok" <=> Config(c) \in Valid)
      /\ library' = IF c.what = "config" /\ said = "ok" THEN Config(c) ELSE library
  BY <1>2 DEF Config
<1>7. UNCHANGED <<wallet, external, dbCalls, disk, history>>
  BY DEF LibServes
<1>8. /\ \A V : (c \in V <=> a \in V) => (Has(libCalls, V) <=> Has(libCalls', V))
      /\ \A V : (c \in V <=> a \in V) => (One(libCalls, V) <=> One(libCalls', V))
      /\ \A V, W : (c \in V <=> a \in V) /\ (c \in W <=> a \in W) =>
            (Before(libCalls, V, W) <=> Before(libCalls', V, W))
      /\ \A V, T : (c \in V <=> a \in V) /\ (c \in V => (c \in T <=> a \in T)) =>
            (LastIn(libCalls, V, T) <=> LastIn(libCalls', V, T))
  BY <1>4, AnswerCall
<1>9. /\ Before(libCalls', IsServed, Waits)
      /\ \A V : Has(libCalls', V) => Has(libCalls, V) \/ a \in V
      /\ \A V, T : /\ \A e \in Call : e \in V => e \in IsServed
                   /\ a \in T
                   /\ a \in V
                   => LastIn(libCalls', V, T)
  <2>1. a.said # "pending" /\ Turn(libCalls, i) /\ Before(libCalls, IsServed, Waits)
    BY <1>2, <1>5 DEF QueuesInv
  <2> QED BY <1>1, <1>4, <2>1, ServeCall
<1> HIDE DEF c, a
<1>10. c.what = "config" /\ said = "ok" => library' # NoConfig /\ library' \in Configs
  BY <1>6, ConfigsAssumption
<1>11. Types'
  BY <1>4, <1>6, <1>7, <1>10 DEF Types, wallet, external, history
<1>12. QueuesInv'
  <2>1. c \in ToDatabase <=> a \in ToDatabase
    BY <1>3, <1>4, <1>5, QueuesSets
  <2>2. a \notin Misjudged
    BY <1>4, <1>5, <1>6, QueuesSets
  <2> QED BY <1>7, <1>8, <1>9, <2>1, <2>2 DEF QueuesInv
<1>13. WorkInv'
  BY <1>3, <1>4, <1>5, <1>7, <1>8, WorkSets DEF WorkInv, wallet
<1>14. UpdatesInv'
  BY <1>3, <1>4, <1>5, <1>7, <1>8, WorkSets DEF UpdatesInv, wallet, external
<1>15. c.what = "config" => state = "Opened"
  <2>1. c.what = "config" => c \in NotOfOpening /\ Has(libCalls, NotOfOpening)
    BY <1>3, OpeningSets DEF Has, c
  <2> QED BY <2>1 DEF OpeningInv
<1>16. OpeningInv'
  BY <1>3, <1>4, <1>5, <1>6, <1>7, <1>8, <1>15, OpeningSets
     DEF OpeningInv, wallet, external, history
<1>17. AnswersInv'
  BY <1>7 DEF AnswersInv, OpenAnsweredOnce, wallet, external, history
<1>18. ListsInv'
  BY <1>3, <1>4, <1>5, <1>7, <1>8, OpeningSets DEF ListsInv, external
<1>19. KeysInv'
  <2>1. c.what # "saveKey"
    <3>1. c.what = "saveKey" => Has(libCalls, ToDatabase)
      BY <1>3, QueuesSets DEF Has, c
    <3> QED BY <3>1 DEF QueuesInv
  <2>2. ASSUME NEW net, NEW listed, NEW keys
        PROVE  c \in FalseKeys(net, listed, keys) <=> a \in FalseKeys(net, listed, keys)
    <3>1. c \in FalseKeys(net, listed, keys) <=>
             c.what = "rekey" /\ (c.settings.net # net \/ ~ (listed \subseteq c.keys))
      BY <1>3, <2>1, OpeningSets
    <3>2. a \in Call /\ a.what # "saveKey"
      BY <1>4, <1>5, <2>1
    <3>3. a \in FalseKeys(net, listed, keys) <=>
             a.what = "rekey" /\ (a.settings.net # net \/ ~ (listed \subseteq a.keys))
      BY <3>2, OpeningSets
    <3> QED BY <1>5, <3>1, <3>3
  <2> QED BY <1>3, <1>4, <1>5, <1>7, <1>8, <2>2, WorkSets
      DEF KeysInv, wallet, external, history
<1>20. ServedInv'
  <2>1. LastIn(dbCalls', Saved, For(disk'.settings))
    BY <1>7 DEF ServedInv
  <2>2. CASE c.what = "config" /\ said = "ok"
    <3>1. a \in Accepted /\ a \in ForConfig(library')
      BY <1>4, <1>5, <1>6, <2>2, SettingsSets
    <3>2. \A e \in Call : e \in Accepted => e \in IsServed
      BY SettingsSets, QueuesSets
    <3> QED BY <1>9, <1>10, <2>1, <2>2, <3>1, <3>2 DEF ServedInv
  <2>3. CASE ~ (c.what = "config" /\ said = "ok")
    <3>1. c \notin Accepted /\ a \notin Accepted /\ library' = library
      BY <1>3, <1>4, <1>5, <1>6, <2>3, SettingsSets
    <3> QED BY <1>7, <1>8, <2>1, <3>1 DEF ServedInv, wallet
  <2> QED BY <2>2, <2>3
<1>21. SettingsInv'
  <2>1. /\ c \in GoesBack <=> a \in GoesBack
        /\ c \in Refuses <=> a \in Refuses
        /\ c \in Accepts <=> a \in Accepts
        /\ c \in WillSave <=> a \in WillSave
        /\ \A s : c \in For(s) <=> a \in For(s)
        /\ \A config : c \in ForConfig(config) <=> a \in ForConfig(config)
    BY <1>3, <1>4, <1>5, SettingsSets
  <2>2. Final' = Final
    BY <1>7, <1>8, <2>1 DEF Final, external
  <2>3. ~ Has(libCalls', Accepts) => library' = library
    <3>1. c.what = "config" /\ said = "ok" => c \in Accepts
      BY <1>3, <1>6, SettingsSets
    <3>2. c \in Accepts => Has(libCalls, Accepts)
      BY DEF Has, c
    <3> QED BY <1>6, <1>8, <2>1, <3>1, <3>2
  <2>4. LibraryWillAgree => LibraryWillAgree'
    BY <1>8, <2>1, <2>2, <2>3 DEF LibraryWillAgree
  <2>5. DiskWillAgree => DiskWillAgree'
    BY <1>7, <1>8, <2>1, <2>2 DEF DiskWillAgree
  <2> QED BY <1>7, <1>8, <2>1, <2>4, <2>5 DEF SettingsInv, history
<1> QED BY <1>11, <1>12, <1>13, <1>14, <1>16, <1>17, <1>18, <1>19, <1>20, <1>21

\* What is saved of a key is right for its network.
LEMMA TrueKeys ==
    ASSUME NEW c \in Call, NEW net, NEW listed, NEW keys,
           c.settings.net = net, listed \subseteq c.keys, c.said = "ok" => c.keys = keys
    PROVE  c \notin FalseKeys(net, listed, keys)
BY DEF FalseKeys

\* The database answers a call.
LEMMA DbServesIInv == IInv /\ DbServes => IInv'
<1> SUFFICES ASSUME IInv, DbServes PROVE IInv'
  OBVIOUS
<1> USE DEF IInv
<1>1. libCalls \in Seq(Call) /\ dbCalls \in Seq(Call)
  BY DEF Types
<1>2. PICK i \in DOMAIN dbCalls, said \in {"ok", "error"} :
         LET c == dbCalls[i] IN
           /\ Turn(dbCalls, i)
           /\ c.what = "list" => said = "ok"
           /\ dbCalls' =
                 [Answer(dbCalls, i, said) EXCEPT
                    ![i].settings =
                       IF c.what = "open" THEN LoadSettings(disk.settings) ELSE @,
                    ![i].keys = IF c.what = "list" THEN disk[c.settings.net] ELSE @]
           /\ disk' =
                 IF said = "error" \/ c.what \in {"open", "list"} THEN disk
                 ELSE IF c.what = "settings"
                        THEN [disk EXCEPT !.settings = c.settings]
                        ELSE [disk EXCEPT ![c.settings.net] = c.keys]
  BY DEF DbServes
<1> DEFINE c == dbCalls[i]
           a == dbCalls'[i]
           s == IF c.what = "open" THEN LoadSettings(disk.settings) ELSE c.settings
           k == IF c.what = "list" THEN disk[c.settings.net] ELSE c.keys
           net == settings.net
<1>3. /\ c \in Call /\ c.said = "pending"
      /\ c.settings \in Settings /\ c.settings.net \in Networks /\ c.keys \in SUBSET Keys
  <2>1. c \in Call /\ c.said = "pending"
    BY <1>1, <1>2, ElementOfSeq, LenProperties DEF Turn
  <2> QED BY <2>1, SettingsTypes DEF Call
<1>4. disk.settings \in Settings /\ \A n \in Networks : disk[n] \in SUBSET Keys
  BY DEF Types, Disk, Networks
<1>5. s \in Settings /\ k \in SUBSET Keys
  BY <1>3, <1>4, SettingsTypes
<1> HIDE DEF s, k
<1>6. /\ dbCalls' \in Seq(Call) /\ DOMAIN dbCalls' = DOMAIN dbCalls
      /\ \A j \in DOMAIN dbCalls : j # i => dbCalls'[j] = dbCalls[j]
      /\ a = [c EXCEPT !.said = said, !.settings = s, !.keys = k] /\ a \in Call
  <2>1. a = [c EXCEPT !.said = said, !.settings = s, !.keys = k]
    BY <1>1, <1>2, <1>3 DEF Answer, Call, s, k
  <2>2. a \in Call
    BY <1>3, <1>5, <2>1 DEF Call
  <2>3. dbCalls' = [dbCalls EXCEPT ![i] = a]
    BY <1>1, <1>2 DEF Answer
  <2> QED BY <1>1, <2>1, <2>2, <2>3, ExceptSeq
<1>7. /\ a.what = c.what /\ a.after = c.after /\ a.said = said
      /\ a.settings = s /\ a.keys = k
      /\ c.what # "open" => a.settings = c.settings
      /\ c.what # "list" => a.keys = c.keys
      /\ c.what = "list" => a.keys = disk[c.settings.net]
  BY <1>3, <1>6 DEF Call, s, k
<1>8. c.what \in {"open", "list", "settings", "saveKey", "saveNone"}
  <2>1. c \notin ToLibrary
    BY DEF QueuesInv, Has
  <2> QED BY <1>3, <2>1, QueuesSets DEF Call
<1>9. /\ disk' \in Disk
      /\ disk'.settings =
            IF said = "ok" /\ c.what = "settings" THEN c.settings ELSE disk.settings
      /\ \A n \in Networks : disk'[n] =
            IF said = "ok" /\ c.what \in {"saveKey", "saveNone"} /\ n = c.settings.net
              THEN c.keys ELSE disk[n]
  <2>1. disk \in Disk
    BY DEF Types
  <2>2. CASE said = "error" \/ c.what \in {"open", "list"}
    BY <1>2, <2>1, <2>2
  <2>3. CASE said = "ok" /\ c.what = "settings"
    <3>1. disk' = [disk EXCEPT !.settings = c.settings]
      BY <1>2, <2>3
    <3> QED BY <1>3, <2>1, <2>3, <3>1 DEF Disk, Networks
  <2>4. CASE said = "ok" /\ c.what \in {"saveKey", "saveNone"}
    <3>1. disk' = [disk EXCEPT ![c.settings.net] = c.keys]
      BY <1>2, <2>4
    <3> QED BY <1>3, <2>1, <2>4, <3>1 DEF Disk, Networks
  <2> QED BY <1>8, <2>2, <2>3, <2>4
<1>10. UNCHANGED <<wallet, external, libCalls, library, history>>
  BY DEF DbServes
<1>11. /\ \A V : (c \in V <=> a \in V) => (Has(dbCalls, V) <=> Has(dbCalls', V))
       /\ \A V : (c \in V <=> a \in V) => (One(dbCalls, V) <=> One(dbCalls', V))
       /\ \A V, W : (c \in V <=> a \in V) /\ (c \in W <=> a \in W) =>
             (Before(dbCalls, V, W) <=> Before(dbCalls', V, W))
       /\ \A V, T : (c \in V <=> a \in V) /\ (c \in V => (c \in T <=> a \in T)) =>
             (LastIn(dbCalls, V, T) <=> LastIn(dbCalls', V, T))
  BY <1>6, AnswerCall
<1>12. /\ Before(dbCalls', IsServed, Waits)
       /\ \A V : Has(dbCalls', V) => Has(dbCalls, V) \/ a \in V
       /\ \A V, T : /\ \A e \in Call : e \in V => e \in IsServed
                    /\ a \in T
                    /\ a \in V
                    => LastIn(dbCalls', V, T)
  <2>1. a.said # "pending" /\ Turn(dbCalls, i) /\ Before(dbCalls, IsServed, Waits)
    BY <1>2, <1>7 DEF QueuesInv
  <2> QED BY <1>1, <1>6, <2>1, ServeCall
<1>13. \A V : (c \in V => Has(dbCalls, V)) /\ (a \in V => Has(dbCalls', V))
  BY <1>6 DEF Has
<1>14. c \in KeyCalls => \A j \in DOMAIN dbCalls : j # i => dbCalls[j] \notin KeyCalls
  BY DEF WorkInv, One
<1>15. settings.net \in Networks
  BY SettingsTypes DEF Types
<1> HIDE DEF c, a
<1>16. Types'
  BY <1>6, <1>9, <1>10 DEF Types, wallet, external, history
<1>17. QueuesInv'
  <2>1. /\ c \in ToLibrary <=> a \in ToLibrary
        /\ c \in StartSaves <=> a \in StartSaves
    BY <1>3, <1>6, <1>7, QueuesSets
  <2> QED BY <1>10, <1>11, <1>12, <2>1 DEF QueuesInv
<1>18. WorkInv'
  BY <1>3, <1>6, <1>7, <1>10, <1>11, WorkSets DEF WorkInv, wallet
<1>19. UpdatesInv'
  BY <1>3, <1>6, <1>7, <1>10, <1>11, WorkSets DEF UpdatesInv, wallet, external
<1>20. OpeningInv'
  BY <1>3, <1>6, <1>7, <1>10, <1>11, OpeningSets
     DEF OpeningInv, wallet, external, history
<1>21. AnswersInv'
  BY <1>3, <1>6, <1>7, <1>10, <1>11, OpeningSets
     DEF AnswersInv, OpenAnsweredOnce, wallet, external, history
<1>22. c.what \in {"saveKey", "saveNone"} =>
          state = "Opened" /\ ~ Has(libCalls, KeyCalls) /\ ~ Has(dbCalls, Lists)
  <2> SUFFICES ASSUME c.what \in {"saveKey", "saveNone"}
               PROVE  state = "Opened" /\ ~ Has(libCalls, KeyCalls) /\ ~ Has(dbCalls, Lists)
    OBVIOUS
  <2>1. Has(dbCalls, KeyCalls)
    BY <1>3, <1>13, WorkSets
  <2>2. state = "Opened"
    BY <2>1, OnlyOpening
  <2>3. work # "none"
    BY <2>1, NoKeyCalls
  <2> QED BY <2>1, <2>2, <2>3 DEF WorkInv, AnswersInv
<1>23. ListsInv'
  <2>1. CASE c.what \in {"saveKey", "saveNone"}
    <3>1. ~ Has(libCalls, Inits)
      BY <1>22, <2>1, OnlyOpening
    <3>2. ~ Has(dbCalls', Lists)
      BY <1>3, <1>6, <1>7, <1>11, <1>22, <2>1, OpeningSets
    <3>3. \A n, keys : ~ Has(dbCalls', FalseLists(n, keys))
      BY <1>6, <3>2, HasSets
    <3> QED BY <1>10, <3>1, <3>3 DEF ListsInv
  <2>2. CASE c.what \notin {"saveKey", "saveNone"}
    <3>1. disk'[settings.net] = disk[settings.net]
      BY <1>9, <1>15, <2>2
    <3>2. c \notin FalseLists(net, disk[net]) => a \notin FalseLists(net, disk[net])
      <4>1. c.what = "list" /\ c.settings.net = net => a.keys = disk[net]
        BY <1>7
      <4> QED BY <1>3, <1>6, <1>7, <4>1, OpeningSets
    <3>3. Has(dbCalls', FalseLists(net, disk[net])) => Has(dbCalls, FalseLists(net, disk[net]))
      BY <1>12, <1>13, <3>2
    <3> QED BY <1>10, <3>1, <3>3 DEF ListsInv, external
  <2> QED BY <2>1, <2>2
<1>24. KeysInv'
  <2> SUFFICES ASSUME health # "astray" PROVE KeysInv'
    BY <1>10 DEF KeysInv, history
  <2>1. /\ Has(libCalls', Switches) => list' = {} /\ work' \notin {"created", "saving"}
        /\ Before(libCalls', Switches, Creates)
    BY <1>10 DEF KeysInv, wallet
  <2>2. /\ ~ Has(libCalls, FalseKeys(net, list, disk[net]))
        /\ ~ Has(dbCalls, FalseKeys(net, list, disk[net]))
        /\ list \subseteq disk[net] \/ Has(dbCalls, Deleted)
    BY DEF KeysInv
  <2> SUFFICES /\ ~ Has(libCalls, FalseKeys(net, list, disk'[net]))
               /\ ~ Has(dbCalls', FalseKeys(net, list, disk'[net]))
               /\ list \subseteq disk'[net] \/ Has(dbCalls', Deleted)
    BY <1>10, <2>1 DEF KeysInv, wallet, external, history
  <2>3. CASE c.what \in {"saveKey", "saveNone"}
    <3>1. \A n, listed, keys : ~ Has(libCalls, FalseKeys(n, listed, keys))
      <4>1. ~ Has(libCalls, KeySaves)
        BY <1>1, <1>22, <2>3, HasSets
      <4> QED BY <1>1, <4>1, HasSets
    <3>2. \A j \in DOMAIN dbCalls : j # i => dbCalls'[j] \notin KeyCalls
      BY <1>3, <1>6, <1>14, <2>3, WorkSets
    <3>3. \A V : Has(dbCalls', V) /\ (\A e \in Call : e \in V => e \in KeyCalls) => a \in V
      <4>1. \A j \in DOMAIN dbCalls' : dbCalls'[j] \in Call
        BY <1>6, ElementOfSeq, LenProperties
      <4> QED BY <1>6, <3>2, <4>1 DEF Has, a
    <3>4. \A n, listed, keys : \A e \in Call :
             e \in FalseKeys(n, listed, keys) => e \in KeyCalls
      BY OpeningSets, WorkSets
    <3>5. CASE c.what = "saveKey"
      <4>1. c.settings.net = net /\ list \subseteq c.keys
        <5>1. c \notin FalseKeys(net, list, disk[net])
          BY <1>13, <2>2
        <5> QED BY <1>3, <3>5, <5>1, OpeningSets
      <4>2. said = "ok" => disk'[net] = c.keys
        BY <1>9, <1>15, <3>5, <4>1
      <4>3. a \notin FalseKeys(net, list, disk'[net])
        <5>1. /\ a.settings.net = net /\ list \subseteq a.keys
              /\ a.said = "ok" => a.keys = disk'[net]
          BY <1>7, <3>5, <4>1, <4>2
        <5> QED BY <1>6, <5>1, TrueKeys
      <4>4. ~ Has(dbCalls', FalseKeys(net, list, disk'[net]))
        BY <3>3, <3>4, <4>3
      <4>5. ~ Has(dbCalls, Deleted)
        <5>1. ~ Has(dbCalls', Deleted)
          <6>1. \A e \in Call : e \in Deleted => e \in KeyCalls
            BY WorkSets
          <6>2. a \notin Deleted
            BY <1>6, <1>7, <3>5, WorkSets
          <6> QED BY <3>3, <6>1, <6>2
        <5> QED BY <1>3, <1>6, <1>7, <1>11, <3>5, <5>1, WorkSets
      <4>6. said # "ok" => disk'[net] = disk[net]
        BY <1>9, <1>15
      <4> QED BY <2>2, <3>1, <4>1, <4>2, <4>4, <4>5, <4>6
    <3>6. CASE c.what = "saveNone"
      <4>1. a \notin FalseKeys(net, list, disk'[net])
        BY <1>6, <1>7, <3>6, OpeningSets
      <4>2. ~ Has(dbCalls', FalseKeys(net, list, disk'[net]))
        BY <3>3, <3>4, <4>1
      <4>3. said = "ok" => Has(dbCalls', Deleted)
        BY <1>6, <1>7, <1>13, <3>6, WorkSets
      <4>4. said # "ok" => /\ disk'[net] = disk[net]
                           /\ Has(dbCalls, Deleted) => Has(dbCalls', Deleted)
        BY <1>3, <1>6, <1>7, <1>9, <1>11, <1>15, WorkSets
      <4> QED BY <2>2, <3>1, <4>2, <4>3, <4>4
    <3> QED BY <2>3, <3>5, <3>6
  <2>4. CASE c.what \notin {"saveKey", "saveNone"}
    <3>1. disk'[net] = disk[net]
      BY <1>9, <1>15, <2>4
    <3>2. /\ c \notin FalseKeys(net, list, disk[net]) /\ a \notin FalseKeys(net, list, disk[net])
          /\ c \notin Deleted /\ a \notin Deleted
      BY <1>3, <1>6, <1>7, <1>8, <2>4, OpeningSets, WorkSets
    <3> QED BY <1>11, <2>2, <3>1, <3>2
  <2> QED BY <2>3, <2>4
<1>25. ServedInv'
  <2>1. CASE said = "ok" /\ c.what = "settings"
    <3>1. a \in Saved /\ a \in For(disk'.settings)
      BY <1>6, <1>7, <1>9, <2>1, SettingsSets
    <3>2. \A e \in Call : e \in Saved => e \in IsServed
      BY SettingsSets, QueuesSets
    <3> QED BY <1>10, <1>12, <3>1, <3>2 DEF ServedInv, wallet
  <2>2. CASE ~ (said = "ok" /\ c.what = "settings")
    <3>1. c \notin Saved /\ a \notin Saved /\ disk'.settings = disk.settings
      BY <1>3, <1>6, <1>7, <1>9, <2>2, SettingsSets
    <3> QED BY <1>10, <1>11, <3>1 DEF ServedInv, wallet
  <2> QED BY <2>1, <2>2
<1>26. SettingsInv'
  <2>1. Final' = Final
    BY <1>10 DEF Final, external
  <2>2. /\ c \in Saves <=> a \in Saves
        /\ c \in Saves => \A t : c \in For(t) <=> a \in For(t)
        /\ c \notin Unsaved
    BY <1>3, <1>6, <1>7, SettingsSets
  <2>3. ~ Has(dbCalls', Saves) => disk'.settings = disk.settings
    <3>1. c.what = "settings" => c \in Saves
      BY <1>3, SettingsSets
    <3> QED BY <1>9, <1>11, <1>13, <2>2, <3>1
  <2>4. Has(dbCalls, Unsaved) => Has(dbCalls', Unsaved)
    <3>1. CASE a \in Unsaved
      BY <1>13, <3>1
    <3>2. CASE a \notin Unsaved
      BY <1>11, <2>2, <3>2
    <3> QED BY <3>1, <3>2
  <2>5. LibraryWillAgree => LibraryWillAgree'
    BY <1>10, <2>1 DEF LibraryWillAgree
  <2>6. DiskWillAgree => DiskWillAgree'
    BY <1>10, <1>11, <2>1, <2>2, <2>3 DEF DiskWillAgree
  <2> QED BY <1>10, <2>4, <2>5, <2>6 DEF SettingsInv, history
<1> QED BY <1>16, <1>17, <1>18, <1>19, <1>20, <1>21, <1>23, <1>24, <1>25, <1>26

-----------------------------------------------------------------------------
(* Every step *)

\* Whatever happens next, the invariant holds after it.
LEMMA NextIInv == IInv /\ [Next]_vars => IInv'
<1> SUFFICES ASSUME IInv, [Next]_vars PROVE IInv'
  OBVIOUS
<1>1. CASE UNCHANGED vars
  BY <1>1 DEF vars, wallet, external, history, IInv, Types, QueuesInv, WorkInv,
     UpdatesInv, OpeningInv, AnswersInv, OpenAnsweredOnce, ListsInv, KeysInv,
     ServedInv, SettingsInv, LibraryWillAgree, DiskWillAgree, Final
<1>2. CASE User
  <2>1. ASSUME NEW s \in Defaults, Open(s) PROVE IInv'
    <3>1. s \in Settings
      BY SettingsAssumption
    <3> QED BY <2>1, <3>1, OpenBeginsIInv, OpenFailsIInv
  <2>2. ASSUME NEW n \in Networks, NEW net \in Networks, NEW c \in Configs,
               UpdateSettings([settings EXCEPT ![n] = c, !.net = net])
        PROVE  IInv'
    <3>1. settings \in Settings
      BY DEF IInv, Types
    <3>2. [settings EXCEPT ![n] = c, !.net = net] \in Settings
      BY <3>1 DEF Settings, Networks
    <3> QED BY <2>2, <3>2, UpdateSettingsIInv
  <2> QED BY <1>2, <2>1, <2>2, StartIInv, CreateKeyIInv, SaveKeyIInv, DeleteAllKeysIInv
      DEF User
<1>3. CASE OnLibraryAnswer
  <2>1. CASE OnConfigRejected
    BY <2>1, ConfigRejectedIInv, SwitchRefusedIInv
  <2>2. CASE OnConfigSet
    BY <2>2, StartedIInv, ConfigSetIInv
  <2>3. CASE OnRekeyed
    BY <2>3, KeyRekeyedIInv, KeyNotRekeyedIInv
  <2>4. CASE OnLibraryStarted
    <3>1. upgrade \in {"None", "TestnetToTestnet2", "TestnetToMainnet"}
      BY DEF IInv, Types
    <3> QED BY <2>4, <3>1, LibraryOpensIInv, OpenedIInv, OpenedTestnet2IInv, OpenedMainIInv
  <2> QED BY <1>3, <2>1, <2>2, <2>3, <2>4, OnLibraryFailedIInv, OnCreatedIInv,
          OnAllDeletedIInv
      DEF OnLibraryAnswer
<1>4. CASE OnDatabaseAnswer
  <2>1. CASE OnDatabaseOpened
    <3>1. state = "Opening"
      BY <2>1, AppliedSettings
    <3> QED BY <2>1, <3>1, DatabaseOpenedIInv, NoPlaceIInv
  <2>2. CASE OnListLoaded
    BY <2>2, ListWaitsIInv, ListOpensIInv, ListOpensMainIInv
  <2>3. CASE OnSettingsSaved
    BY <2>3, SettingsSavedIInv, DeletionStartsIInv
  <2>4. CASE OnSettingsNotSaved
    BY <2>4, SettingsNotSavedIInv, SwitchNotSavedIInv
  <2>5. CASE OnNoneSaved
    BY <2>5, NoneSavedIInv, SwitchGoesOnIInv
  <2> QED BY <1>4, <2>1, <2>2, <2>3, <2>4, <2>5, OnDatabaseFailedIInv, OnKeySavedIInv
      DEF OnDatabaseAnswer
<1> QED BY <1>1, <1>2, <1>3, <1>4, ResetNetworkIInv, RestartIInv, DbServesIInv,
        LibServesIInv
    DEF Next

\* The invariant holds always.
LEMMA AlwaysIInv == Spec => []IInv
BY InitIInv, NextIInv, PTL DEF Spec

-----------------------------------------------------------------------------
(* What it promises *)

\* Types, and a call for each key operation that waits.
LEMMA TypesAndStages == IInv => TypeOK
<1> SUFFICES ASSUME IInv PROVE TypeOK
  OBVIOUS
<1> USE DEF IInv
<1>1. libCalls \in Seq(Call) /\ dbCalls \in Seq(Call)
  BY DEF Types
<1>2. /\ \A i \in DOMAIN libCalls : libCalls[i] \in Call
      /\ \A i \in DOMAIN dbCalls : dbCalls[i] \in Call
  BY <1>1, ElementOfSeq, LenProperties
<1>3. ~ Has(dbCalls, Creates)
  BY CallsInPlace
<1>4. work = "creating" <=> Awaits({"create"})
  BY <1>2, <1>3, WorkSets DEF WorkInv, Has, Awaits
<1>5. work = "saving" <=> Awaits({"rekey", "saveKey"})
  BY <1>2, WorkSets DEF WorkInv, Has, Awaits
<1>6. work = "deleting" <=> Awaits({"deleteAll", "saveNone"})
  BY <1>2, WorkSets DEF WorkInv, Has, Awaits
<1>7. \A w \in DOMAIN Stage : work = w <=> Awaits(Stage[w])
  <2>1. /\ DOMAIN Stage = {"creating", "saving", "deleting"}
        /\ Stage["creating"] = {"create"} /\ Stage["saving"] = {"rekey", "saveKey"}
        /\ Stage["deleting"] = {"deleteAll", "saveNone"}
    BY DEF Stage
  <2> QED BY <1>4, <1>5, <1>6, <2>1
<1>8. answers \in Seq({"ok", "error"})
  <2>1. <<>> \in Seq({"ok", "error"}) /\ <<"ok">> \in Seq({"ok", "error"})
        /\ <<"error">> \in Seq({"ok", "error"})
    OBVIOUS
  <2> QED BY <2>1 DEF Types
<1> QED BY <1>7, <1>8 DEF Types, TypeOK

\* With nothing on its way, what will be is what there is.
LEMMA AtRest == IInv => SettingsAgree
<1> SUFFICES ASSUME IInv, Quiet, health # "astray"
             PROVE  /\ started => library = settings[settings.net]
                    /\ health = "changed" => disk.settings = settings
  BY DEF SettingsAgree
<1> USE DEF IInv
<1>1. libCalls \in Seq(Call) /\ dbCalls \in Seq(Call)
  BY DEF Types
<1>2. /\ \A i \in DOMAIN libCalls : libCalls[i] \in Call
      /\ \A i \in DOMAIN dbCalls : dbCalls[i] \in Call
  BY <1>1, ElementOfSeq, LenProperties
<1>3. /\ ~ Has(libCalls, Accepts) /\ ~ Has(libCalls, Refuses)
      /\ ~ Has(libCalls, WillSave) /\ ~ Has(libCalls, GoesBack)
  BY <1>2, SettingsSets DEF Has, Quiet
<1>4. ~ Has(dbCalls, Saves) /\ ~ Has(dbCalls, Unsaved)
  BY <1>2, SettingsSets DEF Has, Quiet
<1>5. Final = settings
  BY <1>3 DEF Final
<1>6. LibraryWillAgree /\ (health = "changed" => DiskWillAgree)
  BY <1>3, <1>4 DEF SettingsInv
<1> QED BY <1>3, <1>4, <1>5, <1>6 DEF LibraryWillAgree, DiskWillAgree, ServedInv

\* Only a deletion under way can leave keys listed that are not saved.
LEMMA ListedIsSaved == IInv => ListOfThisNetwork
<1> SUFFICES ASSUME IInv, health # "astray", work \in {"none", "creating", "created"}
             PROVE  list \subseteq disk[settings.net]
  BY DEF ListOfThisNetwork
<1> USE DEF IInv
<1>1. dbCalls \in Seq(Call)
  BY DEF Types
<1>2. ~ Has(dbCalls, Deletions)
  BY DEF WorkInv
<1>3. ~ Has(dbCalls, Deleted)
  BY <1>1, <1>2, HasSets
<1> QED BY <1>3 DEF KeysInv

\* Every state is of the right type, and no error of the library or of the
\* database leaves a key operation waiting for ever: what it waits for is out.
THEOREM NetworkTypes == Spec => []TypeOK
BY AlwaysIInv, TypesAndStages, PTL

\* open (Wallet::open and External::open) is answered once, and truly, whatever
\* an earlier attempt has left on its way.
THEOREM OpenIsAnsweredOnce == Spec => []OpenAnsweredOnce
<1>1. IInv => OpenAnsweredOnce
  BY DEF IInv, AnswersInv
<1> QED BY <1>1, AlwaysIInv, PTL

\* At rest memory, library and database name one network and configuration:
\* External::updateSettings, switchNetwork and resetNetwork may overtake one
\* another in any order, and a switch may be refused.
THEOREM SettingsAlwaysAgree == Spec => []SettingsAgree
BY AlwaysIInv, AtRest, PTL

\* Wallet's list never has keys that the database does not hold for the network
\* in use: no switch keeps them, no saveKey comes to the other network's list.
THEOREM ListIsOfThisNetwork == Spec => []ListOfThisNetwork
BY AlwaysIInv, ListedIsSaved, PTL

=============================================================================
