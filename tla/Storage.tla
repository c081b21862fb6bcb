------------------------------- MODULE Storage -------------------------------
(***************************************************************************)
(* What the database of Salt holds (details/ton_storage.cpp): the settings,*)
(* a wallet list for each network and a state for each account, saved and  *)
(* loaded by Wallet while External is opened, lost with the directory.     *)
(* Versions of the program that are gone may have written what is there    *)
(* first.  A write that fails leaves the record as it was.                 *)
(***************************************************************************)
EXTENDS Salt, Records

CONSTANTS
    Keys,           \* public keys
    Addresses,      \* addresses of accounts
    StateKey,       \* WalletStateKey: a function of addresses
    Told,           \* what the library may tell of an account
    NewSettings,    \* settings an application may save
    FirstSettings,  \* pairs: packed by an older version, and what they mean
    Unknown         \* kUnknownBalance

VARIABLES
    told,   \* what the library tells of the accounts
    stored, \* the database, by record
    kept    \* history: what was saved, by record, as it was in memory

storeVars == <<told, stored, kept>>
allVars == <<vars, storeVars>>

\* A record is in the database, <<r>>, or is not, <<>>.
Nets == {"test", "main"}
Records == {"settings"} \cup Nets \cup {StateKey[a] : a \in Addresses}
Nothing == [r \in Records |-> <<>>]

ASSUME StateKeyAssumption ==
    \A a \in Addresses : StateKey[a] \notin {"settings"} \cup Nets

\* The library tells of messages of four kinds.
IsToldTransaction(t) ==
    /\ t = [content |-> t.content, incoming |-> t.incoming, outgoing |-> t.outgoing]
    /\ IsList(t.outgoing)
    /\ \A m \in {t.incoming} \cup ToSet(t.outgoing) :
          m.data.kind \in {"text", "raw", "encrypted", "decrypted"}

IsTold(s) ==
    /\ s = [account |-> s.account, last |-> s.last, pending |-> s.pending]
    /\ IsList(s.last) /\ IsList(s.pending)
    /\ \A t \in ToSet(s.last) : IsToldTransaction(t)
    /\ \A t \in ToSet(s.pending) : t.unencrypted \in BOOLEAN

ASSUME ToldAssumption == \A s \in Told : IsTold(s)

\* A text that came encrypted is neither one of those that came as they are nor
\* the bytes of one.
ToldMessages(s) == UNION {ToSet(Messages(t)) : t \in ToSet(s.last)}
SecretTexts(s) ==
    LET all == {ParseMessage(m) : m \in ToldMessages(s)}
    IN {<<m.encrypted, n.source>> : m \in {x \in all : IsEncrypted(x)}, n \in all}

ASSUME SecretsAssumption ==
    \A s \in Told : \A m \in {ParseMessage(x) : x \in ToldMessages(s)} :
       (IF IsEncrypted(m) THEN m.encrypted ELSE m.text) \notin SecretTexts(s)

\* What older settings mean: they are of the test network, whose name and
\* address have changed.
ASSUME FirstSettingsAssumption ==
    \A first \in FirstSettings :
       LET network == first.packed.network IN
       /\ first.packed = [form |-> first.packed.form, network |-> network,
                          version |-> first.packed.version]
       /\ first.packed.form \in {"settings", "settings2"}
       /\ network = [name |-> network.name, url |-> network.url]
       /\ first.means =
            [main |-> NoNetwork, useTestNetwork |-> TRUE,
             version |-> IF first.packed.form = "settings" THEN 0
                                                           ELSE first.packed.version,
             test |-> [name |-> IF network.name = Mainnet THEN MainnetTest
                                                          ELSE network.name,
                       url |-> IF network.url = OldUrl THEN NewUrl ELSE network.url]]

\* WalletState{ address }.
Blank(a) ==
    State(a, [balance |-> Unknown, content |-> NoText, restriction |-> NoRestriction],
          <<>>, <<>>)

NoSettings ==
    [main |-> NoNetwork, test |-> NoNetwork, useTestNetwork |-> FALSE, version |-> 0]

\* A record that is not there is unpacked to Data().
LoadSettings ==
    IF stored["settings"] = <<>> THEN NoSettings
                                 ELSE UnpackSettings(stored["settings"][1])

LoadWalletList(net) ==
    IF stored[net] = <<>> THEN <<>> ELSE Map(UnpackEntry, stored[net][1])

\* The place may hold the state of another address.
LoadWalletState(a) ==
    LET r == stored[StateKey[a]]
    IN IF r # <<>> /\ UnpackState(r[1]).address = a THEN UnpackState(r[1])
                                                    ELSE Blank(a)

Decrypted(s) ==
    LET encrypted == CollectEncryptedTexts(s.last)
    IN [s EXCEPT !.last = AddDecryptedTexts(@, encrypted, Texts(encrypted))]

\* What an older version may have written: plain messages, no restriction, no
\* addresses of entries.
WasExpressible(s) ==
    /\ s.account.restriction = NoRestriction
    /\ \A t \in ToSet(s.last) : \A m \in ToSet(Messages(t)) :
          m = Message(m.source, Plain(m.text))

FirstLists == {<<>>} \cup {<< <<[key |-> k, address |-> NoAddress]>> >> : k \in Keys}

\* What a version that is gone has left: settings, a list for each network, and
\* the state of one account.
Found(first, lists, a, old) ==
    LET s == ParseState(a, [told EXCEPT !.pending = <<>>]) IN
      /\ db = Absent => first = <<>> /\ lists = [n \in Nets |-> <<>>] /\ ~ old
      /\ old => WasExpressible(s)
      /\ stored = [r \in Records |->
                     CASE r = "settings" -> Map(LAMBDA p : p.packed, first)
                       [] r \in Nets -> Map(LAMBDA l : Map(OldEntry, l), lists[r])
                       [] r = StateKey[a] /\ old -> <<OldState(s)>>
                       [] OTHER -> <<>>]
      /\ kept = [r \in Records |->
                   CASE r = "settings" -> Map(LAMBDA p : p.means, first)
                     [] r \in Nets -> lists[r]
                     [] r = StateKey[a] /\ old -> <<s>>
                     [] OTHER -> <<>>]

StoreInit ==
    /\ Init
    /\ told \in Told
    /\ \E first \in {<<>>} \cup {<<p>> : p \in FirstSettings},
          lists \in [Nets -> FirstLists], a \in Addresses, old \in BOOLEAN :
         Found(first, lists, a, old)

-----------------------------------------------------------------------------

\* A record is put, or removed, or the database fails.
Save(r, packed, value) ==
    /\ step = "opened"
    /\ \/ /\ stored' = [stored EXCEPT ![r] = packed]
          /\ kept' = [kept EXCEPT ![r] = value]
       \/ UNCHANGED <<stored, kept>>
    /\ UNCHANGED <<vars, told>>

SaveSettings(s) == Save("settings", <<PackSettings(s)>>, <<s>>)

SaveWalletList(net, list) ==
    IF list = <<>> THEN Save(net, <<>>, <<>>)
                   ELSE Save(net, <<Map(PackEntry, list)>>, <<list>>)

\* A blank state is not saved.
SaveWalletState(s) ==
    /\ s # Blank(s.address)
    /\ Save(StateKey[s.address], <<PackState(s)>>, <<s>>)

\* Wallet's list is the one it has loaded, and changes: a key comes with the
\* address in use, all go, or the secrets change, which stay the same here.
ChangeList(net) ==
    LET list == LoadWalletList(net) IN
      \/ \E k \in Keys, a \in Addresses :
            /\ \A i \in DOMAIN list : list[i].key # k
            /\ SaveWalletList(net, Append(list, [key |-> k, address |-> a]))
      \/ SaveWalletList(net, <<>>)
      \/ list # <<>> /\ SaveWalletList(net, list)

\* AccountViewers: the account as the library tells it, with its texts
\* decrypted or not, or with a transaction that was just sent.
ChangeState(a) ==
    LET was == LoadWalletState(a)
        now == ParseState(a, told)
    IN \/ SaveWalletState([now EXCEPT !.pending = <<>>])
       \/ SaveWalletState(Decrypted(now))
       \/ SaveWalletState([was EXCEPT !.pending = now.pending])

\* The directory goes with all records.
DirectoryStep ==
    /\ Next
    /\ IF db' = Absent THEN stored' = Nothing /\ kept' = Nothing
                       ELSE UNCHANGED <<stored, kept>>
    /\ UNCHANGED told

StoreNext ==
    \/ DirectoryStep
    \/ \E s \in NewSettings : SaveSettings(s)
    \/ \E net \in Nets : ChangeList(net)
    \/ \E a \in Addresses : ChangeState(a)

StoreSpec == StoreInit /\ [][StoreNext]_allVars

-----------------------------------------------------------------------------
(* Safety *)

\* What is saved of a state: all but the texts of encrypted messages.
Hidden(m) ==
    IF IsEncrypted(m) THEN [m EXCEPT !.text = NoText, !.decrypted = FALSE] ELSE m
HiddenTransaction(t) ==
    [t EXCEPT !.incoming = Hidden(@), !.outgoing = Map(Hidden, @)]
WithoutTexts(s) == [s EXCEPT !.last = Map(HiddenTransaction, @)]

\* Whatever was saved last, by this version or an older one, is what is loaded,
\* in this process or the next: lists of two networks apart, the state of an
\* account unless one with the same place has taken it, the account with its
\* restriction and each message with its kind.  The exceptions are real: texts
\* that were decrypted are not saved, and settings come back for the test
\* network.
LoadedIsSaved ==
    step = "opened" =>
        /\ LoadSettings = IF kept["settings"] = <<>> THEN NoSettings
                          ELSE [kept["settings"][1] EXCEPT !.useTestNetwork = TRUE]
        /\ \A net \in Nets : LoadWalletList(net) = IF kept[net] = <<>> THEN <<>>
                                                                    ELSE kept[net][1]
        /\ \A a \in Addresses :
              LET k == kept[StateKey[a]] IN
                LoadWalletState(a) = IF k # <<>> /\ k[1].address = a
                                       THEN WithoutTexts(k[1]) ELSE Blank(a)

\* The text of a message that came encrypted is never written to the disk, in
\* whatever form, as this message or as another.
TextOnDisk(p) == IF p.form = "message" THEN p.message ELSE p.message.data
TextsStayHidden ==
    \A a \in Addresses : stored[StateKey[a]] # <<>> =>
        LET all == AllMessages(stored[StateKey[a]][1].last)
            texts == AllMessages(Decrypted(ParseState(a, told)).last)
        IN \A i \in DOMAIN all, j \in DOMAIN texts :
              IsEncrypted(texts[j]) => TextOnDisk(all[i]) # texts[j].text

=============================================================================
