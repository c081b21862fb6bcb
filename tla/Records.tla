------------------------------- MODULE Records -------------------------------
(***************************************************************************)
(* The forms a record goes through: an object of the library is parsed     *)
(* (details/ton_parse_state.cpp), kept in memory, packed for the database  *)
(* and unpacked (details/ton_storage.cpp, ton_storage.tl).  Fields that    *)
(* every form copies are one field here, content.  Forms that older        *)
(* versions wrote are unpacked too: Old... is what they wrote.             *)
(***************************************************************************)
EXTENDS EncryptedTexts

CONSTANTS
    NoText,         \* an empty text
    NoAddress,      \* an empty address
    NoNetwork,      \* NetSettings(), without a configuration
    OldUrl, NewUrl, \* ConvertLegacyUrl
    Mainnet, MainnetTest    \* ConvertLegacyTestBlockchainName

\* Vectors are converted element by element.
Map(Op(_), list) == [i \in DOMAIN list |-> Op(list[i])]

-----------------------------------------------------------------------------
\* Messages

MessageText(text, encrypted, decrypted) ==
    [text |-> text, encrypted |-> encrypted, decrypted |-> decrypted]

Plain(text) == MessageText(text, <<>>, FALSE)

ParseText(data) ==
    CASE data.kind = "text" -> Plain(data.text)
      [] data.kind = "raw" -> Plain(NoText)
      [] data.kind = "encrypted" -> MessageText(NoText, data.bytes, FALSE)
      [] data.kind = "decrypted" -> MessageText(data.text, <<>>, TRUE)

\* Mutant of PackText: a text that is known is kept.
PackTextKnown(m) ==
    IF m.decrypted THEN [form |-> "decrypted", data |-> m.text]
    ELSE IF IsEncrypted(m) THEN [form |-> "encrypted", data |-> m.encrypted]
    ELSE [form |-> "plain", data |-> m.text]

PackText(m) ==
    IF IsEncrypted(m) THEN [form |-> "encrypted", data |-> m.encrypted]
    ELSE IF m.decrypted THEN [form |-> "decrypted", data |-> m.text]
    ELSE [form |-> "plain", data |-> m.text]

UnpackText(p) ==
    CASE p.form = "encrypted" -> MessageText(NoText, p.data, FALSE)
      [] p.form = "decrypted" -> MessageText(p.data, <<>>, TRUE)
      [] p.form = "plain" -> Plain(p.data)

\* In memory a message has the fields of its MessageText.
Message(source, text) ==
    [source |-> source, text |-> text.text,
     encrypted |-> text.encrypted, decrypted |-> text.decrypted]

ParseMessage(m) == Message(m.source, ParseText(m.data))
PackMessage(m) ==
    [form |-> "message2", source |-> m.source, message |-> PackText(m)]
OldMessage(m) == [form |-> "message", source |-> m.source, message |-> m.text]
UnpackMessage(p) ==
    Message(p.source, IF p.form = "message" THEN Plain(p.message)
                                            ELSE UnpackText(p.message))

\* Transactions: only their messages have several forms.
ParseTransaction(t) ==
    [t EXCEPT !.incoming = ParseMessage(@), !.outgoing = Map(ParseMessage, @)]
PackTransaction(t) ==
    [t EXCEPT !.incoming = PackMessage(@), !.outgoing = Map(PackMessage, @)]
OldTransaction(t) ==
    [t EXCEPT !.incoming = OldMessage(@), !.outgoing = Map(OldMessage, @)]
UnpackTransaction(p) ==
    [p EXCEPT !.incoming = UnpackMessage(@), !.outgoing = Map(UnpackMessage, @)]

PackTransactions(list) == Map(PackTransaction, list)
UnpackTransactions(list) == Map(UnpackTransaction, list)

\* PreparePending: the transaction to send, as a fake one of the sender.
Pending(sender, toSend) ==
    [content |-> toSend.content,
     incoming |-> Message(NoAddress, Plain(NoText)),
     outgoing |-> <<Message(sender,
                            MessageText(toSend.comment, <<>>, ~ toSend.unencrypted))>>]

-----------------------------------------------------------------------------
\* Accounts

NoRestriction == [locked |-> 0, startAt |-> 0, limits |-> <<>>]

ParseAccount(a) ==
    [balance |-> a.balance, content |-> a.content,
     restriction |->
        IF a.wallet.kind # "rwallet" THEN NoRestriction
        ELSE [locked |-> IF a.balance > a.wallet.unlocked
                           THEN a.balance - a.wallet.unlocked ELSE 0,
              startAt |-> a.wallet.startAt, limits |-> a.wallet.limits]]

\* Mutant of PackAccount: nothing locked, nothing restricted.
PackAccountLocked(a) ==
    [form |-> "accountStateFull", balance |-> a.balance, content |-> a.content,
     details |-> IF a.restriction.locked # 0
                   THEN [form |-> "restricted", data |-> a.restriction]
                   ELSE [form |-> "normal"]]

PackAccount(a) ==
    LET r == a.restriction IN
      [form |-> "accountStateFull", balance |-> a.balance, content |-> a.content,
       details |-> IF r.locked # 0 \/ r.startAt # 0 \/ r.limits # <<>>
                     THEN [form |-> "restricted", data |-> r]
                     ELSE [form |-> "normal"]]

OldAccount(a) ==
    [form |-> "accountState", balance |-> a.balance, content |-> a.content]

UnpackAccount(p) ==
    [balance |-> p.balance, content |-> p.content,
     restriction |-> IF p.form = "accountStateFull" /\ p.details.form = "restricted"
                       THEN p.details.data ELSE NoRestriction]

-----------------------------------------------------------------------------
\* Wallet states, in memory and packed.

State(address, account, last, pending) ==
    [address |-> address, account |-> account, last |-> last, pending |-> pending]

\* What the library tells of an account, and what is sent from it.
ParseState(address, told) ==
    State(address, ParseAccount(told.account),
          Map(ParseTransaction, told.last),
          Map(LAMBDA t : Pending(address, t), told.pending))

PackState(s) ==
    State(s.address, PackAccount(s.account), PackTransactions(s.last),
          PackTransactions(s.pending))

OldState(s) ==
    State(s.address, OldAccount(s.account), Map(OldTransaction, s.last),
          Map(OldTransaction, s.pending))

UnpackState(p) ==
    State(p.address, UnpackAccount(p.account),
          UnpackTransactions(p.last), UnpackTransactions(p.pending))

-----------------------------------------------------------------------------
\* Entries of the wallet list

PackEntry(e) ==
    [form |-> "walletEntryGeneric", key |-> e.key, address |-> e.address]
OldEntry(e) == [form |-> "walletEntry", key |-> e.key]
UnpackEntry(p) ==
    [key |-> p.key,
     address |-> IF p.form = "walletEntry" THEN NoAddress ELSE p.address]

-----------------------------------------------------------------------------
\* Settings: of each network, its name, the address of its configuration and
\* the rest.

ConvertLegacyUrl(url) == IF url = OldUrl THEN NewUrl ELSE url
ConvertLegacyTestBlockchainName(name) ==
    IF name = Mainnet THEN MainnetTest ELSE name

PackSettings(s) == [form |-> "settings3", data |-> s]

\* Written by versions that knew the test network only.
OldSettings(s) ==
    [form |-> IF s.version = 0 THEN "settings" ELSE "settings2",
     network |-> s.test, version |-> s.version]

\* useTestNetwork is TRUE whatever was saved.
UnpackSettings(p) ==
    IF p.form = "settings3" THEN [p.data EXCEPT !.useTestNetwork = TRUE]
    ELSE [main |-> NoNetwork,
          test |-> [p.network EXCEPT
                      !.name = ConvertLegacyTestBlockchainName(@),
                      !.url = ConvertLegacyUrl(@)],
          useTestNetwork |-> TRUE,
          version |-> IF p.form = "settings" THEN 0 ELSE p.version]

=============================================================================
