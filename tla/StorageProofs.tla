--------------------------- MODULE StorageProofs ---------------------------
(***************************************************************************)
(* What Salt promises, proved for any number of salts, and the database    *)
(* with its records goes through the steps of Salt, so that this holds of  *)
(* the records' directory.                                                 *)
(***************************************************************************)
EXTENDS Storage, TLAPS

\* Between the removal of a bad salt and the writing of a good one the
\* directories go before there is a salt to open them with.
Replacing ==
    /\ step \in {"remove db", "remove lib", "create", "write"} => salt.kind # "salt"
    /\ step \in {"remove lib", "create", "write"} => db = Absent
    /\ step \in {"create", "write"} => lib = Absent

\* A salt that was not flushed has left a file that is no salt, which no start
\* takes for one.
LeftShort == unflushed => salt.kind # "salt"

\* The inductive invariant: SaltHolds needs Replacing at the step that writes a
\* salt, LeftShort where a database is made or used with a salt that is not in
\* the file, and TypeOK where the salt in memory is used.
IInv == TypeOK /\ Replacing /\ LeftShort /\ SaltHolds

\* The directories of the state, of one kind when they match the salt s.
LEMMA DirectoryFacts ==
    /\ Absent \in Directory /\ Absent.whole /\ Absent.salt = 0
    /\ \A s \in Salts : /\ With(s) \in Directory
                        /\ With(s).whole /\ With(s).salt = s
    /\ \A d \in Directory :
          /\ d.whole \in BOOLEAN /\ d.salt \in Salts
          /\ [d EXCEPT !.whole = FALSE] \in Directory
          /\ d.whole /\ d.salt = 0 => d = Absent
          /\ d.whole => d = With(d.salt)
<1>1. 0 \in Salts
  BY MaxSaltsAssumption DEF Salts
<1>2. Absent \in Directory /\ Absent.whole /\ Absent.salt = 0
  BY <1>1 DEF Directory, Absent
<1>3. ASSUME NEW s \in Salts
      PROVE  With(s) \in Directory /\ With(s).whole /\ With(s).salt = s
  BY DEF Directory, With
<1>4. ASSUME NEW d \in Directory
      PROVE  /\ d.whole \in BOOLEAN /\ d.salt \in Salts
             /\ [d EXCEPT !.whole = FALSE] \in Directory
             /\ d.whole /\ d.salt = 0 => d = Absent
             /\ d.whole => d = With(d.salt)
  <2>1. d = [salt |-> d.salt, whole |-> d.whole]
    BY DEF Directory
  <2>2. d.whole \in BOOLEAN /\ d.salt \in Salts
    BY DEF Directory
  <2>4. [d EXCEPT !.whole = FALSE] \in Directory
    BY DEF Directory
  <2>5. d.whole => d.whole = TRUE
    BY <2>2
  <2> QED BY <2>1, <2>2, <2>4, <2>5 DEF Absent, With
<1> QED BY <1>2, <1>3, <1>4

\* The first state satisfies the inductive invariant: a salt drawn before the
\* start goes with the directories found, damaged or not.
LEMMA InitIInv == Init => IInv
<1> SUFFICES ASSUME Init PROVE IInv
  OBVIOUS
<1>1. 0 \in Salts /\ drawn \in Salts
  BY MaxSaltsAssumption DEF Init, Salts
<1>2. db \in {Absent, With(drawn)} /\ lib \in {Absent, With(drawn)}
  BY DEF Init
<1>3. db \in Directory /\ lib \in Directory
  BY <1>1, <1>2, DirectoryFacts
<1>4. salt \in [kind : SaltFile, value : Salts] /\ (salt.value # 0 <=> salt.kind = "salt")
  BY <1>1, MaxSaltsAssumption DEF Init, Salts
<1>5. TypeOK
  BY <1>1, <1>3, <1>4 DEF Init, TypeOK, Steps
<1>6. SaltOpensAll
  <2>1. salt.kind = "salt" => salt.value = drawn
    BY <1>1, <1>4 DEF Init
  <2> QED BY <1>1, <1>2, <2>1, DirectoryFacts DEF SaltOpensAll
<1> QED BY <1>5, <1>6 DEF Init, IInv, Replacing, LeftShort, SaltHolds, SaltIsSaved

\* Every step keeps the inductive invariant, stopping between two steps of a
\* replacement included.
LEMMA NextIInv == IInv /\ [Next]_vars => IInv'
<1> SUFFICES ASSUME IInv, [Next]_vars PROVE IInv'
  OBVIOUS
<1> USE DEF IInv, SaltHolds, LeftShort
<1>0. 0 \in Salts
  BY MaxSaltsAssumption DEF Salts
<1>1. CASE LoadSalt
  BY <1>1 DEF LoadSalt, TypeOK, Replacing, SaltOpensAll, SaltIsSaved, Steps
<1>2. CASE DropBadSalt
  BY <1>2, <1>0 DEF DropBadSalt, NoSalt, TypeOK, Replacing, SaltOpensAll, SaltIsSaved,
                    Steps, SaltFile
<1>3. CASE RemoveDb
  <2>1. db' \in Directory
    BY <1>3, DirectoryFacts DEF RemoveDb, TypeOK
  <2>2. salt.kind # "salt"
    BY <1>3 DEF RemoveDb, Replacing
  <2> QED BY <1>3, <2>1, <2>2
             DEF RemoveDb, Fail, TypeOK, Replacing, SaltOpensAll, SaltIsSaved, Steps
<1>4. CASE RemoveLib
  <2>1. lib' \in Directory
    BY <1>4, DirectoryFacts DEF RemoveLib, TypeOK
  <2>2. salt.kind # "salt"
    BY <1>4 DEF RemoveLib, Replacing
  <2> QED BY <1>4, <2>1, <2>2
             DEF RemoveLib, Fail, TypeOK, Replacing, SaltOpensAll, SaltIsSaved, Steps
<1>5. CASE CreateSalt
  <2>1. drawn' \in Salts /\ _salt' \in Salts /\ _salt' # 0
    <3>1. drawn \in Salts /\ drawn < MaxSalts
      BY <1>5 DEF CreateSalt, TypeOK
    <3>2. drawn + 1 \in Salts /\ drawn + 1 # 0
      BY <3>1, MaxSaltsAssumption DEF Salts
    <3> QED BY <1>5, <3>2 DEF CreateSalt
  <2>2. salt' \in [kind : SaltFile, value : Salts] /\ salt'.kind # "salt"
          /\ (salt'.value # 0 <=> salt'.kind = "salt")
    <3>1. CASE salt' = [kind |-> "other size", value |-> 0]
      BY <3>1, <1>0 DEF SaltFile
    <3>2. CASE salt' = salt
      <4>1. salt.kind # "salt"
        BY <1>5 DEF CreateSalt, Replacing
      <4> QED BY <3>2, <4>1 DEF TypeOK
    <3> QED BY <1>5, <3>1, <3>2 DEF CreateSalt
  <2> QED BY <1>5, <2>1, <2>2
             DEF CreateSalt, Fail, TypeOK, Replacing, SaltOpensAll, SaltIsSaved, Steps
<1>6. CASE NoPath
  BY <1>6 DEF NoPath, Fail, TypeOK, Replacing, SaltOpensAll, SaltIsSaved, Steps
<1>7. CASE WriteSalt
  <2>1. salt' \in [kind : SaltFile, value : Salts]
          /\ (salt'.value # 0 <=> salt'.kind = "salt")
    <3>1. _salt \in Salts /\ _salt # 0
      BY <1>7 DEF WriteSalt, TypeOK
    <3>2. CASE salt' = [kind |-> "salt", value |-> _salt]
      BY <3>1, <3>2 DEF SaltFile
    <3>3. CASE salt' = salt
      BY <3>3 DEF TypeOK
    <3> QED BY <1>7, <3>2, <3>3 DEF WriteSalt
  <2>2. db' = Absent /\ lib' = Absent
    BY <1>7 DEF WriteSalt, Replacing
  <2>3. SaltOpensAll'
    BY <2>2, DirectoryFacts DEF SaltOpensAll
  <2>4. /\ step' = "open db" =>
             unflushed' \/ (salt'.kind = "salt" /\ salt'.value = _salt)
        /\ unflushed' => salt'.kind # "salt"
        /\ unflushed' \in BOOLEAN
    <3>1. CASE salt' = [kind |-> "salt", value |-> _salt] /\ unflushed' = FALSE
      BY <3>1
    <3>2. salt.kind # "salt"
      BY <1>7 DEF WriteSalt, Replacing
    <3>3. CASE salt' = salt /\ unflushed' = TRUE
      BY <3>2, <3>3
    <3>4. CASE salt' = salt /\ unflushed' = unflushed /\ step' = "closed"
      BY <3>2, <3>4 DEF TypeOK
    <3> QED BY <1>7, <3>1, <3>3, <3>4 DEF WriteSalt, Fail
  <2>5. step' \in {"open db", "closed"} /\ _salt # 0 /\ UNCHANGED <<db, lib, _salt, drawn>>
    BY <1>7 DEF WriteSalt, Fail, TypeOK
  <2>6. TypeOK'
    BY <2>1, <2>4, <2>5 DEF TypeOK, Steps
  <2> QED BY <2>3, <2>4, <2>5, <2>6 DEF Replacing, SaltIsSaved
<1>8. CASE OpenDatabase
  <2>1. db' \in Directory
    BY <1>8, DirectoryFacts DEF OpenDatabase, TypeOK
  <2>2. SaltOpensAll'
    <3>1. (salt.kind = "salt" => salt.value = _salt) /\ _salt \in Salts
      BY <1>8 DEF OpenDatabase, SaltIsSaved, TypeOK
    <3>2. With(_salt).whole /\ With(_salt).salt = _salt
      BY <3>1, DirectoryFacts
    <3>3. db' \in {db, With(_salt)} /\ UNCHANGED <<salt, lib>>
      BY <1>8 DEF OpenDatabase
    <3> QED BY <3>1, <3>2, <3>3 DEF SaltOpensAll
  <2> QED BY <1>8, <2>1, <2>2
             DEF OpenDatabase, Fail, TypeOK, Replacing, SaltIsSaved, Steps
<1>9. CASE StartLibrary
  BY <1>9 DEF StartLibrary, TypeOK, Replacing, SaltOpensAll, SaltIsSaved, Steps
<1>10. CASE CreateKey
  <2>1. lib' \in Directory
    BY <1>10, DirectoryFacts DEF CreateKey, TypeOK
  <2>2. SaltOpensAll'
    BY <1>10, DirectoryFacts DEF CreateKey, SaltOpensAll, SaltIsSaved, TypeOK
  <2> QED BY <1>10, <2>1, <2>2 DEF CreateKey, TypeOK, Replacing, SaltIsSaved, Steps
<1>11. CASE Restart
  BY <1>11, <1>0 DEF Restart, TypeOK, Replacing, SaltOpensAll, SaltIsSaved, Steps
<1>12. CASE UNCHANGED vars
  BY <1>12 DEF vars, TypeOK, Replacing, SaltOpensAll, SaltIsSaved
<1> QED BY <1>1, <1>2, <1>3, <1>4, <1>5, <1>6, <1>7, <1>8, <1>9, <1>10, <1>11, <1>12
           DEF Next

\* The inductive invariant holds in every state of open and of what follows.
LEMMA Inductive == Spec => []IInv
BY InitIInv, NextIInv, PTL DEF Spec

\* External::loadSalt, writeNewSalt and open: a salt that can be used is the
\* salt of the database and of the keys, whenever the process stops, and that of
\* the database in use, unless its flush has failed unseen.
THEOREM SaltAlwaysHolds == Spec => []SaltHolds
<1>1. IInv => SaltHolds
  BY DEF IInv
<1> QED BY Inductive, <1>1, PTL

\* External::loadSalt: no step takes away a salt, a database or keys that can
\* be used.
THEOREM UsableAlwaysStays == Spec => UsableStays
<1> DEFINE Stays ==
      salt.kind = "salt" =>
         /\ salt' = salt
         /\ db' \in {db, With(salt.value)} /\ lib' \in {lib, With(salt.value)}
<1>1. IInv /\ [Next]_vars => [Stays]_vars
  <2> SUFFICES ASSUME IInv, Next, salt.kind = "salt" PROVE Stays
    BY DEF vars
  <2>1. step \notin {"remove db", "remove lib", "create", "write"}
    BY DEF IInv, Replacing
  <2>2. ~ DropBadSalt /\ ~ RemoveDb /\ ~ RemoveLib /\ ~ CreateSalt /\ ~ NoPath
          /\ ~ WriteSalt
    BY <2>1 DEF DropBadSalt, RemoveDb, RemoveLib, CreateSalt, NoPath, WriteSalt
  <2>3. step \in {"open db", "opened"} => _salt = salt.value
    BY DEF IInv, LeftShort, SaltHolds, SaltIsSaved
  <2> QED BY <2>2, <2>3 DEF Next, LoadSalt, OpenDatabase, StartLibrary, CreateKey, Restart
<1> QED BY Inductive, <1>1, PTL DEF Spec, UsableStays

-----------------------------------------------------------------------------

\* What Salt says of a step of Storage: one of its own, or none, since a record
\* is saved without touching the salt or the directories.
LEMMA StoreStep == [StoreNext]_allVars => [Next]_vars
<1> SUFFICES ASSUME StoreNext \/ UNCHANGED allVars PROVE Next \/ UNCHANGED vars
  OBVIOUS
<1>1. ASSUME NEW r, NEW packed, NEW value, Save(r, packed, value)
      PROVE UNCHANGED vars
  BY <1>1 DEF Save
<1>2. CASE DirectoryStep
  BY <1>2 DEF DirectoryStep
<1>3. ASSUME NEW s \in NewSettings, SaveSettings(s)
      PROVE UNCHANGED vars
  BY <1>3, <1>1 DEF SaveSettings
<1>4. ASSUME NEW net \in Nets, ChangeList(net)
      PROVE UNCHANGED vars
  BY <1>4, <1>1 DEF ChangeList, SaveWalletList
<1>5. ASSUME NEW a \in Addresses, ChangeState(a)
      PROVE UNCHANGED vars
  BY <1>5, <1>1 DEF ChangeState, SaveWalletState
<1>6. CASE UNCHANGED allVars
  BY <1>6 DEF allVars
<1> QED BY <1>2, <1>3, <1>4, <1>5, <1>6 DEF StoreNext

\* ton_storage.cpp over ton_external.cpp: saving and loading records is no step
\* of the salt, and the records go with the directory only in a step of it.
THEOREM StorageImplementsSalt == StoreSpec => Spec
<1>1. StoreInit => Init
  BY DEF StoreInit
<1> QED BY <1>1, StoreStep, PTL DEF StoreSpec, Spec

\* The salt opens the database that holds the records, and that database is not
\* taken away while it does.
THEOREM StoredStaysUsable == StoreSpec => []SaltHolds /\ UsableStays
BY StorageImplementsSalt, SaltAlwaysHolds, UsableAlwaysStays, PTL

-----------------------------------------------------------------------------
(* Records *)

IsMessage(m) ==
    /\ m = [source |-> m.source, text |-> m.text,
            encrypted |-> m.encrypted, decrypted |-> m.decrypted]
    /\ m.decrypted \in BOOLEAN

IsTransaction(t) ==
    /\ t = [content |-> t.content, incoming |-> t.incoming, outgoing |-> t.outgoing]
    /\ IsList(t.outgoing)
    /\ \A m \in ToSet(Messages(t)) : IsMessage(m)

\* A transaction with nothing encrypted, as all pending ones.
IsShown(t) == IsTransaction(t) /\ \A m \in ToSet(Messages(t)) : ~ IsEncrypted(m)

IsAccount(a) ==
    /\ a = [balance |-> a.balance, content |-> a.content, restriction |-> a.restriction]
    /\ a.restriction = [locked |-> a.restriction.locked,
                        startAt |-> a.restriction.startAt,
                        limits |-> a.restriction.limits]

IsState(s) ==
    /\ s = [address |-> s.address, account |-> s.account,
            last |-> s.last, pending |-> s.pending]
    /\ IsAccount(s.account)
    /\ IsList(s.last) /\ \A t \in ToSet(s.last) : IsTransaction(t)
    /\ IsList(s.pending) /\ \A t \in ToSet(s.pending) : IsShown(t)

IsEntries(l) ==
    /\ IsList(l)
    /\ \A e \in ToSet(l) : e = [key |-> e.key, address |-> e.address]

\* What is converted element by element is a list again, of the converted
\* elements.
LEMMA ListFacts ==
    ASSUME NEW l, IsList(l)
    PROVE  /\ Len(l) \in Nat /\ DOMAIN l = 1..Len(l)
           /\ l = [i \in DOMAIN l |-> l[i]]
           /\ \A i \in DOMAIN l : l[i] \in ToSet(l)
           /\ \A e \in ToSet(l) : \E i \in DOMAIN l : e = l[i]
BY DEF IsList, ToSet

LEMMA MapIsList ==
    ASSUME NEW f, NEW n \in Nat, DOMAIN f = 1..n, f = [i \in 1..n |-> f[i]]
    PROVE  IsList(f)
BY DEF IsList, ToSet

\* The messages of a transaction are the one that came and those that went.
LEMMA MessagesOf ==
    ASSUME NEW t, IsList(t.outgoing)
    PROVE  ToSet(Messages(t)) = {t.incoming} \cup ToSet(t.outgoing)
<1> DEFINE ms == Messages(t)
<1>1. t.outgoing \in Seq(ToSet(t.outgoing))
  BY DEF IsList
<1>2. /\ DOMAIN t.outgoing = 1..Len(t.outgoing) /\ Len(t.outgoing) \in Nat
      /\ DOMAIN ms = 1..(Len(t.outgoing) + 1)
      /\ ms[1] = t.incoming
      /\ \A i \in 1..Len(t.outgoing) : ms[i + 1] = t.outgoing[i]
  BY <1>1 DEF Messages
<1>3. ASSUME NEW m \in ToSet(ms) PROVE m \in {t.incoming} \cup ToSet(t.outgoing)
  <2>1. PICK i \in DOMAIN ms : m = ms[i]
    BY <1>3 DEF ToSet
  <2>2. i = 1 \/ (i - 1 \in 1..Len(t.outgoing) /\ ms[i] = t.outgoing[i - 1])
    BY <2>1, <1>2
  <2> QED BY <2>1, <2>2, <1>2 DEF ToSet
<1>4. ASSUME NEW m \in {t.incoming} \cup ToSet(t.outgoing) PROVE m \in ToSet(ms)
  <2>1. CASE m = t.incoming
    BY <2>1, <1>2 DEF ToSet
  <2>2. CASE m \in ToSet(t.outgoing)
    <3>1. PICK i \in DOMAIN t.outgoing : m = t.outgoing[i]
      BY <2>2 DEF ToSet
    <3>2. i + 1 \in DOMAIN ms /\ ms[i + 1] = m
      BY <3>1, <1>2
    <3> QED BY <3>2 DEF ToSet
  <2> QED BY <2>1, <2>2
<1> QED BY <1>3, <1>4

-----------------------------------------------------------------------------
(* Messages come back as they were saved *)

LEMMA MessageFields ==
    ASSUME NEW s, NEW t, NEW e, NEW d
    PROVE  Message(s, MessageText(t, e, d)) =
             [source |-> s, text |-> t, encrypted |-> e, decrypted |-> d]
BY DEF Message, MessageText

LEMMA LiteralIsMessage ==
    ASSUME NEW s, NEW t, NEW e, NEW d \in BOOLEAN, NEW m,
           m = [source |-> s, text |-> t, encrypted |-> e, decrypted |-> d]
    PROVE  IsMessage(m)
BY DEF IsMessage

LEMMA FieldsComeBack ==
    ASSUME NEW s, NEW t, NEW e, NEW d \in BOOLEAN, NEW m,
           m = [source |-> s, text |-> t, encrypted |-> e, decrypted |-> d]
    PROVE  /\ UnpackMessage(PackMessage(m)) = Hidden(m)
           /\ IsMessage(Hidden(m))
           /\ ~ IsEncrypted(m) => Hidden(m) = m
<1>1. m.source = s /\ m.text = t /\ m.encrypted = e /\ m.decrypted = d
  OBVIOUS
<1>2. CASE e # <<>>
  <2>1. UnpackMessage(PackMessage(m)) = Message(s, MessageText(NoText, e, FALSE))
    BY <1>1, <1>2 DEF UnpackMessage, PackMessage, UnpackText, PackText, IsEncrypted
  <2>2. Hidden(m) = [source |-> s, text |-> NoText, encrypted |-> e, decrypted |-> FALSE]
    BY <1>1, <1>2 DEF Hidden, IsEncrypted
  <2>3. IsMessage(Hidden(m))
    BY <2>2, LiteralIsMessage
  <2>4. IsEncrypted(m)
    BY <1>1, <1>2 DEF IsEncrypted
  <2>5. Message(s, MessageText(NoText, e, FALSE)) = Hidden(m)
    BY <2>2 DEF Message, MessageText
  <2> QED BY <2>1, <2>3, <2>4, <2>5
<1>3. CASE e = <<>>
  <2>1. UnpackMessage(PackMessage(m)) = Message(s, MessageText(t, <<>>, d))
    BY <1>1, <1>3 DEF UnpackMessage, PackMessage, UnpackText, PackText, Plain, IsEncrypted
  <2>2. Hidden(m) = m
    BY <1>1, <1>3 DEF Hidden, IsEncrypted
  <2>3. IsMessage(m)
    BY <1>1 DEF IsMessage
  <2> QED BY <2>1, <2>2, <2>3, <1>1, <1>3, MessageFields
<1> QED BY <1>2, <1>3

LEMMA MessageComesBack ==
    ASSUME NEW m, IsMessage(m)
    PROVE  /\ UnpackMessage(PackMessage(m)) = Hidden(m)
           /\ IsMessage(Hidden(m))
           /\ ~ IsEncrypted(m) => Hidden(m) = m
BY FieldsComeBack DEF IsMessage

\* A plain message of an older version comes back as it was.
LEMMA OldMessageComesBack ==
    ASSUME NEW m, m = Message(m.source, Plain(m.text))
    PROVE  UnpackMessage(OldMessage(m)) = m /\ Hidden(m) = m
<1>1. OldMessage(m) = [form |-> "message", source |-> m.source, message |-> m.text]
  BY DEF OldMessage
<1>2. UnpackMessage(OldMessage(m)) = Message(m.source, Plain(m.text))
  BY <1>1 DEF UnpackMessage
<1>3. ~ IsEncrypted(m)
  BY DEF IsEncrypted, Message, Plain, MessageText
<1> QED BY <1>2, <1>3 DEF Hidden

\* What the library tells of is a message.
LEMMA ParsedIsMessage ==
    ASSUME NEW m, m.data.kind \in {"text", "raw", "encrypted", "decrypted"}
    PROVE  IsMessage(ParseMessage(m))
<1>1. CASE m.data.kind = "text"
  BY <1>1 DEF ParseMessage, ParseText, Plain, Message, MessageText, IsMessage
<1>2. CASE m.data.kind = "raw"
  BY <1>2 DEF ParseMessage, ParseText, Plain, Message, MessageText, IsMessage
<1>3. CASE m.data.kind = "encrypted"
  BY <1>3 DEF ParseMessage, ParseText, Message, MessageText, IsMessage
<1>4. CASE m.data.kind = "decrypted"
  BY <1>4 DEF ParseMessage, ParseText, Message, MessageText, IsMessage
<1> QED BY <1>1, <1>2, <1>3, <1>4

\* A message whose text is put in stays a message.
LEMMA DecryptedIsMessage ==
    ASSUME NEW m, NEW encrypted, NEW decrypted, IsMessage(m)
    PROVE  IsMessage(DecryptMessage(m, encrypted, decrypted))
<1> DEFINE i == IF IsEncrypted(m) THEN Place(encrypted, m) ELSE 0
<1>1. CASE i = 0
  BY <1>1 DEF DecryptMessage
<1>2. CASE i # 0
  <2>1. DecryptMessage(m, encrypted, decrypted)
          = [m EXCEPT !.text = decrypted[i], !.decrypted = TRUE]
    BY <1>2 DEF DecryptMessage
  <2> HIDE DEF i
  <2> DEFINE text == decrypted[i]
  <2>2. DecryptMessage(m, encrypted, decrypted)
          = [source |-> m.source, text |-> text,
             encrypted |-> m.encrypted, decrypted |-> TRUE]
    <3> DEFINE u == DecryptMessage(m, encrypted, decrypted)
               v == [m EXCEPT !.text = text]
    <3>1. u = [v EXCEPT !.decrypted = TRUE]
      BY <2>1
    <3>2. v = [source |-> m.source, text |-> text,
               encrypted |-> m.encrypted, decrypted |-> m.decrypted]
      BY DEF IsMessage
    <3> HIDE DEF u, v
    <3>3. u = [source |-> m.source, text |-> text,
               encrypted |-> m.encrypted, decrypted |-> TRUE]
      BY <3>1, <3>2
    <3> QED BY <3>3 DEF u
  <2> HIDE DEF text
  <2> QED BY <2>1, <2>2, LiteralIsMessage DEF text
<1> QED BY <1>1, <1>2

-----------------------------------------------------------------------------
(* Transactions *)

\* The messages of a transaction one by one.
LEMMA TransactionParts ==
    ASSUME NEW t, IsTransaction(t)
    PROVE  /\ IsMessage(t.incoming)
           /\ \A i \in DOMAIN t.outgoing : IsMessage(t.outgoing[i])
           /\ IsShown(t) => /\ ~ IsEncrypted(t.incoming)
                            /\ \A i \in DOMAIN t.outgoing : ~ IsEncrypted(t.outgoing[i])
BY MessagesOf, ListFacts DEF IsTransaction, IsShown

\* A transaction made of converted messages.
LEMMA TransactionMade ==
    ASSUME NEW c, NEW m, NEW o, NEW n \in Nat, NEW t,
           IsMessage(m),
           DOMAIN o = 1..n, o = [i \in 1..n |-> o[i]],
           \A i \in 1..n : IsMessage(o[i]),
           t = [content |-> c, incoming |-> m, outgoing |-> o]
    PROVE  /\ IsTransaction(t)
           /\ ~ IsEncrypted(m) /\ (\A i \in 1..n : ~ IsEncrypted(o[i])) => IsShown(t)
<1>1. IsList(o)
  BY MapIsList
<1>2. t.content = c /\ t.incoming = m /\ t.outgoing = o
  OBVIOUS
<1>3. ToSet(Messages(t)) = {m} \cup ToSet(o)
  BY <1>1, <1>2, MessagesOf
<1>4. \A x \in ToSet(Messages(t)) : x = m \/ \E i \in 1..n : x = o[i]
  BY <1>3 DEF ToSet
<1>5. IsTransaction(t)
  BY <1>1, <1>2, <1>4 DEF IsTransaction
<1> QED BY <1>4, <1>5 DEF IsShown

\* Both EXCEPTs of a conversion, on a record given by its fields.
LEMMA TwoFieldsChange ==
    ASSUME NEW c, NEW m, NEW o, NEW t, NEW p, NEW q, NEW u,
           t = [content |-> c, incoming |-> m, outgoing |-> o],
           u = [t EXCEPT !.incoming = p, !.outgoing = q]
    PROVE  u = [content |-> c, incoming |-> p, outgoing |-> q]
<1> DEFINE v == [t EXCEPT !.incoming = p]
<1>1. u = [v EXCEPT !.outgoing = q]
  OBVIOUS
<1>2. v = [content |-> c, incoming |-> p, outgoing |-> o]
  OBVIOUS
<1> HIDE DEF v
<1> QED BY <1>1, <1>2

\* PackTransaction, field by field.
LEMMA PackTransactionFields ==
    ASSUME NEW c, NEW m, NEW o, NEW t,
           t = [content |-> c, incoming |-> m, outgoing |-> o]
    PROVE  PackTransaction(t) =
             [content |-> c, incoming |-> PackMessage(m), outgoing |-> Map(PackMessage, o)]
<1> DEFINE p == PackMessage(m)
           q == Map(PackMessage, o)
<1>1. PackTransaction(t) = [t EXCEPT !.incoming = p, !.outgoing = q]
  BY DEF PackTransaction
<1> HIDE DEF p, q
<1>2. PackTransaction(t) = [content |-> c, incoming |-> p, outgoing |-> q]
  BY <1>1, TwoFieldsChange
<1> QED BY <1>2 DEF p, q

\* OldTransaction, field by field.
LEMMA OldTransactionFields ==
    ASSUME NEW c, NEW m, NEW o, NEW t,
           t = [content |-> c, incoming |-> m, outgoing |-> o]
    PROVE  OldTransaction(t) =
             [content |-> c, incoming |-> OldMessage(m), outgoing |-> Map(OldMessage, o)]
<1> DEFINE p == OldMessage(m)
           q == Map(OldMessage, o)
<1>1. OldTransaction(t) = [t EXCEPT !.incoming = p, !.outgoing = q]
  BY DEF OldTransaction
<1> HIDE DEF p, q
<1>2. OldTransaction(t) = [content |-> c, incoming |-> p, outgoing |-> q]
  BY <1>1, TwoFieldsChange
<1> QED BY <1>2 DEF p, q

\* UnpackTransaction, field by field.
LEMMA UnpackTransactionFields ==
    ASSUME NEW c, NEW m, NEW o, NEW t,
           t = [content |-> c, incoming |-> m, outgoing |-> o]
    PROVE  UnpackTransaction(t) =
             [content |-> c, incoming |-> UnpackMessage(m), outgoing |-> Map(UnpackMessage, o)]
<1> DEFINE p == UnpackMessage(m)
           q == Map(UnpackMessage, o)
<1>1. UnpackTransaction(t) = [t EXCEPT !.incoming = p, !.outgoing = q]
  BY DEF UnpackTransaction
<1> HIDE DEF p, q
<1>2. UnpackTransaction(t) = [content |-> c, incoming |-> p, outgoing |-> q]
  BY <1>1, TwoFieldsChange
<1> QED BY <1>2 DEF p, q

\* ParseTransaction, field by field.
LEMMA ParseTransactionFields ==
    ASSUME NEW c, NEW m, NEW o, NEW t,
           t = [content |-> c, incoming |-> m, outgoing |-> o]
    PROVE  ParseTransaction(t) =
             [content |-> c, incoming |-> ParseMessage(m), outgoing |-> Map(ParseMessage, o)]
<1> DEFINE p == ParseMessage(m)
           q == Map(ParseMessage, o)
<1>1. ParseTransaction(t) = [t EXCEPT !.incoming = p, !.outgoing = q]
  BY DEF ParseTransaction
<1> HIDE DEF p, q
<1>2. ParseTransaction(t) = [content |-> c, incoming |-> p, outgoing |-> q]
  BY <1>1, TwoFieldsChange
<1> QED BY <1>2 DEF p, q

\* HiddenTransaction, field by field.
LEMMA HiddenTransactionFields ==
    ASSUME NEW c, NEW m, NEW o, NEW t,
           t = [content |-> c, incoming |-> m, outgoing |-> o]
    PROVE  HiddenTransaction(t) =
             [content |-> c, incoming |-> Hidden(m), outgoing |-> Map(Hidden, o)]
<1> DEFINE p == Hidden(m)
           q == Map(Hidden, o)
<1>1. HiddenTransaction(t) = [t EXCEPT !.incoming = p, !.outgoing = q]
  BY DEF HiddenTransaction
<1> HIDE DEF p, q
<1>2. HiddenTransaction(t) = [content |-> c, incoming |-> p, outgoing |-> q]
  BY <1>1, TwoFieldsChange
<1> QED BY <1>2 DEF p, q

\* A transaction comes back with the texts of its encrypted messages hidden.
LEMMA TransactionComesBack ==
    ASSUME NEW t, IsTransaction(t)
    PROVE  /\ UnpackTransaction(PackTransaction(t)) = HiddenTransaction(t)
           /\ IsTransaction(HiddenTransaction(t))
           /\ IsShown(t) => HiddenTransaction(t) = t
<1> DEFINE c == t.content
           m == t.incoming
           o == t.outgoing
           packed == Map(PackMessage, o)
           hidden == Map(Hidden, o)
<1>1. t = [content |-> c, incoming |-> m, outgoing |-> o]
  BY DEF IsTransaction
<1>2. Len(o) \in Nat /\ DOMAIN o = 1..Len(o) /\ o = [i \in DOMAIN o |-> o[i]]
  BY ListFacts DEF IsTransaction
<1>3. IsMessage(m) /\ \A i \in DOMAIN o : IsMessage(o[i])
  BY TransactionParts
<1> HIDE DEF c, m, o
<1>4. PackTransaction(t) = [content |-> c, incoming |-> PackMessage(m), outgoing |-> packed]
  BY <1>1, PackTransactionFields
<1>5. UnpackTransaction(PackTransaction(t)) =
        [content |-> c, incoming |-> UnpackMessage(PackMessage(m)),
         outgoing |-> Map(UnpackMessage, packed)]
  <2> HIDE DEF packed
  <2> QED BY <1>4, UnpackTransactionFields
<1>6. Map(UnpackMessage, packed) = hidden
  BY <1>3, MessageComesBack DEF Map
<1>7. HiddenTransaction(t) = [content |-> c, incoming |-> Hidden(m), outgoing |-> hidden]
  BY <1>1, HiddenTransactionFields
<1>8. UnpackMessage(PackMessage(m)) = Hidden(m)
  BY <1>3, MessageComesBack
<1>9. UnpackTransaction(PackTransaction(t)) = HiddenTransaction(t)
  BY <1>5, <1>6, <1>7, <1>8
<1>10. IsTransaction(HiddenTransaction(t))
  <2>1. IsMessage(Hidden(m)) /\ \A i \in 1..Len(o) : IsMessage(hidden[i])
    BY <1>2, <1>3, MessageComesBack DEF Map
  <2>2. DOMAIN hidden = 1..Len(o) /\ hidden = [i \in 1..Len(o) |-> hidden[i]]
    BY <1>2 DEF Map
  <2> HIDE DEF hidden
  <2> QED BY <1>2, <1>7, <2>1, <2>2, TransactionMade
<1>11. ASSUME IsShown(t) PROVE HiddenTransaction(t) = t
  <2>1. ~ IsEncrypted(m) /\ \A i \in DOMAIN o : ~ IsEncrypted(o[i])
    BY <1>11, TransactionParts DEF m, o
  <2>2. Hidden(m) = m
    BY <2>1 DEF Hidden
  <2>3. hidden = o
    BY <2>1, <1>2 DEF Hidden, Map
  <2> QED BY <1>1, <1>7, <2>2, <2>3
<1> QED BY <1>9, <1>10, <1>11

\* Nothing is hidden of a plain transaction of an older version.
LEMMA OldTransactionComesBack ==
    ASSUME NEW t, IsTransaction(t),
           \A m \in ToSet(Messages(t)) : m = Message(m.source, Plain(m.text))
    PROVE  /\ UnpackTransaction(OldTransaction(t)) = t
           /\ HiddenTransaction(t) = t
<1> DEFINE c == t.content
           m == t.incoming
           o == t.outgoing
           packed == Map(OldMessage, o)
<1>1. t = [content |-> c, incoming |-> m, outgoing |-> o]
  BY DEF IsTransaction
<1>2. o = [i \in DOMAIN o |-> o[i]]
  BY ListFacts DEF IsTransaction
<1>3. /\ UnpackMessage(OldMessage(m)) = m /\ Hidden(m) = m
      /\ \A i \in DOMAIN o : UnpackMessage(OldMessage(o[i])) = o[i] /\ Hidden(o[i]) = o[i]
  <2>1. m \in ToSet(Messages(t)) /\ \A i \in DOMAIN o : o[i] \in ToSet(Messages(t))
    BY MessagesOf, ListFacts DEF IsTransaction
  <2> HIDE DEF m, o
  <2> QED BY <2>1, OldMessageComesBack
<1> HIDE DEF c, m, o
<1>4. OldTransaction(t) = [content |-> c, incoming |-> OldMessage(m), outgoing |-> packed]
  BY <1>1, OldTransactionFields
<1>5. UnpackTransaction(OldTransaction(t)) =
        [content |-> c, incoming |-> UnpackMessage(OldMessage(m)),
         outgoing |-> Map(UnpackMessage, packed)]
  <2> HIDE DEF packed
  <2> QED BY <1>4, UnpackTransactionFields
<1>6. Map(UnpackMessage, packed) = o
  BY <1>2, <1>3 DEF Map
<1>7. HiddenTransaction(t) =
        [content |-> c, incoming |-> Hidden(m), outgoing |-> Map(Hidden, o)]
  BY <1>1, HiddenTransactionFields
<1>8. Map(Hidden, o) = o
  BY <1>2, <1>3 DEF Map
<1> QED BY <1>1, <1>3, <1>5, <1>6, <1>7, <1>8

-----------------------------------------------------------------------------
(* Accounts and states *)

\* An account comes back with its restriction, one of an older version without.
LEMMA AccountComesBack ==
    ASSUME NEW a, IsAccount(a)
    PROVE  /\ UnpackAccount(PackAccount(a)) = a
           /\ a.restriction = NoRestriction => UnpackAccount(OldAccount(a)) = a
<1> DEFINE r == a.restriction
           restricted == r.locked # 0 \/ r.startAt # 0 \/ r.limits # <<>>
           p == PackAccount(a)
<1>1. /\ p.form = "accountStateFull" /\ p.balance = a.balance /\ p.content = a.content
      /\ restricted => p.details.form = "restricted" /\ p.details.data = r
      /\ ~ restricted => p.details.form = "normal"
  BY DEF PackAccount
<1>2. ~ restricted => r = NoRestriction
  BY DEF IsAccount, NoRestriction
<1> HIDE DEF p, restricted
<1>3. UnpackAccount(p) = [balance |-> a.balance, content |-> a.content, restriction |-> r]
  BY <1>1, <1>2 DEF UnpackAccount
<1>4. a.restriction = NoRestriction => UnpackAccount(OldAccount(a)) = a
  BY DEF UnpackAccount, OldAccount, IsAccount
<1> QED BY <1>3, <1>4 DEF IsAccount, p

\* What the library tells of is an account.
LEMMA ParsedIsAccount ==
    ASSUME NEW a
    PROVE  IsAccount(ParseAccount(a))
BY DEF ParseAccount, IsAccount, NoRestriction

\* Transactions come back in their order, with the same texts hidden in each.
LEMMA TransactionsComeBack ==
    ASSUME NEW l, IsList(l), \A t \in ToSet(l) : IsTransaction(t)
    PROVE  /\ UnpackTransactions(PackTransactions(l)) = Map(HiddenTransaction, l)
           /\ IsList(Map(HiddenTransaction, l))
           /\ \A t \in ToSet(Map(HiddenTransaction, l)) : IsTransaction(t)
           /\ (\A t \in ToSet(l) : IsShown(t)) => Map(HiddenTransaction, l) = l
<1> DEFINE hidden == Map(HiddenTransaction, l)
<1>1. /\ Len(l) \in Nat /\ DOMAIN l = 1..Len(l) /\ l = [i \in DOMAIN l |-> l[i]]
      /\ \A i \in DOMAIN l : l[i] \in ToSet(l)
  BY ListFacts
<1>2. \A i \in DOMAIN l :
        /\ UnpackTransaction(PackTransaction(l[i])) = HiddenTransaction(l[i])
        /\ IsTransaction(HiddenTransaction(l[i]))
        /\ IsShown(l[i]) => HiddenTransaction(l[i]) = l[i]
  BY <1>1, TransactionComesBack
<1>3. UnpackTransactions(PackTransactions(l)) = hidden
  BY <1>2 DEF UnpackTransactions, PackTransactions, Map
<1>4. DOMAIN hidden = 1..Len(l) /\ hidden = [i \in 1..Len(l) |-> hidden[i]]
  BY <1>1 DEF Map
<1>5. \A i \in DOMAIN hidden : IsTransaction(hidden[i])
  BY <1>2 DEF Map
<1>6. (\A t \in ToSet(l) : IsShown(t)) => hidden = l
  BY <1>1, <1>2 DEF Map
<1> HIDE DEF hidden
<1>7. IsList(hidden)
  BY <1>1, <1>4, MapIsList
<1>8. \A t \in ToSet(hidden) : IsTransaction(t)
  BY <1>5 DEF ToSet
<1> QED BY <1>3, <1>6, <1>7, <1>8 DEF hidden

\* The fields of a state.
LEMMA StateFields ==
    ASSUME NEW a, NEW c, NEW l, NEW p, NEW s, s = State(a, c, l, p)
    PROVE  /\ s.address = a /\ s.account = c /\ s.last = l /\ s.pending = p
           /\ s = [address |-> s.address, account |-> s.account,
                   last |-> s.last, pending |-> s.pending]
BY DEF State

\* A state is made of an account and two lists of transactions.
LEMMA StateMade ==
    ASSUME NEW a, NEW c, NEW l, NEW p, NEW s, s = State(a, c, l, p),
           IsAccount(c),
           IsList(l), \A t \in ToSet(l) : IsTransaction(t),
           IsList(p), \A t \in ToSet(p) : IsShown(t)
    PROVE  IsState(s)
BY StateFields DEF IsState

\* WithoutTexts hides in the list of last transactions only.
LEMMA WithoutTextsFields ==
    ASSUME NEW s, IsState(s)
    PROVE  WithoutTexts(s) =
             State(s.address, s.account, Map(HiddenTransaction, s.last), s.pending)
<1> DEFINE hidden == Map(HiddenTransaction, s.last)
<1>1. WithoutTexts(s) = [s EXCEPT !.last = hidden]
  BY DEF WithoutTexts
<1> HIDE DEF hidden
<1>2. [s EXCEPT !.last = hidden] = State(s.address, s.account, hidden, s.pending)
  BY DEF IsState, State
<1> QED BY <1>1, <1>2 DEF hidden

\* A state comes back with the texts of its encrypted messages hidden.
LEMMA StateComesBack ==
    ASSUME NEW s, IsState(s)
    PROVE  /\ UnpackState(PackState(s)) = WithoutTexts(s)
           /\ IsState(WithoutTexts(s))
           /\ WithoutTexts(s).address = s.address
<1> DEFINE account == PackAccount(s.account)
           last == PackTransactions(s.last)
           pending == PackTransactions(s.pending)
           hidden == Map(HiddenTransaction, s.last)
           packed == PackState(s)
<1>1. /\ IsAccount(s.account)
      /\ IsList(s.last) /\ \A t \in ToSet(s.last) : IsTransaction(t)
      /\ IsList(s.pending) /\ \A t \in ToSet(s.pending) : IsShown(t)
      /\ \A t \in ToSet(s.pending) : IsTransaction(t)
  BY DEF IsState, IsShown
<1>2. packed = State(s.address, account, last, pending)
  BY DEF PackState
<1>3. UnpackState(packed) = State(packed.address, UnpackAccount(packed.account),
                                  UnpackTransactions(packed.last),
                                  UnpackTransactions(packed.pending))
  BY DEF UnpackState
<1> HIDE DEF account, last, pending, packed, hidden
<1>4. /\ packed.address = s.address /\ packed.account = account
      /\ packed.last = last /\ packed.pending = pending
  BY <1>2, StateFields
<1>5. UnpackAccount(account) = s.account
  BY <1>1, AccountComesBack DEF account
<1>6. /\ UnpackTransactions(last) = hidden
      /\ IsList(hidden) /\ \A t \in ToSet(hidden) : IsTransaction(t)
  BY <1>1, TransactionsComeBack DEF last, hidden
<1>7. UnpackTransactions(pending) = s.pending
  <2>1. /\ UnpackTransactions(pending) = Map(HiddenTransaction, s.pending)
        /\ Map(HiddenTransaction, s.pending) = s.pending
    BY <1>1, TransactionsComeBack DEF pending
  <2> QED BY <2>1
<1>8. WithoutTexts(s) = State(s.address, s.account, hidden, s.pending)
  BY WithoutTextsFields DEF hidden
<1>9. UnpackState(packed) = WithoutTexts(s)
  BY <1>3, <1>4, <1>5, <1>6, <1>7, <1>8
<1>10. IsState(WithoutTexts(s)) /\ WithoutTexts(s).address = s.address
  BY <1>1, <1>6, <1>8, StateMade, StateFields
<1> QED BY <1>9, <1>10 DEF packed

\* What an older version could write of a state comes back whole.
LEMMA OldStateComesBack ==
    ASSUME NEW s, IsState(s), WasExpressible(s), s.pending = <<>>
    PROVE  UnpackState(OldState(s)) = WithoutTexts(s)
<1> DEFINE account == OldAccount(s.account)
           last == Map(OldTransaction, s.last)
           pending == Map(OldTransaction, s.pending)
           hidden == Map(HiddenTransaction, s.last)
           packed == OldState(s)
<1>1. packed = State(s.address, account, last, pending)
  BY DEF OldState
<1>2. UnpackState(packed) = State(packed.address, UnpackAccount(packed.account),
                                  UnpackTransactions(packed.last),
                                  UnpackTransactions(packed.pending))
  BY DEF UnpackState
<1> HIDE DEF account, last, pending, packed, hidden
<1>3. /\ packed.address = s.address /\ packed.account = account
      /\ packed.last = last /\ packed.pending = pending
  BY <1>1, StateFields
<1>4. UnpackAccount(account) = s.account
  BY AccountComesBack DEF account, IsState, WasExpressible
<1>5. \A i \in DOMAIN s.last :
        UnpackTransaction(OldTransaction(s.last[i])) = HiddenTransaction(s.last[i])
  <2> SUFFICES ASSUME NEW i \in DOMAIN s.last
               PROVE  UnpackTransaction(OldTransaction(s.last[i]))
                        = HiddenTransaction(s.last[i])
    OBVIOUS
  <2> DEFINE t == s.last[i]
  <2>1. t \in ToSet(s.last)
    BY DEF ToSet
  <2>2. /\ IsTransaction(t)
        /\ \A m \in ToSet(Messages(t)) : m = Message(m.source, Plain(m.text))
    BY <2>1 DEF IsState, WasExpressible
  <2> HIDE DEF t
  <2>3. UnpackTransaction(OldTransaction(t)) = HiddenTransaction(t)
    BY <2>2, OldTransactionComesBack
  <2> QED BY <2>3 DEF t
<1>6. UnpackTransactions(last) = hidden
  BY <1>5 DEF UnpackTransactions, Map, last, hidden
<1>7. UnpackTransactions(pending) = s.pending
  BY DEF UnpackTransactions, Map, pending
<1>8. WithoutTexts(s) = State(s.address, s.account, hidden, s.pending)
  BY WithoutTextsFields DEF hidden
<1> QED BY <1>2, <1>3, <1>4, <1>6, <1>7, <1>8 DEF packed

\* A state told by the library, its pending ones left out or not.
LEMMA ParsedIsState ==
    ASSUME NEW a, NEW s, IsTold(s)
    PROVE  IsState(ParseState(a, s)) /\ ParseState(a, s).address = a
<1> DEFINE account == ParseAccount(s.account)
           last == Map(ParseTransaction, s.last)
           pending == Map(LAMBDA t : Pending(a, t), s.pending)
<1>1. /\ IsList(s.last) /\ IsList(s.pending)
      /\ \A t \in ToSet(s.last) : IsToldTransaction(t)
      /\ \A t \in ToSet(s.pending) : t.unencrypted \in BOOLEAN
  BY DEF IsTold
<1>2. /\ Len(s.last) \in Nat /\ DOMAIN s.last = 1..Len(s.last)
      /\ \A i \in DOMAIN s.last : s.last[i] \in ToSet(s.last)
  BY <1>1, ListFacts
<1>3. /\ Len(s.pending) \in Nat /\ DOMAIN s.pending = 1..Len(s.pending)
      /\ \A i \in DOMAIN s.pending : s.pending[i] \in ToSet(s.pending)
  BY <1>1, ListFacts
<1>4. ASSUME NEW t, IsToldTransaction(t) PROVE IsTransaction(ParseTransaction(t))
  <2> DEFINE c == t.content
             m == t.incoming
             o == t.outgoing
             outgoing == Map(ParseMessage, o)
  <2>1. t = [content |-> c, incoming |-> m, outgoing |-> o]
    BY <1>4 DEF IsToldTransaction
  <2>2. Len(o) \in Nat /\ DOMAIN o = 1..Len(o) /\ \A i \in DOMAIN o : o[i] \in ToSet(o)
    BY <1>4, ListFacts DEF IsToldTransaction
  <2>3. IsMessage(ParseMessage(m)) /\ \A i \in DOMAIN o : IsMessage(ParseMessage(o[i]))
    BY <1>4, <2>2, ParsedIsMessage DEF IsToldTransaction
  <2> HIDE DEF c, m, o
  <2>4. ParseTransaction(t) =
          [content |-> c, incoming |-> ParseMessage(m), outgoing |-> outgoing]
    BY <2>1, ParseTransactionFields
  <2>5. /\ DOMAIN outgoing = 1..Len(o) /\ outgoing = [i \in 1..Len(o) |-> outgoing[i]]
        /\ \A i \in 1..Len(o) : IsMessage(outgoing[i])
    BY <2>2, <2>3 DEF Map
  <2> HIDE DEF outgoing
  <2> QED BY <2>2, <2>3, <2>4, <2>5, TransactionMade
<1>5. ASSUME NEW t, t.unencrypted \in BOOLEAN PROVE IsShown(Pending(a, t))
  <2> DEFINE c == t.content
             m == Message(NoAddress, Plain(NoText))
             n == Message(a, MessageText(t.comment, <<>>, ~ t.unencrypted))
             o == <<n>>
  <2>1. Pending(a, t) = [content |-> c, incoming |-> m, outgoing |-> o]
    BY DEF Pending
  <2>2. IsMessage(m) /\ ~ IsEncrypted(m)
    BY DEF Message, Plain, MessageText, IsMessage, IsEncrypted
  <2>3. IsMessage(n) /\ ~ IsEncrypted(n)
    <3> DEFINE d == ~ t.unencrypted
    <3>1. d \in BOOLEAN
      BY <1>5
    <3> HIDE DEF d
    <3>2. n = [source |-> a, text |-> t.comment, encrypted |-> <<>>, decrypted |-> d]
      BY DEF Message, MessageText, d
    <3> HIDE DEF n
    <3> QED BY <3>1, <3>2, LiteralIsMessage DEF IsEncrypted
  <2> HIDE DEF m, n, c
  <2>4. /\ DOMAIN o = 1..1 /\ o = [i \in 1..1 |-> o[i]]
        /\ \A i \in 1..1 : IsMessage(o[i]) /\ ~ IsEncrypted(o[i])
    BY <2>3
  <2> HIDE DEF o
  <2> QED BY <2>1, <2>2, <2>4, TransactionMade
<1>6. /\ DOMAIN last = 1..Len(s.last) /\ last = [i \in 1..Len(s.last) |-> last[i]]
      /\ \A i \in DOMAIN last : IsTransaction(last[i])
  BY <1>1, <1>2, <1>4 DEF Map
<1>7. /\ DOMAIN pending = 1..Len(s.pending)
      /\ pending = [i \in 1..Len(s.pending) |-> pending[i]]
      /\ \A i \in DOMAIN pending : IsShown(pending[i])
  BY <1>1, <1>3, <1>5 DEF Map
<1>8. ParseState(a, s) = State(a, account, last, pending)
  BY DEF ParseState
<1>9. IsAccount(account)
  BY ParsedIsAccount
<1> HIDE DEF account, last, pending
<1>10. IsList(last) /\ \A t \in ToSet(last) : IsTransaction(t)
  BY <1>2, <1>6, MapIsList DEF ToSet
<1>11. IsList(pending) /\ \A t \in ToSet(pending) : IsShown(t)
  BY <1>3, <1>7, MapIsList DEF ToSet
<1> QED BY <1>8, <1>9, <1>10, <1>11, StateMade, StateFields

\* A state with other pending transactions, or none.
LEMMA PendingReplaced ==
    ASSUME NEW s, NEW p, IsState(s), IsList(p), \A t \in ToSet(p) : IsShown(t)
    PROVE  /\ IsState([s EXCEPT !.pending = p])
           /\ [s EXCEPT !.pending = p].address = s.address
           /\ [s EXCEPT !.pending = p].pending = p
<1> DEFINE u == [s EXCEPT !.pending = p]
<1>1. u = State(s.address, s.account, s.last, p)
  BY DEF IsState, State
<1>2. /\ IsAccount(s.account)
      /\ IsList(s.last) /\ \A t \in ToSet(s.last) : IsTransaction(t)
  BY DEF IsState
<1> HIDE DEF u
<1>3. IsState(u) /\ u.address = s.address /\ u.pending = p
  BY <1>1, <1>2, StateMade, StateFields
<1> QED BY <1>3 DEF u

\* The empty list.
LEMMA EmptyIsList ==
    /\ IsList(<<>>) /\ ToSet(<<>>) = {}
BY DEF IsList, ToSet

\* A state whose texts were decrypted is a state.
LEMMA DecryptedIsState ==
    ASSUME NEW s, IsState(s)
    PROVE  IsState(Decrypted(s)) /\ Decrypted(s).address = s.address
<1> DEFINE encrypted == CollectEncryptedTexts(s.last)
           texts == Texts(encrypted)
           Decrypt(m) == DecryptMessage(m, encrypted, texts)
           Opened(t) == [t EXCEPT !.incoming = Decrypt(@),
                                  !.outgoing = [j \in DOMAIN @ |-> Decrypt(@[j])]]
           last == AddDecryptedTexts(s.last, encrypted, texts)
<1>1. \A m : IsMessage(m) => IsMessage(Decrypt(m))
  BY DecryptedIsMessage
<1>2. last = [i \in DOMAIN s.last |-> Opened(s.last[i])]
  BY DEF AddDecryptedTexts
<1>3. Decrypted(s) = [s EXCEPT !.last = last]
  BY DEF Decrypted
<1> HIDE DEF encrypted, texts, last, Decrypt
<1>4. ASSUME NEW t, IsTransaction(t) PROVE IsTransaction(Opened(t))
  <2> DEFINE c == t.content
             m == t.incoming
             o == t.outgoing
             p == Decrypt(m)
             q == [j \in DOMAIN o |-> Decrypt(o[j])]
             u == Opened(t)
  <2>1. t = [content |-> c, incoming |-> m, outgoing |-> o]
    BY <1>4 DEF IsTransaction
  <2>2. Len(o) \in Nat /\ DOMAIN o = 1..Len(o)
    BY <1>4, ListFacts DEF IsTransaction
  <2>3. IsMessage(p) /\ \A j \in DOMAIN o : IsMessage(q[j])
    BY <1>1, <1>4, TransactionParts
  <2>4. DOMAIN q = 1..Len(o) /\ q = [j \in 1..Len(o) |-> q[j]]
    BY <2>2
  <2>5. u = [t EXCEPT !.incoming = p, !.outgoing = q]
    OBVIOUS
  <2> HIDE DEF c, m, o, p, q, u
  <2>6. u = [content |-> c, incoming |-> p, outgoing |-> q]
    BY <2>1, <2>5, TwoFieldsChange
  <2>7. IsTransaction(u)
    BY <2>2, <2>3, <2>4, <2>6, TransactionMade
  <2> QED BY <2>7 DEF u
<1>5. /\ Len(s.last) \in Nat /\ DOMAIN s.last = 1..Len(s.last)
      /\ \A i \in DOMAIN s.last : IsTransaction(s.last[i])
  BY ListFacts DEF IsState
<1> HIDE DEF Opened
<1>6. /\ DOMAIN last = 1..Len(s.last) /\ last = [i \in 1..Len(s.last) |-> last[i]]
      /\ \A i \in DOMAIN last : IsTransaction(last[i])
  BY <1>2, <1>4, <1>5
<1>7. IsList(last) /\ \A t \in ToSet(last) : IsTransaction(t)
  BY <1>5, <1>6, MapIsList DEF ToSet
<1>8. Decrypted(s) = State(s.address, s.account, last, s.pending)
  BY <1>3 DEF IsState, State
<1>9. /\ IsAccount(s.account) /\ IsList(s.pending) /\ \A t \in ToSet(s.pending) : IsShown(t)
  BY DEF IsState
<1> QED BY <1>7, <1>8, <1>9, StateMade, StateFields

\* A blank state is one.
LEMMA BlankIsState ==
    ASSUME NEW a
    PROVE  IsState(Blank(a)) /\ Blank(a).address = a
<1> DEFINE c == [balance |-> Unknown, content |-> NoText, restriction |-> NoRestriction]
<1>1. Blank(a) = State(a, c, <<>>, <<>>)
  BY DEF Blank
<1>2. IsAccount(c)
  BY DEF IsAccount, NoRestriction
<1> HIDE DEF c
<1> QED BY <1>1, <1>2, EmptyIsList, StateMade, StateFields

-----------------------------------------------------------------------------
(* What the database holds *)

\* The record r of the database, as it is there and as it was in memory.
Fits(r, packed, value) ==
    /\ r = "settings" =>
          UnpackSettings(packed) = [value EXCEPT !.useTestNetwork = TRUE]
    /\ r \in Nets => IsEntries(value) /\ Map(UnpackEntry, packed) = value
    /\ r \notin {"settings"} \cup Nets =>
          IsState(value) /\ UnpackState(packed) = WithoutTexts(value)

\* The inductive invariant of the records: each was packed of what kept tells.
StoredIsKept ==
    /\ told \in Told
    /\ DOMAIN stored = Records /\ DOMAIN kept = Records
    /\ \A r \in Records :
          \/ stored[r] = <<>> /\ kept[r] = <<>>
          \/ /\ stored[r] = <<stored[r][1]>> /\ kept[r] = <<kept[r][1]>>
             /\ Fits(r, stored[r][1], kept[r][1])

\* The three kinds of records.
LEMMA RecordKinds ==
    /\ "settings" \in Records /\ "settings" \notin Nets
    /\ \A net \in Nets : net \in Records /\ net # "settings"
    /\ \A a \in Addresses : /\ StateKey[a] \in Records
                            /\ StateKey[a] \notin {"settings"} \cup Nets
BY StateKeyAssumption DEF Records, Nets

\* A record is never nothing.
LEMMA NotNothing == \A x : <<x>> # <<>> /\ <<x>>[1] = x
OBVIOUS

\* Saving what fits keeps the invariant, whether the database fails or not.
LEMMA SaveKeeps ==
    ASSUME StoredIsKept, NEW r \in Records, NEW p, NEW v, Fits(r, p, v),
           Save(r, <<p>>, <<v>>)
    PROVE  StoredIsKept'
<1>1. told' = told
  BY DEF Save
<1>2. CASE UNCHANGED <<stored, kept>>
  BY <1>1, <1>2 DEF StoredIsKept
<1>3. CASE stored' = [stored EXCEPT ![r] = <<p>>] /\ kept' = [kept EXCEPT ![r] = <<v>>]
  <2>1. DOMAIN stored' = Records /\ DOMAIN kept' = Records
    BY <1>3 DEF StoredIsKept
  <2>2. stored'[r] = <<p>> /\ kept'[r] = <<v>>
    BY <1>3 DEF StoredIsKept
  <2>3. \A x \in Records \ {r} : stored'[x] = stored[x] /\ kept'[x] = kept[x]
    BY <1>3 DEF StoredIsKept
  <2>4. stored'[r][1] = p /\ kept'[r][1] = v
    BY <2>2
  <2>5. ASSUME NEW x \in Records
        PROVE  \/ stored'[x] = <<>> /\ kept'[x] = <<>>
               \/ /\ stored'[x] = <<stored'[x][1]>> /\ kept'[x] = <<kept'[x][1]>>
                  /\ Fits(x, stored'[x][1], kept'[x][1])
    <3>1. CASE x = r
      BY <3>1, <2>2, <2>4
    <3>2. CASE x # r
      BY <3>2, <2>3 DEF StoredIsKept
    <3> QED BY <3>1, <3>2
  <2>6. told' \in Told
    BY <1>1 DEF StoredIsKept
  <2> QED BY <2>1, <2>5, <2>6 DEF StoredIsKept, Fits
<1> QED BY <1>2, <1>3 DEF Save

\* So does removing a record.
LEMMA RemovalKeeps ==
    ASSUME StoredIsKept, NEW r \in Records, Save(r, <<>>, <<>>)
    PROVE  StoredIsKept'
<1>1. told' = told
  BY DEF Save
<1>2. CASE UNCHANGED <<stored, kept>>
  BY <1>1, <1>2 DEF StoredIsKept
<1>3. CASE stored' = [stored EXCEPT ![r] = <<>>] /\ kept' = [kept EXCEPT ![r] = <<>>]
  <2>1. DOMAIN stored' = Records /\ DOMAIN kept' = Records
    BY <1>3 DEF StoredIsKept
  <2>2. stored'[r] = <<>> /\ kept'[r] = <<>>
    BY <1>3 DEF StoredIsKept
  <2>3. \A x \in Records \ {r} : stored'[x] = stored[x] /\ kept'[x] = kept[x]
    BY <1>3 DEF StoredIsKept
  <2>4. ASSUME NEW x \in Records
        PROVE  \/ stored'[x] = <<>> /\ kept'[x] = <<>>
               \/ /\ stored'[x] = <<stored'[x][1]>> /\ kept'[x] = <<kept'[x][1]>>
                  /\ Fits(x, stored'[x][1], kept'[x][1])
    <3>1. CASE x = r
      BY <3>1, <2>2
    <3>2. CASE x # r
      BY <3>2, <2>3 DEF StoredIsKept
    <3> QED BY <3>1, <3>2
  <2>5. told' \in Told
    BY <1>1 DEF StoredIsKept
  <2> QED BY <2>1, <2>4, <2>5 DEF StoredIsKept, Fits
<1> QED BY <1>2, <1>3 DEF Save

\* What is loaded of a list is what was kept of it.
LEMMA ListLoaded ==
    ASSUME StoredIsKept, NEW net \in Nets
    PROVE  /\ LoadWalletList(net) = IF kept[net] = <<>> THEN <<>> ELSE kept[net][1]
           /\ IsEntries(LoadWalletList(net))
<1>1. net \in Records
  BY RecordKinds
<1>2. CASE stored[net] = <<>> /\ kept[net] = <<>>
  BY <1>2, EmptyIsList DEF LoadWalletList, IsEntries
<1>3. CASE /\ stored[net] = <<stored[net][1]>> /\ kept[net] = <<kept[net][1]>>
           /\ Fits(net, stored[net][1], kept[net][1])
  <2>1. stored[net] # <<>> /\ kept[net] # <<>>
    BY <1>3, NotNothing
  <2>2. IsEntries(kept[net][1]) /\ Map(UnpackEntry, stored[net][1]) = kept[net][1]
    BY <1>3 DEF Fits
  <2> QED BY <2>1, <2>2 DEF LoadWalletList
<1> QED BY <1>1, <1>2, <1>3 DEF StoredIsKept

\* What is loaded of an account is what was kept of it, without hidden texts,
\* or a blank state.
LEMMA StateLoaded ==
    ASSUME StoredIsKept, NEW a \in Addresses
    PROVE  /\ LET k == kept[StateKey[a]] IN
                LoadWalletState(a) = IF k # <<>> /\ k[1].address = a
                                       THEN WithoutTexts(k[1]) ELSE Blank(a)
           /\ IsState(LoadWalletState(a)) /\ LoadWalletState(a).address = a
<1> DEFINE r == StateKey[a]
           k == kept[r]
<1>1. r \in Records /\ r \notin {"settings"} \cup Nets
  BY RecordKinds
<1>2. IsState(Blank(a)) /\ Blank(a).address = a
  BY BlankIsState
<1>3. CASE stored[r] = <<>> /\ k = <<>>
  BY <1>2, <1>3 DEF LoadWalletState
<1>4. CASE /\ stored[r] = <<stored[r][1]>> /\ k = <<k[1]>>
           /\ Fits(r, stored[r][1], k[1])
  <2>1. stored[r] # <<>> /\ k # <<>>
    BY <1>4, NotNothing
  <2>2. IsState(k[1]) /\ UnpackState(stored[r][1]) = WithoutTexts(k[1])
    BY <1>1, <1>4 DEF Fits
  <2>3. IsState(WithoutTexts(k[1])) /\ WithoutTexts(k[1]).address = k[1].address
    BY <2>2, StateComesBack
  <2>4. LoadWalletState(a) = IF k[1].address = a THEN WithoutTexts(k[1]) ELSE Blank(a)
    BY <2>1, <2>2, <2>3 DEF LoadWalletState
  <2> QED BY <2>1, <2>3, <2>4, <1>2
<1> QED BY <1>1, <1>3, <1>4 DEF StoredIsKept

\* What is loaded of the settings is what was kept of them, for the test
\* network.
LEMMA SettingsLoaded ==
    ASSUME StoredIsKept
    PROVE  LoadSettings = IF kept["settings"] = <<>> THEN NoSettings
                          ELSE [kept["settings"][1] EXCEPT !.useTestNetwork = TRUE]
<1> DEFINE r == "settings"
<1>1. r \in Records
  BY RecordKinds
<1>2. CASE stored[r] = <<>> /\ kept[r] = <<>>
  BY <1>2 DEF LoadSettings
<1>3. CASE /\ stored[r] = <<stored[r][1]>> /\ kept[r] = <<kept[r][1]>>
           /\ Fits(r, stored[r][1], kept[r][1])
  <2>1. stored[r] # <<>> /\ kept[r] # <<>>
    BY <1>3, NotNothing
  <2>2. UnpackSettings(stored[r][1]) = [kept[r][1] EXCEPT !.useTestNetwork = TRUE]
    BY <1>3 DEF Fits
  <2> QED BY <2>1, <2>2 DEF LoadSettings
<1> QED BY <1>1, <1>2, <1>3 DEF StoredIsKept

\* Entries come back, those of older versions without an address.
LEMMA EntriesComeBack ==
    ASSUME NEW l, IsEntries(l)
    PROVE  /\ Map(UnpackEntry, Map(PackEntry, l)) = l
           /\ (\A e \in ToSet(l) : e.address = NoAddress)
                => Map(UnpackEntry, Map(OldEntry, l)) = l
<1>1. /\ l = [i \in DOMAIN l |-> l[i]]
      /\ \A i \in DOMAIN l : l[i] \in ToSet(l)
  BY ListFacts DEF IsEntries
<1>2. ASSUME NEW e, e = [key |-> e.key, address |-> e.address]
      PROVE  /\ UnpackEntry(PackEntry(e)) = e
             /\ e.address = NoAddress => UnpackEntry(OldEntry(e)) = e
  BY <1>2 DEF UnpackEntry, PackEntry, OldEntry
<1>3. \A i \in DOMAIN l : UnpackEntry(PackEntry(l[i])) = l[i]
  BY <1>1, <1>2 DEF IsEntries
<1>4. ASSUME \A e \in ToSet(l) : e.address = NoAddress
      PROVE  \A i \in DOMAIN l : UnpackEntry(OldEntry(l[i])) = l[i]
  BY <1>1, <1>2, <1>4 DEF IsEntries
<1> QED BY <1>1, <1>3, <1>4 DEF Map

\* An entry more.
LEMMA EntryAdded ==
    ASSUME NEW l, IsEntries(l), NEW k, NEW a
    PROVE  IsEntries(Append(l, [key |-> k, address |-> a]))
<1> DEFINE e == [key |-> k, address |-> a]
           m == Append(l, e)
<1>1. e = [key |-> e.key, address |-> e.address]
  OBVIOUS
<1> HIDE DEF e
<1>2. l \in Seq(ToSet(l))
  BY DEF IsEntries, IsList
<1>3. /\ Len(l) \in Nat /\ DOMAIN m = 1..(Len(l) + 1) /\ m = [i \in 1..(Len(l) + 1) |-> m[i]]
      /\ \A i \in 1..Len(l) : m[i] = l[i]
      /\ m[Len(l) + 1] = e
      /\ DOMAIN l = 1..Len(l)
  <2> DEFINE S == ToSet(l) \cup {e}
  <2>1. l \in Seq(S) /\ e \in S
    BY <1>2
  <2> HIDE DEF S
  <2>2. m \in Seq(S) /\ Len(m) = Len(l) + 1 /\ m[Len(l) + 1] = e
    BY <2>1
  <2>3. \A i \in 1..Len(l) : m[i] = l[i]
    BY <2>1
  <2>4. Len(l) \in Nat /\ DOMAIN l = 1..Len(l)
    BY <2>1
  <2> HIDE DEF m
  <2>5. DOMAIN m = 1..(Len(l) + 1) /\ m = [i \in 1..(Len(l) + 1) |-> m[i]]
    BY <2>2, <2>4
  <2> QED BY <2>2, <2>3, <2>4, <2>5
<1> HIDE DEF m
<1>4. IsList(m)
  BY <1>3, MapIsList
<1>5. ASSUME NEW x \in ToSet(m) PROVE x = e \/ x \in ToSet(l)
  BY <1>3 DEF ToSet
<1> QED BY <1>1, <1>4, <1>5 DEF IsEntries, m, e

\* Whichever list is saved, the invariant holds after it.
LEMMA SaveWalletListKeeps ==
    ASSUME StoredIsKept, NEW net \in Nets, NEW l, IsEntries(l), SaveWalletList(net, l)
    PROVE  StoredIsKept'
<1>1. net \in Records /\ net # "settings"
  BY RecordKinds
<1>2. CASE l = <<>>
  BY <1>1, <1>2, RemovalKeeps DEF SaveWalletList
<1>3. CASE l # <<>>
  <2> DEFINE p == Map(PackEntry, l)
  <2>1. Fits(net, p, l)
    BY <1>1, EntriesComeBack DEF Fits
  <2>2. Save(net, <<p>>, <<l>>)
    BY <1>3 DEF SaveWalletList
  <2> HIDE DEF p
  <2> QED BY <1>1, <2>1, <2>2, SaveKeeps
<1> QED BY <1>2, <1>3

\* Whichever state is saved, the invariant holds after it.
LEMMA SaveWalletStateKeeps ==
    ASSUME StoredIsKept, NEW s, IsState(s), s.address \in Addresses, SaveWalletState(s)
    PROVE  StoredIsKept'
<1> DEFINE r == StateKey[s.address]
           p == PackState(s)
<1>1. r \in Records /\ r \notin {"settings"} \cup Nets
  BY RecordKinds
<1>2. Save(r, <<p>>, <<s>>)
  BY DEF SaveWalletState
<1>3. Fits(r, p, s)
  BY <1>1, StateComesBack DEF Fits
<1> HIDE DEF p, r
<1> QED BY <1>1, <1>2, <1>3, SaveKeeps


\* What an older version has left, if anything, fits; so does nothing.
LEMMA InitStored == StoreInit => StoredIsKept
<1> SUFFICES ASSUME StoreInit PROVE StoredIsKept
  OBVIOUS
<1>1. told \in Told
  BY DEF StoreInit
<1>2. PICK first \in {<<>>} \cup {<<p>> : p \in FirstSettings},
           lists \in [Nets -> FirstLists], a \in Addresses, old \in BOOLEAN :
        Found(first, lists, a, old)
  BY DEF StoreInit
<1> DEFINE now == [told EXCEPT !.pending = <<>>]
           s == ParseState(a, now)
           Row(r) == \/ stored[r] = <<>> /\ kept[r] = <<>>
                     \/ /\ stored[r] = <<stored[r][1]>> /\ kept[r] = <<kept[r][1]>>
                        /\ Fits(r, stored[r][1], kept[r][1])
<1>3. DOMAIN stored = Records /\ DOMAIN kept = Records
  BY <1>2 DEF Found
<1>4. Row("settings")
  <2> DEFINE r == "settings"
  <2>1. stored[r] = Map(LAMBDA p : p.packed, first) /\ kept[r] = Map(LAMBDA p : p.means, first)
    BY <1>2, RecordKinds DEF Found
  <2>2. CASE first = <<>>
    BY <2>1, <2>2 DEF Map
  <2>3. CASE first # <<>>
    <3>1. PICK p \in FirstSettings : first = <<p>>
      BY <2>3
    <3>2. stored[r] = <<p.packed>> /\ kept[r] = <<p.means>>
      BY <2>1, <3>1 DEF Map
    <3>3. UnpackSettings(p.packed) = [p.means EXCEPT !.useTestNetwork = TRUE]
      <4> DEFINE network == p.packed.network
                 name == IF network.name = Mainnet THEN MainnetTest ELSE network.name
                 url == IF network.url = OldUrl THEN NewUrl ELSE network.url
                 version == IF p.packed.form = "settings" THEN 0 ELSE p.packed.version
      <4>1. /\ p.packed.form # "settings3"
            /\ network = [name |-> network.name, url |-> network.url]
            /\ p.means = [main |-> NoNetwork, useTestNetwork |-> TRUE,
                          version |-> version, test |-> [name |-> name, url |-> url]]
        BY FirstSettingsAssumption
      <4>2. [network EXCEPT !.name = ConvertLegacyTestBlockchainName(@),
                            !.url = ConvertLegacyUrl(@)]
              = [name |-> name, url |-> url]
        <5> DEFINE u == [network EXCEPT !.name = name]
                   v == [network EXCEPT !.name = name, !.url = url]
        <5>1. v = [u EXCEPT !.url = url]
          OBVIOUS
        <5>2. u = [name |-> name, url |-> network.url]
          BY <4>1
        <5> HIDE DEF u, v
        <5>3. v = [name |-> name, url |-> url]
          BY <5>1, <5>2
        <5> QED BY <5>3 DEF v, ConvertLegacyTestBlockchainName, ConvertLegacyUrl
      <4>3. UnpackSettings(p.packed) =
              [main |-> NoNetwork, useTestNetwork |-> TRUE, version |-> version,
               test |-> [network EXCEPT !.name = ConvertLegacyTestBlockchainName(@),
                                        !.url = ConvertLegacyUrl(@)]]
        BY <4>1 DEF UnpackSettings
      <4> HIDE DEF network, name, url, version
      <4>4. UnpackSettings(p.packed) = p.means
        BY <4>1, <4>2, <4>3
      <4> DEFINE u == p.means
      <4>5. u.useTestNetwork = TRUE /\ u = [x \in DOMAIN u |-> u[x]]
        BY <4>1
      <4> HIDE DEF u
      <4>6. u = [u EXCEPT !.useTestNetwork = TRUE]
        BY <4>5
      <4> QED BY <4>4, <4>6 DEF u
    <3> QED BY <3>2, <3>3, RecordKinds DEF Fits
  <2> QED BY <2>2, <2>3
<1>5. ASSUME NEW net \in Nets PROVE Row(net)
  <2>1. net \in Records /\ net # "settings"
    BY RecordKinds
  <2>2. /\ stored[net] = Map(LAMBDA l : Map(OldEntry, l), lists[net])
        /\ kept[net] = lists[net]
    BY <1>2, <2>1, RecordKinds DEF Found
  <2>3. lists[net] \in FirstLists
    OBVIOUS
  <2>4. CASE lists[net] = <<>>
    BY <2>2, <2>4 DEF Map
  <2>5. CASE lists[net] # <<>>
    <3>1. PICK k \in Keys : lists[net] = << <<[key |-> k, address |-> NoAddress]>> >>
      BY <2>3, <2>5 DEF FirstLists
    <3> DEFINE e == [key |-> k, address |-> NoAddress]
               l == <<e>>
               p == Map(OldEntry, l)
    <3>2. stored[net] = <<p>> /\ kept[net] = <<l>>
      BY <2>2, <3>1 DEF Map
    <3>3. e = [key |-> e.key, address |-> e.address] /\ e.address = NoAddress
      OBVIOUS
    <3> HIDE DEF e
    <3>4. /\ DOMAIN l = 1..1 /\ l = [i \in 1..1 |-> l[i]]
          /\ \A x \in ToSet(l) : x = e
      BY DEF ToSet
    <3> HIDE DEF l
    <3>5. IsEntries(l)
      BY <3>3, <3>4, MapIsList DEF IsEntries
    <3>6. Map(UnpackEntry, p) = l
      BY <3>3, <3>4, <3>5, EntriesComeBack
    <3> HIDE DEF p
    <3> QED BY <2>1, <3>2, <3>5, <3>6 DEF Fits
  <2> QED BY <2>4, <2>5
<1>6. ASSUME NEW r \in Records, r \notin {"settings"} \cup Nets PROVE Row(r)
  <2>1. CASE r = StateKey[a] /\ old
    <3>1. stored[r] = <<OldState(s)>> /\ kept[r] = <<s>>
      BY <1>2, <1>6, <2>1 DEF Found
    <3>2. WasExpressible(s)
      BY <1>2, <2>1 DEF Found
    <3>3. IsTold(now) /\ now.pending = <<>>
      BY <1>1, ToldAssumption, EmptyIsList DEF IsTold
    <3> HIDE DEF now
    <3>4. IsState(s)
      BY <3>3, ParsedIsState
    <3>5. s.pending = <<>>
      BY <3>3 DEF ParseState, State, Map
    <3> HIDE DEF s
    <3>6. UnpackState(OldState(s)) = WithoutTexts(s)
      BY <3>2, <3>4, <3>5, OldStateComesBack
    <3> QED BY <1>6, <3>1, <3>4, <3>6 DEF Fits
  <2>2. CASE ~ (r = StateKey[a] /\ old)
    BY <1>2, <1>6, <2>2 DEF Found
  <2> QED BY <2>1, <2>2
<1> QED BY <1>1, <1>3, <1>4, <1>5, <1>6 DEF StoredIsKept

\* Every step of Storage keeps what the database holds and what was saved
\* together.
LEMMA NextStored == StoredIsKept /\ [StoreNext]_allVars => StoredIsKept'
<1> SUFFICES ASSUME StoredIsKept, StoreNext \/ UNCHANGED allVars PROVE StoredIsKept'
  OBVIOUS
<1>1. CASE DirectoryStep
  <2>1. told' = told
    BY <1>1 DEF DirectoryStep
  <2>2. CASE UNCHANGED <<stored, kept>>
    BY <2>1, <2>2 DEF StoredIsKept
  <2>3. CASE stored' = Nothing /\ kept' = Nothing
    BY <2>1, <2>3 DEF StoredIsKept, Nothing
  <2> QED BY <1>1, <2>2, <2>3 DEF DirectoryStep
<1>2. ASSUME NEW s \in NewSettings, SaveSettings(s) PROVE StoredIsKept'
  <2> DEFINE p == PackSettings(s)
  <2>1. Save("settings", <<p>>, <<s>>)
    BY <1>2 DEF SaveSettings
  <2>2. UnpackSettings(p) = [s EXCEPT !.useTestNetwork = TRUE]
    BY DEF UnpackSettings, PackSettings
  <2> HIDE DEF p
  <2>3. Fits("settings", p, s)
    BY <2>2, RecordKinds DEF Fits
  <2> QED BY <2>1, <2>3, RecordKinds, SaveKeeps
<1>3. ASSUME NEW net \in Nets, ChangeList(net) PROVE StoredIsKept'
  <2> DEFINE l == LoadWalletList(net)
  <2>1. IsEntries(l)
    BY ListLoaded
  <2>2. IsEntries(<<>>)
    BY EmptyIsList DEF IsEntries
  <2>3. CASE \E k \in Keys, a \in Addresses :
               SaveWalletList(net, Append(l, [key |-> k, address |-> a]))
    <3>1. PICK k \in Keys, a \in Addresses :
            SaveWalletList(net, Append(l, [key |-> k, address |-> a]))
      BY <2>3
    <3> DEFINE m == Append(l, [key |-> k, address |-> a])
    <3>2. IsEntries(m)
      BY <2>1, EntryAdded
    <3> HIDE DEF m
    <3> QED BY <3>1, <3>2, SaveWalletListKeeps DEF m
  <2>4. CASE SaveWalletList(net, <<>>)
    BY <2>2, <2>4, SaveWalletListKeeps
  <2>5. CASE SaveWalletList(net, l)
    BY <2>1, <2>5, SaveWalletListKeeps
  <2> QED BY <1>3, <2>3, <2>4, <2>5 DEF ChangeList
<1>4. ASSUME NEW a \in Addresses, ChangeState(a) PROVE StoredIsKept'
  <2> DEFINE was == LoadWalletState(a)
             now == ParseState(a, told)
  <2>1. IsTold(told)
    BY ToldAssumption DEF StoredIsKept
  <2>2. IsState(was) /\ was.address = a
    BY StateLoaded
  <2>3. IsState(now) /\ now.address = a
    BY <2>1, ParsedIsState
  <2>4. IsList(now.pending) /\ \A t \in ToSet(now.pending) : IsShown(t)
    BY <2>3 DEF IsState
  <2>5. \/ SaveWalletState([now EXCEPT !.pending = <<>>])
        \/ SaveWalletState(Decrypted(now))
        \/ SaveWalletState([was EXCEPT !.pending = now.pending])
    BY <1>4 DEF ChangeState
  <2> HIDE DEF was, now
  <2>6. CASE SaveWalletState([now EXCEPT !.pending = <<>>])
    <3> DEFINE s == [now EXCEPT !.pending = <<>>]
    <3>1. IsState(s) /\ s.address = a
      BY <2>3, EmptyIsList, PendingReplaced
    <3>2. SaveWalletState(s)
      BY <2>6
    <3> HIDE DEF s
    <3> QED BY <3>1, <3>2, SaveWalletStateKeeps
  <2>7. CASE SaveWalletState(Decrypted(now))
    BY <2>3, <2>7, DecryptedIsState, SaveWalletStateKeeps
  <2>8. CASE SaveWalletState([was EXCEPT !.pending = now.pending])
    <3> DEFINE s == [was EXCEPT !.pending = now.pending]
    <3>1. IsState(s) /\ s.address = a
      BY <2>2, <2>4, PendingReplaced
    <3>2. SaveWalletState(s)
      BY <2>8
    <3> HIDE DEF s
    <3> QED BY <3>1, <3>2, SaveWalletStateKeeps
  <2> QED BY <2>5, <2>6, <2>7, <2>8
<1>5. CASE UNCHANGED allVars
  BY <1>5 DEF allVars, storeVars, StoredIsKept
<1> QED BY <1>1, <1>2, <1>3, <1>4, <1>5 DEF StoreNext

\* details/ton_storage.cpp: what was saved last is what is loaded, whoever wrote
\* it, but for the texts of encrypted messages and the network in use.
THEOREM LoadedIsAlwaysSaved == StoreSpec => []LoadedIsSaved
<1>1. StoredIsKept => LoadedIsSaved
  BY SettingsLoaded, ListLoaded, StateLoaded DEF LoadedIsSaved
<1> QED BY InitStored, NextStored, <1>1, PTL DEF StoreSpec

=============================================================================
