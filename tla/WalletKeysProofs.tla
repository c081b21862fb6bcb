-------------------------- MODULE WalletKeysProofs --------------------------
(***************************************************************************)
(* Theorems about WalletKeys, for every set of keys and passwords and      *)
(* every bound: first the types, then the custody of keys, which is        *)
(* inductive, so that a saved key stays usable and memory agrees with the  *)
(* disk, then the secrets, the change of passwords and the refinement.     *)
(***************************************************************************)
EXTENDS WalletKeys, SequenceTheorems, TLAPS

-----------------------------------------------------------------------------
\* Sequences: what the helpers of SequencesExt return.

\* Front(s) and Last(s) take a non-empty sequence apart.
LEMMA FrontLastProperties ==
    ASSUME NEW S, NEW s \in Seq(S), s # <<>>
    PROVE  /\ Front(s) \in Seq(S)
           /\ Len(Front(s)) = Len(s) - 1
           /\ \A i \in 1..(Len(s) - 1) : Front(s)[i] = s[i]
           /\ Last(s) \in S
           /\ Last(s) = s[Len(s)]
           /\ Len(s) \in Nat \ {0}
<1>1. Len(s) \in Nat \ {0}
  BY EmptySeq
<1>2. \A i \in 1..(Len(s) - 1) : s[i] \in S
  BY <1>1, ElementOfSeq
<1>3. Len(s) - 1 \in Int /\ 1 \in Int
  BY <1>1
<1>4. /\ SubSeq(s, 1, Len(s) - 1) \in Seq(S)
      /\ Len(SubSeq(s, 1, Len(s) - 1)) =
           IF 1 <= Len(s) - 1 THEN Len(s) - 1 - 1 + 1 ELSE 0
      /\ \A i \in 1..(Len(s) - 1 - 1 + 1) :
            SubSeq(s, 1, Len(s) - 1)[i] = s[1 + i - 1]
  BY <1>2, <1>3, SubSeqProperties
<1>5. s[Len(s)] \in S
  BY <1>1, ElementOfSeq
<1>6. /\ Front(s) \in Seq(S)
      /\ Last(s) = s[Len(s)]
  BY <1>4 DEF Front, Last
<1>7. Len(Front(s)) = Len(s) - 1
  <2>1. Len(Front(s)) = IF 1 <= Len(s) - 1 THEN Len(s) - 1 - 1 + 1 ELSE 0
    BY <1>4, Zenon DEF Front
  <2>2. \A n \in Nat \ {0} : (IF 1 <= n - 1 THEN n - 1 - 1 + 1 ELSE 0) = n - 1
    OBVIOUS
  <2>. QED
    BY <1>1, <2>1, <2>2, Zenon
<1>8. \A i \in 1..(Len(s) - 1) : Front(s)[i] = s[i]
  <2>1. ASSUME NEW i \in 1..(Len(s) - 1)
        PROVE  /\ i \in 1..(Len(s) - 1 - 1 + 1)
               /\ 1 + i - 1 = i
    BY <1>1
  <2>. QED
    BY <1>4, <2>1 DEF Front
<1>. QED
  BY <1>1, <1>5, <1>6, <1>7, <1>8

\* RemoveAt(s, i) is a sequence of elements of s.
LEMMA RemoveAtProperties ==
    ASSUME NEW S, NEW s \in Seq(S), NEW i \in 1..Len(s)
    PROVE  /\ RemoveAt(s, i) \in Seq(S)
           /\ Len(RemoveAt(s, i)) = Len(s) - 1
           /\ \A j \in 1..Len(RemoveAt(s, i)) :
                RemoveAt(s, i)[j] = IF j < i THEN s[j] ELSE s[j + 1]
<1>1. Len(s) \in Nat /\ i \in Nat
  BY LenProperties
<1> DEFINE a == SubSeq(s, 1, i - 1)
           b == SubSeq(s, i + 1, Len(s))
<1>2. \A j \in 1..Len(s) : s[j] \in S
  BY ElementOfSeq
<1>3. /\ a \in Seq(S)
      /\ Len(a) = i - 1
      /\ \A j \in 1..(i - 1) : a[j] = s[j]
  <2>1. /\ a \in Seq(S)
        /\ Len(a) = IF 1 <= i - 1 THEN i - 1 - 1 + 1 ELSE 0
        /\ \A j \in 1..(i - 1 - 1 + 1) : a[j] = s[1 + j - 1]
    <3>1. \A j \in 1..(i - 1) : s[j] \in S
      BY <1>1, <1>2
    <3>. QED
      BY <1>1, <3>1, SubSeqProperties
  <2>. QED
    BY <1>1, <2>1
<1>4. /\ b \in Seq(S)
      /\ Len(b) = Len(s) - i
      /\ \A j \in 1..(Len(s) - i) : b[j] = s[i + j]
  <2>1. /\ b \in Seq(S)
        /\ Len(b) = IF i + 1 <= Len(s) THEN Len(s) - (i + 1) + 1 ELSE 0
        /\ \A j \in 1..(Len(s) - (i + 1) + 1) : b[j] = s[i + 1 + j - 1]
    <3>1. \A j \in (i + 1)..Len(s) : s[j] \in S
      BY <1>1, <1>2
    <3>. QED
      BY <1>1, <3>1, SubSeqProperties
  <2>. QED
    BY <1>1, <2>1
<1>5. /\ a \o b \in Seq(S)
      /\ Len(a \o b) = Len(a) + Len(b)
      /\ \A j \in 1..(Len(a) + Len(b)) :
            (a \o b)[j] = IF j <= Len(a) THEN a[j] ELSE b[j - Len(a)]
  BY <1>3, <1>4, ConcatProperties
<1>6. RemoveAt(s, i) = a \o b
  BY DEF RemoveAt
<1> HIDE DEF a, b
<1>7. Len(a \o b) = Len(s) - 1
  BY <1>1, <1>3, <1>4, <1>5
<1>8. ASSUME NEW j \in 1..(Len(s) - 1)
      PROVE  (a \o b)[j] = IF j < i THEN s[j] ELSE s[j + 1]
  <2>1. j \in 1..(Len(a) + Len(b)) /\ j \in Nat
    BY <1>1, <1>3, <1>4
  <2>2. CASE j < i
    BY <1>1, <1>3, <1>5, <2>1, <2>2
  <2>3. CASE ~ (j < i)
    <3>1. /\ ~ (j <= Len(a))
          /\ j - Len(a) \in 1..(Len(s) - i)
          /\ i + (j - Len(a)) = j + 1
      BY <1>1, <1>3, <2>1, <2>3
    <3>. QED
      BY <1>4, <1>5, <2>1, <2>3, <3>1
  <2>. QED
    BY <2>2, <2>3
<1>. QED
  BY <1>5, <1>6, <1>7, <1>8

-----------------------------------------------------------------------------
\* Types, with what they rest on: who may be at work, and what it captured.

\* The first invariant: types, one operation at a time, captured lists not stale.
WellFormed == TypeOK /\ Exclusive /\ Captured

\* With a creator at work, the rest of WellFormed follows from its own part.
LEMMA CreatorFrame ==
    ASSUME WellFormed, creator.phase # "none",
           UNCHANGED <<destroyer, changer, opened>>,
           VaultTypeOK', CreatorTypeOK',
           creator'.phase \in {"rekeying", "dropping", "saving"} =>
             creator'.base = list'
    PROVE  WellFormed'
<1>1. destroyer = NoDestroyer /\ changer = NoChanger /\ opened
  BY DEF WellFormed, TypeOK, DestroyerTypeOK, ChangerTypeOK, Exclusive, Idle
<1>2. TypeOK'
  BY DEF WellFormed, TypeOK, DestroyerTypeOK, DestroyerType, ChangerTypeOK, ChangerType
<1>3. Exclusive'
  BY <1>1 DEF Exclusive, NoDestroyer, NoChanger
<1>4. Captured'
  BY <1>1 DEF Captured, CapturedByChanger, NoDestroyer, NoChanger
<1>. QED
  BY <1>2, <1>3, <1>4 DEF WellFormed


\* What the updates of the creator do to its fields.
LEMMA AskProperties ==
    ASSUME creator \in CreatorType, NEW phase \in CreatorPhases
    PROVE  /\ Ask(phase) \in CreatorType
           /\ Ask(phase).phase = phase /\ Ask(phase).answer = "pending"
           /\ Ask(phase).own = creator.own /\ Ask(phase).pw = creator.pw
           /\ Ask(phase).target = creator.target
           /\ Ask(phase).base = creator.base /\ Ask(phase).got = creator.got
  BY DEF CreatorType, Answers, Ask

\* A creator at rest keeps its key and the password it has it under.
LEMMA RestProperties ==
    ASSUME creator \in CreatorType
    PROVE  /\ Rest \in CreatorType
           /\ Rest.phase = "created" /\ Rest.answer = "none"
           /\ Rest.own = creator.own /\ Rest.pw = creator.pw
           /\ Rest.target = LocalPassword
           /\ Rest.base = <<>> /\ Rest.got = NoEntry
  BY EmptySeq DEF CreatorType, CreatorPhases, Answers, Rest

\* Hearing an answer changes the answer of the creator and nothing else.
LEMMA CreatorHearsProperties ==
    ASSUME creator \in CreatorType, NEW answer \in Answers
    PROVE  LET c == CreatorHears(answer) IN
           /\ c \in CreatorType
           /\ c.phase = creator.phase /\ c.answer = answer
           /\ c.own = creator.own /\ c.pw = creator.pw
           /\ c.target = creator.target
           /\ c.base = creator.base /\ c.got = creator.got
  BY DEF CreatorType, CreatorHears

\* Hearing a key changes the creator's answer and the key it got.
LEMMA CreatorHearsKeyProperties ==
    ASSUME creator \in CreatorType, NEW e \in Entry
    PROVE  LET c == CreatorHearsKey(e) IN
           /\ c \in CreatorType
           /\ c.phase = creator.phase /\ c.answer = "ok"
           /\ c.own = creator.own /\ c.pw = creator.pw
           /\ c.target = creator.target
           /\ c.base = creator.base /\ c.got = e
  BY DEF CreatorType, Answers, CreatorHearsKey

\* The null creator is well typed and holds no key.
LEMMA NoCreatorProperties ==
    /\ NoCreator \in CreatorType
    /\ NoCreator.phase = "none" /\ NoCreator.answer = "none"
    /\ NoCreator.own = NoEntry /\ NoCreator.got = NoEntry
  BY EmptySeq DEF NoCreator, CreatorType, CreatorPhases, Answers

\* A file tonlib adds under the next secret.
LEMMA MintProperties ==
    ASSUME VaultTypeOK, NEW k \in Keys,
           NEW p \in Passwords \cup {LocalPassword}, Mint(k, p)
    PROVE  /\ store' \in SUBSET KeyFile
           /\ minted' \in Nat
           /\ NextEntry(k) \in Entry
           /\ NextEntry(k).pub = k /\ NextEntry(k).secret = minted
           /\ NextEntry(k) # NoEntry
  BY NoEntryAssumption DEF VaultTypeOK, Mint, NextEntry, File, KeyFile, Entry

\* DeletePublicKey, heard or not, leaves key files and a flag.
LEMMA DeletePublicKeyProperties ==
    ASSUME VaultTypeOK, NEW e, DeletePublicKey(e)
    PROVE  store' \in SUBSET KeyFile /\ leaked' \in BOOLEAN
<1>1. (leaked \/ Holds(e)) \in BOOLEAN
  BY DEF VaultTypeOK
<1>. QED
  BY <1>1 DEF VaultTypeOK, DeletePublicKey

\* A step of KeyCreator keeps the types of the vault and of the creator.
LEMMA CreatorStepTypeOK ==
    ASSUME WellFormed, CreatorStep
    PROVE  VaultTypeOK' /\ CreatorTypeOK'
<1> USE NoEntryAssumption, LocalPasswordAssumption, AskProperties,
        RestProperties, NoCreatorProperties
    DEF OwningPhases, CreatorPhases, Waiting, Answered, vaultVars
<1>1. VaultTypeOK /\ CreatorTypeOK
  BY DEF WellFormed, TypeOK
<1>2. CASE LibMintsKey
  <2>1. CASE \E k \in Keys : Mint(k, creator.pw) /\ creator' = CreatorHearsKey(NextEntry(k))
    <3>1. PICK k \in Keys : Mint(k, creator.pw) /\ creator' = CreatorHearsKey(NextEntry(k))
      BY <2>1
    <3>2. creator.pw \in Passwords \cup {LocalPassword}
      BY <1>1 DEF CreatorTypeOK, CreatorType
    <3>. QED
      BY <1>1, <1>2, <3>1, <3>2, MintProperties, CreatorHearsKeyProperties
      DEF LibMintsKey, VaultTypeOK, CreatorTypeOK
  <2>2. CASE creator' = CreatorHears("error") /\ UNCHANGED <<store, minted>>
    BY <1>1, <1>2, <2>2, CreatorHearsProperties
    DEF LibMintsKey, VaultTypeOK, CreatorTypeOK, Answers
  <2>. QED
    BY <1>2, <2>1, <2>2 DEF LibMintsKey
<1>3. CASE LibExportsKey
  BY <1>1, <1>3, CreatorHearsProperties DEF LibExportsKey, VaultTypeOK, CreatorTypeOK, Answers
<1>4. CASE LibDropsKey
  BY <1>1, <1>4, CreatorHearsProperties, DeletePublicKeyProperties
  DEF LibDropsKey, VaultTypeOK, CreatorTypeOK, Answers
<1>5. CASE LibRekeys
  <2>1. CASE creator' = CreatorHears("error") /\ UNCHANGED <<store, minted>>
    BY <1>1, <1>5, <2>1, CreatorHearsProperties
    DEF LibRekeys, VaultTypeOK, CreatorTypeOK, Answers
  <2>2. CASE /\ Mint(creator.own.pub, creator.target)
             /\ creator' = CreatorHearsKey(NextEntry(creator.own.pub))
    <3>1. creator.own.pub \in Keys /\ creator.target \in Passwords \cup {LocalPassword}
      BY <1>1, <1>5 DEF LibRekeys, CreatorTypeOK, CreatorType, Entry
    <3>. QED
      BY <1>1, <1>5, <2>2, <3>1, MintProperties, CreatorHearsKeyProperties
      DEF LibRekeys, VaultTypeOK, CreatorTypeOK
  <2>. QED
    BY <1>5, <2>1, <2>2 DEF LibRekeys
<1>6. CASE DbSavesNewKey
  <2>1. Append(creator.base, creator.own) \in Seq(Entry)
    BY <1>1, <1>6, AppendProperties DEF DbSavesNewKey, CreatorTypeOK, CreatorType
  <2>2. PICK answer \in {"ok", "error"} :
          /\ SaveWalletList(Append(creator.base, creator.own), answer)
          /\ creator' = CreatorHears(answer)
    BY <1>6 DEF DbSavesNewKey
  <2>3. VaultTypeOK'
    BY <1>1, <1>6, <2>1, <2>2 DEF DbSavesNewKey, SaveWalletList, VaultTypeOK
  <2>4. CreatorTypeOK'
    BY <1>1, <1>6, <2>2, CreatorHearsProperties
    DEF DbSavesNewKey, CreatorTypeOK, Answers
  <2>. QED
    BY <2>3, <2>4
<1>7. CASE OnKeyCreated
  <2>1. creator.got \in Entry
    BY <1>1, <1>7 DEF OnKeyCreated, CreatorTypeOK, CreatorType
  <2>2. /\ creator' \in CreatorType /\ creator'.phase = "exporting"
        /\ creator'.answer = "pending" /\ creator'.own = creator.got
    BY <1>1, <1>7, <2>1 DEF OnKeyCreated, CreatorTypeOK, CreatorType
  <2>. QED
    BY <1>1, <1>7, <2>1, <2>2 DEF OnKeyCreated, VaultTypeOK, CreatorTypeOK
<1>8. CASE OnKeyImported
  <2>1. creator.got \in Entry
    BY <1>1, <1>8 DEF OnKeyImported, CreatorTypeOK, CreatorType
  <2>2. /\ creator' \in CreatorType /\ creator'.phase = "created"
        /\ creator'.answer = "none" /\ creator'.own = creator.got
    BY <1>1, <1>8, <2>1 DEF OnKeyImported, CreatorTypeOK, CreatorType
  <2>. QED
    BY <1>1, <1>8, <2>1, <2>2 DEF OnKeyImported, VaultTypeOK, CreatorTypeOK
<1>9. CASE OnKeyFailed
  BY <1>1, <1>9 DEF OnKeyFailed, VaultTypeOK, CreatorTypeOK
<1>10. CASE OnWordsExported
  BY <1>1, <1>10 DEF OnWordsExported, VaultTypeOK, CreatorTypeOK
<1>11. CASE OnDiscarded
  BY <1>1, <1>11 DEF OnDiscarded, VaultTypeOK, CreatorTypeOK
<1>12. CASE OnRekeyed
  BY <1>1, <1>12 DEF OnRekeyed, VaultTypeOK, CreatorTypeOK
<1>13. CASE OnOldDropped
  <2>1. creator.got \in Entry /\ creator.target \in Passwords
    BY <1>1, <1>13 DEF OnOldDropped, CreatorTypeOK, CreatorType
  <2>2. /\ creator' \in CreatorType /\ creator'.phase = "saving"
        /\ creator'.answer = "pending" /\ creator'.own = creator.got
        /\ creator'.pw = creator.target
    BY <1>1, <1>13, <2>1 DEF OnOldDropped, CreatorTypeOK, CreatorType
  <2>. QED
    BY <1>1, <1>13, <2>1, <2>2 DEF OnOldDropped, VaultTypeOK, CreatorTypeOK
<1>14. CASE OnNewKeySaved
  <2>1. list' \in Seq(Entry)
    <3>1. creator.own \in Entry /\ list \in Seq(Entry)
      BY <1>1, <1>14 DEF OnNewKeySaved, VaultTypeOK, CreatorTypeOK, CreatorType
    <3>2. Append(list, creator.own) \in Seq(Entry)
      BY <3>1, AppendProperties
    <3>. QED
      BY <1>14, <3>1, <3>2 DEF OnNewKeySaved
  <2>. QED
    BY <1>1, <1>14, <2>1 DEF OnNewKeySaved, VaultTypeOK, CreatorTypeOK
<1>. QED
  BY <1>2, <1>3, <1>4, <1>5, <1>6, <1>7, <1>8, <1>9, <1>10, <1>11, <1>12,
     <1>13, <1>14 DEF CreatorStep, CreatorServed, CreatorHandles

\* A step of KeyCreator keeps the types, the exclusion and its captured list.
LEMMA CreatorStepWellFormed ==
    ASSUME WellFormed, CreatorStep
    PROVE  WellFormed'
<1>1. creator.phase # "none"
  BY DEF CreatorStep, CreatorServed, CreatorHandles, LibMintsKey, LibExportsKey,
         LibDropsKey, LibRekeys, DbSavesNewKey, OnKeyCreated, OnKeyImported,
         OnKeyFailed, OnWordsExported, OnDiscarded, OnRekeyed, OnOldDropped,
         OnNewKeySaved, Waiting, Answered
<1>2. creator'.phase \in {"rekeying", "dropping", "saving"} =>
        creator'.base = list'
  <2> USE DEF WellFormed, TypeOK, CreatorTypeOK, Captured, vaultVars
  <2>1. CASE CreatorServed
    <3>1. creator'.phase = creator.phase /\ creator'.base = creator.base
      <4>1. CASE LibMintsKey
        BY <4>1 DEF LibMintsKey, CreatorType, CreatorHears, CreatorHearsKey
      <4>2. CASE LibExportsKey \/ LibDropsKey \/ LibRekeys \/ DbSavesNewKey
        BY <4>2 DEF CreatorType, CreatorHears, CreatorHearsKey, LibExportsKey,
                    LibDropsKey, LibRekeys, DbSavesNewKey
      <4>. QED
        BY <2>1, <4>1, <4>2 DEF CreatorServed
    <3>2. list' = list
      BY <2>1 DEF CreatorServed, LibMintsKey, LibExportsKey, LibDropsKey,
                  LibRekeys, DbSavesNewKey
    <3>. QED
      BY <3>1, <3>2
  <2>2. CASE \/ OnKeyCreated \/ OnKeyImported \/ OnKeyFailed
             \/ OnWordsExported \/ OnDiscarded
    <3>1. CASE OnKeyCreated \/ OnKeyImported
      BY <3>1 DEF OnKeyCreated, OnKeyImported, Ask, Rest, CreatorType
    <3>2. CASE OnKeyFailed \/ OnWordsExported \/ OnDiscarded
      BY <3>2, NoCreatorProperties, AskProperties, RestProperties
      DEF OnKeyFailed, OnWordsExported, OnDiscarded, CreatorPhases
    <3>. QED
      BY <2>2, <3>1, <3>2
  <2>3. CASE OnRekeyed
    BY <2>3, AskProperties, RestProperties DEF OnRekeyed, CreatorPhases
  <2>4. CASE OnOldDropped
    BY <2>4 DEF OnOldDropped, Answered, Ask, CreatorType
  <2>5. CASE OnNewKeySaved
    BY <2>5, NoCreatorProperties, RestProperties DEF OnNewKeySaved
  <2>. QED
    BY <2>1, <2>2, <2>3, <2>4, <2>5 DEF CreatorStep, CreatorHandles
<1>. QED
  BY <1>1, <1>2, CreatorStepTypeOK, CreatorFrame DEF CreatorStep

\* A step of KeyDestroyer: the same.
LEMMA DestroyerFrame ==
    ASSUME WellFormed, destroyer.phase # "none",
           UNCHANGED <<creator, changer, opened>>,
           VaultTypeOK', DestroyerTypeOK',
           destroyer'.phase # "none" => destroyer'.base = list'
    PROVE  WellFormed'
<1>1. creator = NoCreator /\ changer = NoChanger /\ opened
  BY DEF WellFormed, TypeOK, CreatorTypeOK, ChangerTypeOK, Exclusive, Idle
<1>2. TypeOK'
  BY DEF WellFormed, TypeOK, CreatorTypeOK, CreatorType, ChangerTypeOK, ChangerType
<1>3. Exclusive'
  BY <1>1 DEF Exclusive, NoCreator, NoChanger
<1>4. Captured'
  BY <1>1 DEF Captured, CapturedByChanger, NoCreator, NoChanger
<1>. QED
  BY <1>2, <1>3, <1>4 DEF WellFormed

\* The list a destroyer leaves is a list of entries of the one it had.
LEMMA WithoutProperties ==
    ASSUME NEW l \in Seq(Entry), NEW n \in {0} \cup DOMAIN l
    PROVE  LET r == IF n = 0 THEN <<>> ELSE RemoveAt(l, n) IN
           /\ r \in Seq(Entry)
           /\ \A j \in DOMAIN r : \E i \in DOMAIN l : i # n /\ r[j] = l[i]
<1> DEFINE r == IF n = 0 THEN <<>> ELSE RemoveAt(l, n)
<1> SUFFICES /\ r \in Seq(Entry)
             /\ \A j \in DOMAIN r : \E i \in DOMAIN l : i # n /\ r[j] = l[i]
  OBVIOUS
<1>1. CASE n = 0
  BY <1>1, EmptySeq
<1>2. CASE n # 0
  <2>1. n \in 1..Len(l) /\ Len(l) \in Nat /\ DOMAIN l = 1..Len(l)
    BY <1>2, LenProperties
  <2>2. r = RemoveAt(l, n)
    BY <1>2
  <2>3. r \in Seq(Entry)
    BY <2>1, <2>2, RemoveAtProperties
  <2>4. ASSUME NEW j \in DOMAIN r
        PROVE  \E i \in DOMAIN l : i # n /\ r[j] = l[i]
    <3>1. /\ Len(r) = Len(l) - 1
          /\ \A m \in 1..Len(r) : r[m] = IF m < n THEN l[m] ELSE l[m + 1]
      BY <2>1, <2>2, RemoveAtProperties
    <3>2. j \in 1..(Len(l) - 1)
      BY <2>3, <3>1, LenProperties
    <3>. DEFINE i == IF j < n THEN j ELSE j + 1
    <3>3. i \in DOMAIN l /\ i # n
      BY <2>1, <3>2
    <3>4. r[j] = l[i]
      BY <3>1, <3>2
    <3>. QED
      BY <3>3, <3>4
  <2>. QED
    BY <2>3, <2>4
<1>. QED
  BY <1>1, <1>2

\* The same of the list KeyDestroyer saves.
LEMMA SparedProperties ==
    ASSUME NEW l \in Seq(Entry), destroyer.index \in {0} \cup DOMAIN l
    PROVE  /\ Spared(l) \in Seq(Entry)
           /\ \A j \in DOMAIN Spared(l) :
                \E i \in DOMAIN l :
                   i # destroyer.index /\ Spared(l)[j] = l[i]
  BY WithoutProperties DEF Spared

\* Hearing an answer changes the answer of the destroyer and nothing else.
LEMMA DestroyerHearsProperties ==
    ASSUME destroyer \in DestroyerType, NEW answer \in Answers
    PROVE  LET d == DestroyerHears(answer) IN
           /\ d \in DestroyerType
           /\ d.phase = destroyer.phase /\ d.answer = answer
           /\ d.index = destroyer.index /\ d.base = destroyer.base
  BY DEF DestroyerType, DestroyerHears

\* The null destroyer is well typed.
LEMMA NoDestroyerProperties ==
    /\ NoDestroyer \in DestroyerType
    /\ NoDestroyer.phase = "none" /\ NoDestroyer.answer = "none"
  BY EmptySeq DEF NoDestroyer, DestroyerType, Answers

\* A step of KeyDestroyer keeps the types, the exclusion and its captured list.
LEMMA DestroyerStepWellFormed ==
    ASSUME WellFormed, DestroyerStep
    PROVE  WellFormed'
<1> USE DEF DestroyerTypeOK, vaultVars
<1>1. /\ VaultTypeOK /\ DestroyerTypeOK
      /\ destroyer.phase # "none" =>
           /\ destroyer.base = list /\ destroyer.base \in Seq(Entry)
           /\ destroyer.index \in {0} \cup DOMAIN list
  BY DEF WellFormed, TypeOK, Captured, DestroyerType
<1>2. /\ VaultTypeOK' /\ DestroyerTypeOK' /\ destroyer.phase # "none"
      /\ destroyer'.phase # "none" => destroyer'.base = list'
  <2>1. CASE LibDeletes
    <3>1. store' \in SUBSET KeyFile /\ leaked' \in BOOLEAN
      <4>1. CASE destroyer.index = 0
        BY <1>1, <2>1, <4>1 DEF LibDeletes, DeleteEveryFile, VaultTypeOK
      <4>2. CASE destroyer.index # 0
        BY <1>1, <2>1, <4>2, DeletePublicKeyProperties DEF LibDeletes
      <4>. QED
        BY <4>1, <4>2
    <3>. QED
      BY <1>1, <2>1, <3>1, DestroyerHearsProperties
      DEF LibDeletes, VaultTypeOK, Answers
  <2>2. CASE DbSavesSpared
    <3>1. PICK answer \in {"ok", "error"} :
            /\ SaveWalletList(Spared(destroyer.base), answer)
            /\ destroyer' = DestroyerHears(answer)
      BY <2>2 DEF DbSavesSpared
    <3>2. db' \in Seq(Entry)
      BY <1>1, <2>2, <3>1, SparedProperties
      DEF DbSavesSpared, SaveWalletList, VaultTypeOK
    <3>. QED
      BY <1>1, <2>2, <3>1, <3>2, DestroyerHearsProperties
      DEF DbSavesSpared, VaultTypeOK, Answers
  <2>3. CASE OnDeleted
    <3>1. /\ destroyer' \in DestroyerType
          /\ destroyer'.phase = "saving" /\ destroyer'.answer = "pending"
          /\ destroyer'.index = destroyer.index /\ destroyer'.base = destroyer.base
      BY <1>1, <2>3 DEF OnDeleted, DestroyerType, Answers
    <3>. QED
      BY <1>1, <2>3, <3>1 DEF OnDeleted, VaultTypeOK
  <2>4. CASE OnSparedSaved
    <3>1. list' \in Seq(Entry)
      BY <1>1, <2>4, SparedProperties DEF OnSparedSaved, VaultTypeOK
    <3>. QED
      BY <1>1, <2>4, <3>1, NoDestroyerProperties DEF OnSparedSaved, VaultTypeOK
  <2>. QED
    BY <2>1, <2>2, <2>3, <2>4
    DEF DestroyerStep, DestroyerServed, DestroyerHandles
<1>. QED
  BY <1>2, DestroyerFrame DEF DestroyerStep

\* A step of PasswordChanger: the same, with all it knows of the list.
LEMMA ChangerFrame ==
    ASSUME WellFormed, changer.phase # "none",
           UNCHANGED <<creator, destroyer, opened>>,
           VaultTypeOK', ChangerTypeOK', CapturedByChanger'
    PROVE  WellFormed'
<1>1. creator = NoCreator /\ destroyer = NoDestroyer /\ opened
  BY DEF WellFormed, TypeOK, CreatorTypeOK, DestroyerTypeOK, Exclusive, Idle
<1>2. TypeOK'
  BY DEF WellFormed, TypeOK, CreatorTypeOK, CreatorType, DestroyerTypeOK, DestroyerType
<1>3. Exclusive'
  BY <1>1 DEF Exclusive, NoCreator, NoDestroyer
<1>4. Captured'
  BY <1>1 DEF Captured, CapturedByChanger, NoCreator, NoDestroyer
<1>. QED
  BY <1>2, <1>3, <1>4 DEF WellFormed

\* Hearing an answer changes the answer of the changer and nothing else.
LEMMA ChangerHearsProperties ==
    ASSUME changer \in ChangerType, NEW answer \in Answers
    PROVE  LET c == ChangerHears(answer) IN
           /\ c \in ChangerType
           /\ c.phase = changer.phase /\ c.answer = answer
           /\ c.old = changer.old /\ c.new = changer.new
           /\ c.entries = changer.entries /\ c.fresh = changer.fresh
           /\ c.victim = changer.victim /\ c.got = changer.got
  BY DEF ChangerType, ChangerHears

\* Hearing a key changes the changer's answer and the key it got.
LEMMA ChangerHearsKeyProperties ==
    ASSUME changer \in ChangerType, NEW e \in Entry
    PROVE  LET c == ChangerHearsKey(e) IN
           /\ c \in ChangerType
           /\ c.phase = changer.phase /\ c.answer = "ok"
           /\ c.old = changer.old /\ c.new = changer.new
           /\ c.entries = changer.entries /\ c.fresh = changer.fresh
           /\ c.victim = changer.victim /\ c.got = e
  BY DEF ChangerType, Answers, ChangerHearsKey

\* Collect puts the key the changer got at the end of its new keys.
LEMMA CollectProperties ==
    ASSUME changer \in ChangerType, changer.got # NoEntry,
           NEW phase \in ChangerPhases
    PROVE  LET c == Collect(phase) IN
           /\ c \in ChangerType
           /\ c.phase = phase /\ c.answer = "pending"
           /\ c.old = changer.old /\ c.new = changer.new
           /\ c.entries = changer.entries
           /\ c.fresh = Append(changer.fresh, changer.got)
           /\ c.victim = changer.victim /\ c.got = NoEntry
<1>1. changer.fresh \in Seq(Entry) /\ changer.got \in Entry
  BY DEF ChangerType
<1>2. Append(changer.fresh, changer.got) \in Seq(Entry)
  BY <1>1, AppendProperties
<1>. QED
  BY <1>2 DEF ChangerType, Answers, Collect

\* UndoLast takes the last new key away and makes it the victim.
LEMMA UndoLastProperties ==
    ASSUME changer \in ChangerType, changer.fresh # <<>>
    PROVE  LET c == UndoLast IN
           /\ c \in ChangerType
           /\ c.phase = "rollback" /\ c.answer = "pending"
           /\ c.old = changer.old /\ c.new = changer.new
           /\ c.entries = changer.entries
           /\ c.fresh = Front(changer.fresh)
           /\ c.victim = Last(changer.fresh) /\ c.got = changer.got
<1>1. changer.fresh \in Seq(Entry)
  BY DEF ChangerType
<1>2. Front(changer.fresh) \in Seq(Entry) /\ Last(changer.fresh) \in Entry
  BY <1>1, FrontLastProperties
<1>. QED
  BY <1>2 DEF ChangerType, ChangerPhases, Answers, UndoLast

\* DropLastOld takes the last old key away and makes it the victim.
LEMMA DropLastOldProperties ==
    ASSUME changer \in ChangerType, changer.entries # <<>>
    PROVE  LET c == DropLastOld IN
           /\ c \in ChangerType
           /\ c.phase = "rollforward" /\ c.answer = "pending"
           /\ c.old = changer.old /\ c.new = changer.new
           /\ c.entries = Front(changer.entries)
           /\ c.fresh = changer.fresh
           /\ c.victim = Last(changer.entries) /\ c.got = changer.got
<1>1. changer.entries \in Seq(Entry)
  BY DEF ChangerType
<1>2. Front(changer.entries) \in Seq(Entry) /\ Last(changer.entries) \in Entry
  BY <1>1, FrontLastProperties
<1>. QED
  BY <1>2 DEF ChangerType, ChangerPhases, Answers, DropLastOld

\* The null changer is well typed and holds no key.
LEMMA NoChangerProperties ==
    /\ NoChanger \in ChangerType
    /\ NoChanger.phase = "none" /\ NoChanger.answer = "none"
    /\ NoChanger.victim = NoEntry /\ NoChanger.got = NoEntry
    /\ NoChanger.fresh = <<>> /\ NoChanger.entries = <<>>
  BY EmptySeq DEF NoChanger, ChangerType, ChangerPhases, Answers

\* The list the wallet makes of the new secrets.
LEMMA NewSecretsProperties ==
    ASSUME list \in Seq(Entry), changer.fresh \in Seq(Entry),
           Len(changer.fresh) = Len(list),
           \A i \in DOMAIN changer.fresh : changer.fresh[i].pub = list[i].pub
    PROVE  [i \in DOMAIN list |->
              [list[i] EXCEPT !.secret = changer.fresh[i].secret]]
             = changer.fresh
<1>1. /\ DOMAIN list = 1..Len(list) /\ DOMAIN changer.fresh = 1..Len(list)
      /\ changer.fresh \in [1..Len(list) -> Entry]
      /\ list \in [1..Len(list) -> Entry]
  BY LenProperties
<1>2. ASSUME NEW i \in 1..Len(list)
      PROVE  [list[i] EXCEPT !.secret = changer.fresh[i].secret] = changer.fresh[i]
  <2>1. list[i] \in Entry /\ changer.fresh[i] \in Entry
    BY <1>1
  <2>2. changer.fresh[i].pub = list[i].pub
    BY <1>1
  <2>. QED
    BY <2>1, <2>2 DEF Entry
<1>. QED
  BY <1>1, <1>2

\* A step of PasswordChanger keeps the types, the exclusion and its lists.
LEMMA ChangerStepWellFormed ==
    ASSUME WellFormed, ChangerStep
    PROVE  WellFormed'
<1> USE NoEntryAssumption DEF ChangerTypeOK, CapturedByChanger, vaultVars
<1>1. /\ VaultTypeOK /\ ChangerTypeOK /\ CapturedByChanger
      /\ changer.entries \in Seq(Entry) /\ changer.fresh \in Seq(Entry)
      /\ Len(changer.entries) \in Nat /\ Len(changer.fresh) \in Nat
      /\ list \in Seq(Entry)
  <2>1. /\ VaultTypeOK /\ ChangerTypeOK /\ CapturedByChanger
        /\ changer.entries \in Seq(Entry) /\ changer.fresh \in Seq(Entry)
        /\ list \in Seq(Entry)
    BY DEF WellFormed, TypeOK, Captured, ChangerType, VaultTypeOK
  <2>. QED
    BY <2>1, LenProperties
<1>2. /\ VaultTypeOK' /\ ChangerTypeOK' /\ CapturedByChanger'
      /\ changer.phase # "none"
  <2>1. CASE LibChangesPassword
    <3>1. Current \in Entry
      <4>1. Len(changer.fresh) + 1 \in 1..Len(changer.entries)
        BY <1>1, <2>1 DEF LibChangesPassword
      <4>. QED
        BY <1>1, <4>1, ElementOfSeq DEF Current
    <3>2. CASE changer' = ChangerHears("error") /\ UNCHANGED <<store, minted>>
      BY <1>1, <2>1, <3>2, ChangerHearsProperties
      DEF LibChangesPassword, VaultTypeOK, Answers
    <3>3. CASE /\ Mint(Current.pub, changer.new)
               /\ changer' = ChangerHearsKey(NextEntry(Current.pub))
      <4>1. Current.pub \in Keys /\ changer.new \in Passwords
        BY <1>1, <2>1, <3>1 DEF LibChangesPassword, Entry
      <4>2. /\ store' \in SUBSET KeyFile /\ minted' \in Nat
            /\ NextEntry(Current.pub) \in Entry
            /\ NextEntry(Current.pub).pub = Current.pub
            /\ NextEntry(Current.pub) # NoEntry
        BY <1>1, <3>3, <4>1, MintProperties
      <4>3. Current' = Current
        BY <1>1, <3>3, <4>2, ChangerHearsKeyProperties DEF Current
      <4>. QED
        BY <1>1, <2>1, <3>3, <4>2, <4>3, ChangerHearsKeyProperties
        DEF LibChangesPassword, VaultTypeOK
    <3>. QED
      BY <2>1, <3>2, <3>3 DEF LibChangesPassword
  <2>2. CASE DbSavesNewSecrets
    <3>1. PICK answer \in {"ok", "error"} :
            /\ SaveWalletList(changer.fresh, answer)
            /\ changer' = ChangerHears(answer)
      BY <2>2 DEF DbSavesNewSecrets
    <3>2. db' \in Seq(Entry)
      BY <1>1, <3>1 DEF SaveWalletList, VaultTypeOK
    <3>. QED
      BY <1>1, <2>2, <3>1, <3>2, ChangerHearsProperties
      DEF DbSavesNewSecrets, VaultTypeOK, Answers
  <2>3. CASE LibDeletesVictim
    BY <1>1, <2>3, ChangerHearsProperties, DeletePublicKeyProperties
    DEF LibDeletesVictim, VaultTypeOK, Answers
  <2>4. CASE SavedNext
    <3>1. PICK phase \in {"changing", "saving"} :
            /\ changer' = Collect(phase)
            /\ phase = "changing" <=>
                  Len(changer.fresh) + 1 < Len(changer.entries)
      BY <2>4 DEF SavedNext
    <3>2. changer.got # NoEntry /\ changer.got \in Entry
      BY <1>1, <2>4 DEF SavedNext, ChangerType
    <3>3. /\ Len(Append(changer.fresh, changer.got)) = Len(changer.fresh) + 1
          /\ \A i \in 1..Len(changer.fresh) :
                Append(changer.fresh, changer.got)[i] = changer.fresh[i]
          /\ Append(changer.fresh, changer.got)[Len(changer.fresh) + 1] = changer.got
      BY <1>1, <3>2, AppendProperties
    <3>4. /\ changer' \in ChangerType
          /\ changer'.phase = phase /\ changer'.answer = "pending"
          /\ changer'.new = changer.new /\ changer'.entries = changer.entries
          /\ changer'.fresh = Append(changer.fresh, changer.got)
          /\ changer'.victim = changer.victim /\ changer'.got = NoEntry
      BY <1>1, <3>1, <3>2, CollectProperties DEF ChangerPhases
    <3>5. \A i \in DOMAIN changer'.fresh : changer'.fresh[i].pub = list[i].pub
      <4>1. ASSUME NEW i \in DOMAIN changer'.fresh
            PROVE  i \in 1..(Len(changer.fresh) + 1)
        BY <3>3, <3>4, LenProperties DEF ChangerType
      <4>2. changer.got.pub = list[Len(changer.fresh) + 1].pub
        BY <1>1, <2>4, <3>2 DEF SavedNext, Current
      <4>3. DOMAIN changer.fresh = 1..Len(changer.fresh)
        BY <1>1, LenProperties
      <4>. QED
        BY <1>1, <3>3, <3>4, <4>1, <4>2, <4>3
    <3>6. ChangerTypeOK'
      BY <1>1, <2>4, <3>1, <3>3, <3>4 DEF SavedNext
    <3>. QED
      BY <1>1, <2>4, <3>1, <3>4, <3>5, <3>6 DEF SavedNext, VaultTypeOK
  <2>5. CASE Rollback
    <3>1. CASE changer.fresh = <<>>
      BY <1>1, <2>5, <3>1, NoChangerProperties DEF Rollback, VaultTypeOK
    <3>2. CASE changer.fresh # <<>>
      <4>1. /\ changer' \in ChangerType
            /\ changer'.phase = "rollback" /\ changer'.answer = "pending"
            /\ changer'.new = changer.new /\ changer'.entries = changer.entries
            /\ changer'.fresh = Front(changer.fresh)
            /\ changer'.victim = Last(changer.fresh) /\ changer'.got = changer.got
        BY <1>1, <2>5, <3>2, UndoLastProperties DEF Rollback
      <4>2. /\ Front(changer.fresh) \in Seq(Entry)
            /\ Len(Front(changer.fresh)) = Len(changer.fresh) - 1
            /\ \A i \in 1..(Len(changer.fresh) - 1) :
                  Front(changer.fresh)[i] = changer.fresh[i]
            /\ Last(changer.fresh) \in Entry
        BY <1>1, <3>2, FrontLastProperties
      <4>3. \A i \in DOMAIN changer'.fresh : changer'.fresh[i].pub = list[i].pub
        <5>1. /\ DOMAIN changer'.fresh = 1..(Len(changer.fresh) - 1)
              /\ DOMAIN changer.fresh = 1..Len(changer.fresh)
          BY <1>1, <4>1, <4>2, LenProperties
        <5>. QED
          BY <1>1, <4>1, <4>2, <5>1
      <4>4. changer.got = NoEntry
        BY <1>1, <2>5 DEF Rollback
      <4>5. changer.entries = list /\ Len(changer.fresh) <= Len(changer.entries)
        BY <1>1, <2>5 DEF Rollback
      <4>6. ChangerTypeOK'
        BY <1>1, <4>1, <4>2, <4>4, <4>5, <2>5 DEF Rollback
      <4>. QED
        BY <1>1, <2>5, <4>1, <4>3, <4>4, <4>5, <4>6 DEF Rollback, VaultTypeOK
    <3>. QED
      BY <3>1, <3>2
  <2>6. CASE Rollforward
    <3>1. Len(changer.fresh) = Len(list)
      BY <1>1, <2>6 DEF Rollforward
    <3>2. CASE changer.entries = <<>>
      <4>1. list' \in Seq(Entry)
        BY <1>1, <2>6, <3>1, <3>2, NewSecretsProperties DEF Rollforward
      <4>. QED
        BY <1>1, <2>6, <3>2, <4>1, NoChangerProperties DEF Rollforward, VaultTypeOK
    <3>3. CASE changer.entries # <<>>
      <4>1. /\ changer' \in ChangerType
            /\ changer'.phase = "rollforward" /\ changer'.answer = "pending"
            /\ changer'.new = changer.new
            /\ changer'.entries = Front(changer.entries)
            /\ changer'.fresh = changer.fresh
            /\ changer'.victim = Last(changer.entries) /\ changer'.got = changer.got
        BY <1>1, <2>6, <3>3, DropLastOldProperties DEF Rollforward
      <4>2. /\ Len(Front(changer.entries)) = Len(changer.entries) - 1
            /\ Last(changer.entries) \in Entry
        BY <1>1, <3>3, FrontLastProperties
      <4>3. changer.got = NoEntry /\ Len(changer.fresh) >= Len(changer.entries)
        BY <1>1, <2>6 DEF Rollforward
      <4>4. ChangerTypeOK'
        BY <1>1, <4>1, <4>2, <4>3, <2>6 DEF Rollforward
      <4>. QED
        BY <1>1, <2>6, <3>1, <3>3, <4>1, <4>3, <4>4 DEF Rollforward, VaultTypeOK
    <3>. QED
      BY <3>2, <3>3
  <2>. QED
    BY <2>1, <2>2, <2>3, <2>4, <2>5, <2>6
    DEF ChangerStep, ChangerServed, ChangerHandles
<1>. QED
  BY <1>2, ChangerFrame DEF ChangerStep

\* The initial state.
LEMMA InitWellFormed == Init => WellFormed
<1> SUFFICES ASSUME Init PROVE WellFormed
  OBVIOUS
<1>1. /\ creator = NoCreator /\ destroyer = NoDestroyer /\ changer = NoChanger
      /\ opened = TRUE /\ VaultTypeOK
  BY EmptySeq DEF Init, VaultInit, CreatorInit, DestroyerInit, ChangerInit, VaultTypeOK
<1>2. CreatorTypeOK /\ DestroyerTypeOK /\ ChangerTypeOK
  BY <1>1, NoCreatorProperties, NoDestroyerProperties, NoChangerProperties
  DEF CreatorTypeOK, DestroyerTypeOK, ChangerTypeOK, OwningPhases
<1>3. Exclusive /\ Captured
  BY <1>1, NoCreatorProperties, NoDestroyerProperties, NoChangerProperties
  DEF Exclusive, Captured, CapturedByChanger
<1>. QED
  BY <1>1, <1>2, <1>3 DEF WellFormed, TypeOK

\* What the user asks for, a crash and the next start.
LEMMA UserWellFormed ==
    ASSUME WellFormed, User
    PROVE  WellFormed'
<1> USE NoEntryAssumption DEF vaultVars
<1>1. VaultTypeOK /\ CreatorTypeOK /\ DestroyerTypeOK /\ ChangerTypeOK
  BY DEF WellFormed, TypeOK
<1>2. CASE CreateKey \/ ImportKey
  <2>1. PICK phase \in {"creating", "importing"} : StartCreator(phase)
    BY <1>2 DEF CreateKey, ImportKey
  <2>2. /\ creator' \in CreatorType
        /\ creator'.phase = phase /\ creator'.answer = "pending"
        /\ creator'.own = NoEntry /\ creator'.got = NoEntry
    BY <2>1, EmptySeq
    DEF StartCreator, NoCreator, CreatorType, CreatorPhases, Answers
  <2>3. CreatorTypeOK'
    BY <2>2 DEF CreatorTypeOK, OwningPhases
  <2>4. /\ opened /\ destroyer = NoDestroyer /\ changer = NoChanger
        /\ UNCHANGED <<vaultVars, destroyer, changer, opened>>
    BY <1>1, <1>2 DEF CreateKey, ImportKey, Idle, DestroyerTypeOK, ChangerTypeOK
  <2>5. TypeOK'
    BY <1>1, <2>3, <2>4
    DEF WellFormed, TypeOK, VaultTypeOK, DestroyerTypeOK, ChangerTypeOK
  <2>6. Exclusive' /\ Captured'
    BY <2>2, <2>4, NoChangerProperties, NoDestroyerProperties
    DEF WellFormed, Exclusive, Captured, CapturedByChanger
  <2>. QED
    BY <2>5, <2>6 DEF WellFormed
<1>3. ASSUME NEW p \in Passwords, SaveKey(p)
      PROVE  WellFormed'
  <2>1. /\ creator' \in CreatorType
        /\ creator'.phase \in {"rekeying", "saving"}
        /\ creator'.answer = "pending" /\ creator'.base = list
        /\ creator'.own = creator.own /\ creator'.pw = creator.pw
        /\ creator'.got = creator.got
        /\ creator'.phase = "rekeying" =>
              creator'.target = p /\ creator.pw # p
        /\ creator'.phase = "saving" => creator.pw = p
    <3>1. creator \in CreatorType /\ list \in Seq(Entry)
      BY <1>1 DEF CreatorTypeOK, VaultTypeOK
    <3>2. CASE creator.pw = p
      BY <1>3, <3>1, <3>2
      DEF SaveKey, Save, Ask, CreatorType, CreatorPhases, Answers
    <3>3. CASE creator.pw # p
      BY <1>3, <3>1, <3>3
      DEF SaveKey, Save, Ask, CreatorType, CreatorPhases, Answers
    <3>. QED
      BY <3>2, <3>3
  <2>2. creator.phase = "created" /\ creator.answer = "none"
    BY <1>1, <1>3 DEF SaveKey, Save, CreatorTypeOK
  <2>3. CreatorTypeOK'
    BY <1>1, <1>3, <2>1, <2>2 DEF CreatorTypeOK, OwningPhases
  <2>4. VaultTypeOK'
    BY <1>1, <1>3 DEF SaveKey, VaultTypeOK
  <2>. QED
    BY <1>3, <2>1, <2>2, <2>3, <2>4, CreatorFrame DEF SaveKey
<1>4. CASE DeleteAllKeys \/ \E k \in Keys : DeleteKey(k)
  <2>1. PICK index \in {0} \cup DOMAIN list : StartDestroyer(index)
    BY <1>4 DEF DeleteAllKeys, DeleteKey
  <2>2. /\ destroyer' \in DestroyerType
        /\ destroyer'.phase = "deleting" /\ destroyer'.answer = "pending"
        /\ destroyer'.index = index /\ destroyer'.base = list
    BY <1>1, <2>1, LenProperties
    DEF StartDestroyer, DestroyerType, Answers, VaultTypeOK
  <2>3. DestroyerTypeOK'
    BY <2>1, <2>2 DEF DestroyerTypeOK
  <2>4. /\ opened /\ creator = NoCreator /\ changer = NoChanger
        /\ UNCHANGED <<store, minted, db, list, leaked, creator, changer, opened>>
    BY <1>1, <1>4
    DEF DeleteAllKeys, DeleteKey, Idle, CreatorTypeOK, ChangerTypeOK
  <2>5. doomed' \in SUBSET Entry
    <3>1. ToSet(list) \subseteq Entry
      BY <1>1, LenProperties, ElementOfSeq DEF ToSet, VaultTypeOK
    <3>2. index # 0 => list[index] \in ToSet(list)
      BY DEF ToSet
    <3>. QED
      BY <1>1, <2>1, <3>1, <3>2 DEF StartDestroyer, VaultTypeOK
  <2>6. TypeOK'
    BY <1>1, <2>3, <2>4, <2>5
    DEF WellFormed, TypeOK, VaultTypeOK, CreatorTypeOK, ChangerTypeOK
  <2>7. Exclusive' /\ Captured'
    BY <2>2, <2>4, NoChangerProperties, NoCreatorProperties
    DEF WellFormed, Exclusive, Captured, CapturedByChanger
  <2>. QED
    BY <2>6, <2>7 DEF WellFormed
<1>5. ASSUME NEW old \in Passwords, NEW new \in Passwords, ChangePassword(old, new)
      PROVE  WellFormed'
  <2>1. /\ changer' \in ChangerType
        /\ changer'.phase = "changing" /\ changer'.answer = "pending"
        /\ changer'.new = new /\ changer'.entries = list
        /\ changer'.fresh = <<>> /\ changer'.victim = NoEntry
        /\ changer'.got = NoEntry
    BY <1>1, <1>5, EmptySeq
    DEF ChangePassword, StartChanger, NoChanger, ChangerType, ChangerPhases,
        Answers, VaultTypeOK
  <2>2. Len(changer'.fresh) < Len(changer'.entries)
    BY <1>1, <1>5, <2>1, EmptySeq DEF ChangePassword, VaultTypeOK
  <2>3. ChangerTypeOK'
    BY <2>1, <2>2 DEF ChangerTypeOK
  <2>4. /\ opened /\ creator = NoCreator /\ destroyer = NoDestroyer
        /\ UNCHANGED <<vaultVars, creator, destroyer, opened>>
    BY <1>1, <1>5 DEF ChangePassword, Idle, CreatorTypeOK, DestroyerTypeOK
  <2>5. TypeOK'
    BY <1>1, <2>3, <2>4
    DEF WellFormed, TypeOK, VaultTypeOK, CreatorTypeOK, DestroyerTypeOK
  <2>6. Exclusive' /\ Captured'
    BY <2>1, <2>4, NoCreatorProperties, NoDestroyerProperties
    DEF WellFormed, Exclusive, Captured, CapturedByChanger
  <2>. QED
    BY <2>5, <2>6 DEF WellFormed
<1>. QED
  BY <1>2, <1>3, <1>4, <1>5 DEF User

\* A crash leaves a closed wallet with no operation under way.
LEMMA CrashWellFormed ==
    ASSUME WellFormed, Crash
    PROVE  WellFormed'
<1>1. /\ creator' = NoCreator /\ destroyer' = NoDestroyer
      /\ changer' = NoChanger /\ list' = <<>> /\ opened' = FALSE
  BY DEF Crash
<1>2. Idle'
  BY <1>1, NoCreatorProperties, NoDestroyerProperties, NoChangerProperties DEF Idle
<1>3. VaultTypeOK'
  <2>1. leaked' \in BOOLEAN
    BY DEF Crash
  <2>. QED
    BY <1>1, <2>1, EmptySeq DEF WellFormed, TypeOK, VaultTypeOK, Crash
<1>4. CreatorTypeOK' /\ DestroyerTypeOK' /\ ChangerTypeOK'
  BY <1>1, NoCreatorProperties, NoDestroyerProperties, NoChangerProperties
  DEF CreatorTypeOK, DestroyerTypeOK, ChangerTypeOK, OwningPhases
<1>5. Exclusive' /\ Captured'
  BY <1>1, <1>2, NoCreatorProperties, NoDestroyerProperties, NoChangerProperties
  DEF Exclusive, Idle, Captured, CapturedByChanger
<1>. QED
  BY <1>1, <1>3, <1>4, <1>5 DEF WellFormed, TypeOK

\* Opening the wallet reads a list of entries and starts no operation.
LEMMA OpenWellFormed ==
    ASSUME WellFormed, Open
    PROVE  WellFormed'
<1>1. /\ creator = NoCreator /\ destroyer = NoDestroyer /\ changer = NoChanger
      /\ UNCHANGED <<creator, destroyer, changer>>
      /\ list' = db /\ opened' = TRUE
  BY DEF WellFormed, TypeOK, CreatorTypeOK, DestroyerTypeOK, ChangerTypeOK,
         Exclusive, Idle, Open
<1>2. TypeOK'
  BY <1>1 DEF WellFormed, TypeOK, VaultTypeOK, CreatorTypeOK, DestroyerTypeOK,
              ChangerTypeOK, Open
<1>3. Exclusive' /\ Captured'
  BY <1>1, NoCreatorProperties, NoDestroyerProperties, NoChangerProperties
  DEF WellFormed, Exclusive, Captured, CapturedByChanger
<1>. QED
  BY <1>2, <1>3 DEF WellFormed

\* WellFormed is inductive: every step of the wallet, or none, keeps it.
LEMMA NextWellFormed == WellFormed /\ [Next]_vars => WellFormed'
<1> SUFFICES ASSUME WellFormed, [Next]_vars
             PROVE  WellFormed'
  OBVIOUS
<1>1. CASE Next
  BY <1>1, UserWellFormed, CreatorStepWellFormed, DestroyerStepWellFormed,
     ChangerStepWellFormed, CrashWellFormed, OpenWellFormed DEF Next
<1>2. CASE UNCHANGED vars
  BY <1>2
  DEF vars, vaultVars, WellFormed, TypeOK, VaultTypeOK, CreatorTypeOK,
      DestroyerTypeOK, ChangerTypeOK, CreatorType, DestroyerType, ChangerType,
      Exclusive, Idle, Captured, CapturedByChanger, Current
<1>. QED
  BY <1>1, <1>2

\* Every reachable state has the types of TypeOK: one operation at a time,
\* the lists it captured still those of the wallet, and no phase of a
\* component without the data its handlers use.
THEOREM TypeCorrect == Spec => []TypeOK
<1>1. Spec => []WellFormed
  BY InitWellFormed, NextWellFormed, PTL DEF Spec
<1>2. WellFormed => TypeOK
  BY DEF WellFormed
<1>. QED
  BY <1>1, <1>2, PTL

-----------------------------------------------------------------------------
\* What tonlib's steps do to the key files.

\* A new file opens, and the old ones still do.
LEMMA MintKeeps ==
    ASSUME NEW k, NEW p, Mint(k, p), minted \in Nat
    PROVE  /\ \A f \in store : f \in store'
           /\ File(NextEntry(k), p) \in store'
           /\ minted' = minted + 1
           /\ NextEntry(k).secret = minted
  BY DEF Mint, NextEntry

\* A deletion takes the file it names and no other.
LEMMA DeleteKeeps ==
    ASSUME NEW v \in Entry, DeletePublicKey(v)
    PROVE  \A e \in Entry : \A q : e # v /\ File(e, q) \in store => File(e, q) \in store'
<1> SUFFICES ASSUME NEW e \in Entry, NEW q, e # v, File(e, q) \in store
             PROVE  File(e, q) \in store'
  OBVIOUS
<1>1. e.pub # v.pub \/ e.secret # v.secret
  BY DEF Entry
<1>2. File(e, q).pub = e.pub /\ File(e, q).secret = e.secret
  BY DEF File
<1>. QED
  BY <1>1, <1>2 DEF DeletePublicKey

-----------------------------------------------------------------------------
\* KeyCreator.

\* What CustodyInv says while a creator is at work.
CreatorCustody ==
    /\ IF CreatorSaved THEN db = Append(list, creator.own) ELSE db = list
    /\ \A i \in DOMAIN db : Past(db[i])
    /\ Past(creator.own) /\ Past(creator.got)
    /\ CreatorHoldsKey
    /\ \A i \in DOMAIN db : Usable(db[i]) \/ db[i] \in doomed

\* With a creator at work CustodyInv follows from CreatorCustody.
LEMMA CreatorCustodyFrame ==
    ASSUME WellFormed, CustodyInv, creator.phase # "none",
           UNCHANGED <<destroyer, changer, opened>>,
           WellFormed', CreatorCustody'
    PROVE  CustodyInv'
<1>1. destroyer = NoDestroyer /\ changer = NoChanger /\ opened
  BY DEF WellFormed, TypeOK, DestroyerTypeOK, ChangerTypeOK, Exclusive, Idle
<1>2. /\ ~ DestroyerSaved' /\ ~ ChangerSaved'
      /\ DOMAIN changer'.fresh = {} /\ DOMAIN changer'.entries = {}
      /\ changer'.got = NoEntry /\ changer'.phase = "none"
      /\ destroyer'.phase = "none"
  BY <1>1, NoDestroyerProperties, NoChangerProperties
  DEF DestroyerSaved, ChangerSaved
<1>3. DiskAgrees'
  BY <1>2 DEF CreatorCustody, DiskAgrees
<1>4. \A i \in DOMAIN list' : i \in DOMAIN db' /\ list'[i] = db'[i]
  <2>1. CASE CreatorSaved'
    <3>1. list' \in Seq(Entry) /\ creator'.own \in Entry
      BY <2>1 DEF WellFormed, TypeOK, VaultTypeOK, CreatorTypeOK, CreatorType,
                  CreatorSaved, Answered, OwningPhases
    <3>2. /\ db' = Append(list', creator'.own) /\ db' \in Seq(Entry)
          /\ DOMAIN list' = 1..Len(list') /\ DOMAIN db' = 1..(Len(list') + 1)
          /\ Len(list') \in Nat
          /\ \A i \in 1..Len(list') : db'[i] = list'[i]
      BY <2>1, <3>1, AppendProperties, LenProperties DEF CreatorCustody
    <3>. QED
      BY <3>2
  <2>2. CASE ~ CreatorSaved'
    BY <2>2 DEF CreatorCustody
  <2>. QED
    BY <2>1, <2>2
<1>5. AllPast' /\ PersistedKeysUsable' /\ ListedKeysUsable'
  <2>1. AllPast'
    BY <1>2, <1>4 DEF CreatorCustody, AllPast, Past
  <2>2. PersistedKeysUsable' /\ ListedKeysUsable'
    BY <1>2, <1>4
    DEF CreatorCustody, PersistedKeysUsable, ListedKeysUsable, Usable
  <2>. QED
    BY <2>1, <2>2
<1>6. DestroyerHasLeave' /\ ChangerHoldsKeys'
  BY <1>2 DEF DestroyerHasLeave, ChangerHoldsKeys
<1>. QED
  BY <1>3, <1>5, <1>6 DEF CustodyInv, WellFormed, CreatorCustody

\* Every step of KeyCreator keeps the keys of the disk and its own.
LEMMA CreatorStepKeepsKey ==
    ASSUME WellFormed, CreatorCustody, CreatorStep
    PROVE  CreatorCustody'
<1> USE NoEntryAssumption, LocalPasswordAssumption
    DEF OwningPhases, CreatorPhases, Waiting, Answered, vaultVars
<1>1. /\ CreatorTypeOK /\ creator \in CreatorType
      /\ VaultTypeOK /\ minted \in Nat /\ db \in Seq(Entry) /\ list \in Seq(Entry)
  BY DEF WellFormed, TypeOK, CreatorTypeOK, VaultTypeOK
<1>2. \A i \in DOMAIN db : /\ db[i] \in Entry /\ db[i] # NoEntry
                             /\ db[i].secret \in Nat /\ db[i].secret < minted
  <2>1. \A e \in Entry : e.secret \in Nat
    BY DEF Entry
  <2>. QED
    BY <1>1, <2>1, ElementOfSeq, LenProperties DEF CreatorCustody, Past
<1> USE DEF CreatorCustody, CreatorSaved, CreatorHoldsKey, Opens, Usable, Past
<1>3. CASE LibMintsKey
  <2>1. CASE creator' = CreatorHears("error") /\ UNCHANGED <<store, minted>>
    BY <1>1, <1>3, <2>1, CreatorHearsProperties
    DEF LibMintsKey, CreatorTypeOK, Answers
  <2>2. ASSUME NEW k \in Keys, Mint(k, creator.pw),
               creator' = CreatorHearsKey(NextEntry(k))
        PROVE  CreatorCustody'
    <3>1. /\ NextEntry(k) \in Entry /\ NextEntry(k).secret = minted
          /\ NextEntry(k) # NoEntry
      BY <1>1, <2>2, MintProperties DEF CreatorType
    <3>2. \A i \in DOMAIN db : db[i] # NextEntry(k)
      BY <1>1, <1>2, <3>1
    <3>3. /\ minted' = minted + 1 /\ \A f \in store : f \in store'
          /\ File(NextEntry(k), creator.pw) \in store'
      BY <1>1, <2>2, MintKeeps
    <3>4. /\ creator'.phase = creator.phase /\ creator'.own = NoEntry
          /\ creator'.got = NextEntry(k) /\ creator'.pw = creator.pw
          /\ creator.phase \in {"creating", "importing"} /\ creator.own = NoEntry
          /\ UNCHANGED <<db, list, doomed>>
      BY <1>1, <1>3, <2>2, <3>1, CreatorHearsKeyProperties
      DEF LibMintsKey, CreatorTypeOK
    <3>5. \A i \in DOMAIN db' : Usable(db[i])' \/ db'[i] \in doomed'
      BY <3>3, <3>4
    <3>6. CreatorHoldsKey'
      BY <1>1, <3>1, <3>2, <3>3, <3>4
    <3>7. \A i \in DOMAIN db' : Past(db[i])'
      BY <1>1, <1>2, <3>3, <3>4
    <3>. QED
      BY <1>1, <3>1, <3>3, <3>4, <3>5, <3>6, <3>7
  <2>. QED
    BY <1>3, <2>1, <2>2 DEF LibMintsKey
<1>4. CASE LibExportsKey
  BY <1>1, <1>4, CreatorHearsProperties DEF LibExportsKey, Answers
<1>5. CASE LibDropsKey
  <2>1. /\ creator.own \in Entry /\ \A i \in DOMAIN db : db[i] # creator.own
        /\ creator.phase \in {"discarding", "dropping"}
    BY <1>1, <1>5 DEF LibDropsKey, CreatorTypeOK, CreatorType
  <2>2. \A e \in Entry : \A q : e # creator.own /\ File(e, q) \in store => File(e, q) \in store'
    BY <1>5, <2>1, DeleteKeeps DEF LibDropsKey
  <2>3. /\ creator'.phase = creator.phase /\ creator'.own = creator.own
        /\ creator'.got = creator.got /\ creator'.target = creator.target
        /\ UNCHANGED <<db, list, doomed, minted>>
    BY <1>1, <1>5, CreatorHearsProperties DEF LibDropsKey, Answers
  <2>4. creator.got \in Entry \cup {NoEntry}
    BY <1>1 DEF CreatorType
  <2>. QED
    BY <1>1, <1>2, <2>1, <2>2, <2>3, <2>4
<1>6. CASE LibRekeys
  <2>1. CASE creator' = CreatorHears("error") /\ UNCHANGED <<store, minted>>
    BY <1>1, <1>6, <2>1, CreatorHearsProperties
    DEF LibRekeys, CreatorTypeOK, Answers
  <2>2. CASE /\ Mint(creator.own.pub, creator.target)
             /\ creator' = CreatorHearsKey(NextEntry(creator.own.pub))
    <3> DEFINE k == creator.own.pub
    <3>0. /\ creator.phase = "rekeying" /\ creator.own \in Entry
          /\ k \in Keys /\ creator.target \in Passwords \cup {LocalPassword}
      BY <1>1, <1>6 DEF LibRekeys, CreatorTypeOK, CreatorType, Entry
    <3>1. /\ NextEntry(k) \in Entry /\ NextEntry(k).secret = minted
          /\ NextEntry(k) # NoEntry
      BY <1>1, <2>2, <3>0, MintProperties
    <3>2. \A i \in DOMAIN db : db[i] # NextEntry(k)
      BY <1>1, <1>2, <3>1
    <3>3. /\ minted' = minted + 1 /\ \A f \in store : f \in store'
          /\ File(NextEntry(k), creator.target) \in store'
      BY <1>1, <2>2, MintKeeps
    <3>4. /\ creator'.phase = "rekeying" /\ creator'.own = creator.own
          /\ creator'.got = NextEntry(k) /\ creator'.pw = creator.pw
          /\ creator'.target = creator.target
          /\ UNCHANGED <<db, list, doomed>>
      BY <1>1, <1>6, <2>2, <3>0, <3>1, CreatorHearsKeyProperties
      DEF LibRekeys, CreatorTypeOK
    <3>5. /\ creator.own.secret < minted /\ creator.own # NextEntry(k)
          /\ creator.own.secret \in Nat
      BY <1>1, <3>0, <3>1 DEF Entry
    <3> HIDE DEF k
    <3>6. \A i \in DOMAIN db' : Usable(db[i])' \/ db'[i] \in doomed'
      BY <3>3, <3>4
    <3>7. CreatorHoldsKey'
      BY <1>1, <3>0, <3>1, <3>2, <3>3, <3>4, <3>5
    <3>8. \A i \in DOMAIN db' : Past(db[i])'
      BY <1>1, <1>2, <3>3, <3>4
    <3>. QED
      BY <1>1, <3>0, <3>1, <3>3, <3>4, <3>5, <3>6, <3>7, <3>8
  <2>. QED
    BY <1>6, <2>1, <2>2 DEF LibRekeys
<1>7. CASE DbSavesNewKey
  <2>1. PICK answer \in {"ok", "error"} :
          /\ SaveWalletList(Append(creator.base, creator.own), answer)
          /\ creator' = CreatorHears(answer)
    BY <1>7 DEF DbSavesNewKey
  <2>2. /\ creator.phase = "saving" /\ creator.base = list
        /\ creator.answer = "pending"
        /\ creator.own \in Entry /\ creator.own.secret < minted
        /\ creator.own # NoEntry
        /\ creator.pw \in Passwords /\ File(creator.own, creator.pw) \in store
    BY <1>1, <1>7
    DEF DbSavesNewKey, WellFormed, Captured, CreatorTypeOK, CreatorType
  <2>3. /\ creator'.phase = "saving" /\ creator'.own = creator.own
        /\ creator'.pw = creator.pw /\ creator'.got = creator.got
        /\ creator'.answer = answer
        /\ UNCHANGED <<store, minted, list, doomed>>
    BY <1>1, <1>7, <2>1, <2>2, CreatorHearsProperties DEF DbSavesNewKey, Answers
  <2>4. CASE answer = "error"
    BY <1>1, <1>2, <2>1, <2>2, <2>3, <2>4 DEF SaveWalletList
  <2>5. CASE answer = "ok"
    <3>0. db = list
      BY <2>2
    <3>1. db' = Append(list, creator.own)
      BY <2>1, <2>2, <2>5 DEF SaveWalletList
    <3>2. /\ DOMAIN db' = 1..(Len(list) + 1) /\ DOMAIN list = 1..Len(list)
          /\ Len(list) \in Nat
          /\ \A i \in 1..Len(list) : db'[i] = list[i]
          /\ db'[Len(list) + 1] = creator.own
      BY <1>1, <2>2, <3>1, AppendProperties, LenProperties
    <3>3. \A i \in DOMAIN db' : (db'[i] = creator.own) \/ (i \in DOMAIN db /\ db'[i] = db[i])
      <4>1. \A n \in Nat : \A i \in 1..(n + 1) : i = n + 1 \/ i \in 1..n
        OBVIOUS
      <4>. QED
        BY <3>0, <3>2, <4>1, Zenon
    <3>. QED
      BY <1>1, <1>2, <2>2, <2>3, <2>5, <3>1, <3>3
  <2>. QED
    BY <2>4, <2>5
<1>8. CASE OnKeyCreated
  <2>1. /\ creator'.phase = "exporting" /\ creator'.own = creator.got
        /\ creator'.pw = creator.pw /\ creator'.got = NoEntry
        /\ creator.got # NoEntry /\ creator.phase = "creating"
        /\ UNCHANGED <<store, minted, db, list, doomed>>
    BY <1>1, <1>8 DEF OnKeyCreated, Ask, CreatorType, CreatorTypeOK
  <2>. QED
    BY <1>1, <2>1
<1>9. CASE OnKeyImported
  <2>1. /\ creator'.phase = "created" /\ creator'.own = creator.got
        /\ creator'.pw = creator.pw /\ creator'.got = NoEntry
        /\ creator.got # NoEntry /\ creator.phase = "importing"
        /\ UNCHANGED <<store, minted, db, list, doomed>>
    BY <1>1, <1>9 DEF OnKeyImported, Rest, CreatorType, CreatorTypeOK
  <2>. QED
    BY <1>1, <2>1
<1>10. CASE OnKeyFailed \/ OnDiscarded
  BY <1>1, <1>10, NoCreatorProperties DEF OnKeyFailed, OnDiscarded
<1>11. CASE OnWordsExported
  BY <1>1, <1>11, AskProperties, RestProperties DEF OnWordsExported, CreatorTypeOK
<1>12. CASE OnRekeyed
  BY <1>1, <1>12, AskProperties, RestProperties DEF OnRekeyed, CreatorTypeOK
<1>13. CASE OnOldDropped
  <2>1. /\ creator'.phase = "saving" /\ creator'.own = creator.got
        /\ creator'.pw = creator.target /\ creator'.got = NoEntry
        /\ creator'.answer = "pending"
        /\ creator.got # NoEntry /\ creator.phase = "dropping"
        /\ UNCHANGED <<store, minted, db, list, doomed>>
    BY <1>1, <1>13 DEF OnOldDropped, Ask, CreatorType, CreatorTypeOK
  <2>. QED
    BY <1>1, <2>1
<1>14. CASE OnNewKeySaved
  <2>1. CASE creator.answer = "ok"
    BY <1>1, <1>14, <2>1, NoCreatorProperties DEF OnNewKeySaved
  <2>2. CASE creator.answer = "error"
    BY <1>1, <1>14, <2>2, RestProperties DEF OnNewKeySaved, CreatorTypeOK
  <2>. QED
    BY <1>14, <2>1, <2>2 DEF OnNewKeySaved
<1>. QED
  BY <1>3, <1>4, <1>5, <1>6, <1>7, <1>8, <1>9, <1>10, <1>11, <1>12, <1>13,
     <1>14 DEF CreatorStep, CreatorServed, CreatorHandles

\* A step of KeyCreator keeps CustodyInv.
LEMMA CreatorStepCustody ==
    ASSUME WellFormed, CustodyInv, CreatorStep
    PROVE  CustodyInv'
<1>1. creator.phase # "none"
  BY DEF CreatorStep, CreatorServed, CreatorHandles, LibMintsKey,
         LibExportsKey, LibDropsKey, LibRekeys, DbSavesNewKey, OnKeyCreated,
         OnKeyImported, OnKeyFailed, OnWordsExported, OnDiscarded, OnRekeyed,
         OnOldDropped, OnNewKeySaved, Waiting, Answered
<1>2. opened /\ ~ DestroyerSaved /\ ~ ChangerSaved
  BY <1>1 DEF WellFormed, Exclusive, Idle, DestroyerSaved, ChangerSaved
<1>3. CreatorCustody
  BY <1>2
  DEF CustodyInv, DiskAgrees, AllPast, PersistedKeysUsable, CreatorCustody
<1>. QED
  BY <1>1, <1>3, CreatorStepKeepsKey, CreatorStepWellFormed,
     CreatorCustodyFrame DEF CreatorStep

-----------------------------------------------------------------------------
\* KeyDestroyer.

DestroyerCustody ==
    /\ IF DestroyerSaved THEN db = Spared(list) ELSE db = list
    /\ \A i \in DOMAIN list : Past(list[i])
    /\ DestroyerHasLeave
    /\ \A i \in DOMAIN list : Usable(list[i]) \/ list[i] \in doomed

\* With a destroyer at work CustodyInv follows from DestroyerCustody.
LEMMA DestroyerCustodyFrame ==
    ASSUME WellFormed, CustodyInv, destroyer.phase # "none",
           UNCHANGED <<creator, changer, opened>>,
           WellFormed', DestroyerCustody'
    PROVE  CustodyInv'
<1>1. creator = NoCreator /\ changer = NoChanger /\ opened
  BY DEF WellFormed, TypeOK, CreatorTypeOK, ChangerTypeOK, Exclusive, Idle
<1>2. /\ ~ CreatorSaved' /\ ~ ChangerSaved'
      /\ DOMAIN changer'.fresh = {} /\ DOMAIN changer'.entries = {}
      /\ changer'.got = NoEntry /\ changer'.phase = "none"
      /\ creator'.phase = "none" /\ creator'.own = NoEntry
      /\ creator'.got = NoEntry
  BY <1>1, NoCreatorProperties, NoChangerProperties
  DEF CreatorSaved, ChangerSaved, Answered
<1>3. DiskAgrees'
  BY <1>2 DEF DestroyerCustody, DiskAgrees
<1>4. \A j \in DOMAIN db' : \E i \in DOMAIN list' : db'[j] = list'[i]
  <2>1. CASE DestroyerSaved'
    <3>1. list' \in Seq(Entry) /\ destroyer'.index \in {0} \cup DOMAIN list'
      BY <2>1 DEF WellFormed, TypeOK, VaultTypeOK, DestroyerTypeOK,
                  DestroyerSaved, Captured
    <3>2. \A j \in DOMAIN Spared(list)' :
             \E i \in DOMAIN list' : Spared(list)'[j] = list'[i]
      BY <3>1, WithoutProperties DEF Spared
    <3>. QED
      BY <2>1, <3>2 DEF DestroyerCustody
  <2>2. CASE ~ DestroyerSaved'
    BY <2>2 DEF DestroyerCustody
  <2>. QED
    BY <2>1, <2>2
<1>5. AllPast' /\ PersistedKeysUsable' /\ ListedKeysUsable'
  <2>1. AllPast'
    BY <1>2, <1>4 DEF DestroyerCustody, AllPast, Past
  <2>2. PersistedKeysUsable' /\ ListedKeysUsable'
    BY <1>2, <1>4 DEF DestroyerCustody, PersistedKeysUsable, ListedKeysUsable, Usable
  <2>. QED
    BY <2>1, <2>2
<1>6. CreatorHoldsKey' /\ ChangerHoldsKeys'
  BY <1>2 DEF CreatorHoldsKey, OwningPhases, ChangerHoldsKeys
<1>. QED
  BY <1>3, <1>5, <1>6 DEF CustodyInv, WellFormed, DestroyerCustody

\* Every step of KeyDestroyer keeps the keys the user did not condemn.
LEMMA DestroyerStepKeepsKeys ==
    ASSUME WellFormed, DestroyerCustody, DestroyerStep
    PROVE  DestroyerCustody'
<1> USE DEF vaultVars
<1>1. /\ destroyer \in DestroyerType /\ VaultTypeOK /\ list \in Seq(Entry)
      /\ destroyer.phase # "none" =>
           /\ destroyer.base = list
           /\ destroyer.index \in {0} \cup DOMAIN list
  BY DEF WellFormed, TypeOK, DestroyerTypeOK, VaultTypeOK, Captured
<1>2. \A i \in DOMAIN list : list[i] \in Entry
  BY <1>1, LenProperties, ElementOfSeq
<1> USE DEF DestroyerCustody, DestroyerSaved, DestroyerHasLeave, Opens, Usable, Past
<1>3. CASE LibDeletes
  <2>1. /\ destroyer.phase = "deleting" /\ destroyer'.phase = "deleting"
        /\ destroyer'.index = destroyer.index
        /\ UNCHANGED <<minted, db, list, doomed>>
    BY <1>1, <1>3, DestroyerHearsProperties DEF LibDeletes, Answers
  <2>2. CASE destroyer.index = 0
    BY <1>1, <2>1, <2>2
  <2>3. CASE destroyer.index # 0
    <3>1. /\ list[destroyer.index] \in Entry /\ list[destroyer.index] \in doomed
          /\ DeletePublicKey(list[destroyer.index])
      BY <1>1, <1>2, <1>3, <2>1, <2>3 DEF LibDeletes
    <3>2. \A e \in Entry : \A q : e # list[destroyer.index] /\ File(e, q) \in store
                               => File(e, q) \in store'
      BY <3>1, DeleteKeeps
    <3>. QED
      BY <1>1, <1>2, <2>1, <2>3, <3>1, <3>2
  <2>. QED
    BY <2>2, <2>3
<1>4. CASE DbSavesSpared
  <2>1. PICK answer \in {"ok", "error"} :
          /\ SaveWalletList(Spared(destroyer.base), answer)
          /\ destroyer' = DestroyerHears(answer)
    BY <1>4 DEF DbSavesSpared
  <2>2. /\ destroyer.phase = "saving" /\ destroyer.answer = "pending"
        /\ destroyer'.phase = "saving" /\ destroyer'.index = destroyer.index
        /\ destroyer'.answer = answer
        /\ UNCHANGED <<store, minted, list, doomed>>
    BY <1>1, <1>4, <2>1, DestroyerHearsProperties DEF DbSavesSpared, Answers
  <2>. QED
    BY <1>1, <2>1, <2>2 DEF SaveWalletList, Spared
<1>5. CASE OnDeleted
  <2>1. /\ destroyer.phase = "deleting"
        /\ destroyer'.phase = "saving" /\ destroyer'.answer = "pending"
        /\ destroyer'.index = destroyer.index
        /\ UNCHANGED <<store, minted, db, list, doomed>>
    BY <1>1, <1>5 DEF OnDeleted, DestroyerType
  <2>. QED
    BY <1>1, <2>1
<1>6. CASE OnSparedSaved
  <2>1. /\ destroyer.phase = "saving" /\ destroyer'.phase = "none"
        /\ UNCHANGED <<store, minted, db, doomed>>
    BY <1>6, NoDestroyerProperties DEF OnSparedSaved
  <2>2. list' = db
    BY <1>1, <1>6, <2>1 DEF OnSparedSaved
  <2>3. \A j \in DOMAIN list' : \E i \in DOMAIN list : list'[j] = list[i]
    <3>1. CASE destroyer.answer = "ok"
      BY <1>1, <1>6, <2>1, <3>1, SparedProperties DEF OnSparedSaved
    <3>2. CASE destroyer.answer # "ok"
      BY <1>6, <3>2 DEF OnSparedSaved
    <3>. QED
      BY <3>1, <3>2
  <2>. QED
    BY <1>1, <2>1, <2>2, <2>3
<1>. QED
  BY <1>3, <1>4, <1>5, <1>6 DEF DestroyerStep, DestroyerServed, DestroyerHandles

\* A step of KeyDestroyer keeps CustodyInv.
LEMMA DestroyerStepCustody ==
    ASSUME WellFormed, CustodyInv, DestroyerStep
    PROVE  CustodyInv'
<1>1. destroyer.phase # "none"
  BY DEF WellFormed, TypeOK, DestroyerTypeOK, DestroyerStep, DestroyerServed,
         DestroyerHandles, LibDeletes, DbSavesSpared, OnDeleted, OnSparedSaved
<1>2. opened /\ ~ CreatorSaved /\ ~ ChangerSaved /\ changer.phase # "rollforward"
  BY <1>1 DEF WellFormed, Exclusive, Idle, CreatorSaved, ChangerSaved, Answered
<1>3. DestroyerCustody
  BY <1>2
  DEF CustodyInv, DiskAgrees, AllPast, ListedKeysUsable, DestroyerCustody
<1>. QED
  BY <1>1, <1>3, DestroyerStepKeepsKeys, DestroyerStepWellFormed,
     DestroyerCustodyFrame DEF DestroyerStep

-----------------------------------------------------------------------------
\* PasswordChanger.

ChangerCustody ==
    /\ IF ChangerSaved THEN db = changer.fresh ELSE db = list
    /\ \A i \in DOMAIN list : Past(list[i])
    /\ \A i \in DOMAIN changer.fresh : Past(changer.fresh[i])
    /\ Past(changer.got)
    /\ ChangerHoldsKeys
    /\ PersistedKeysUsable
    /\ ListedKeysUsable

\* With a changer at work CustodyInv follows from ChangerCustody.
LEMMA ChangerCustodyFrame ==
    ASSUME WellFormed, CustodyInv, changer.phase # "none",
           UNCHANGED <<creator, destroyer, opened>>,
           WellFormed', ChangerCustody'
    PROVE  CustodyInv'
<1>1. creator = NoCreator /\ destroyer = NoDestroyer /\ opened
  BY DEF WellFormed, TypeOK, CreatorTypeOK, DestroyerTypeOK, Exclusive, Idle
<1>2. /\ ~ CreatorSaved' /\ ~ DestroyerSaved'
      /\ creator'.phase = "none" /\ creator'.own = NoEntry
      /\ creator'.got = NoEntry /\ destroyer'.phase = "none"
  BY <1>1, NoCreatorProperties, NoDestroyerProperties
  DEF CreatorSaved, DestroyerSaved, Answered
<1>3. DiskAgrees' /\ AllPast'
  BY <1>2 DEF ChangerCustody, DiskAgrees, AllPast, Past
<1>4. CreatorHoldsKey' /\ DestroyerHasLeave'
  BY <1>2 DEF CreatorHoldsKey, OwningPhases, DestroyerHasLeave
<1>. QED
  BY <1>3, <1>4 DEF CustodyInv, WellFormed, ChangerCustody

\* Every step of PasswordChanger keeps one usable file for each saved entry.
LEMMA ChangerStepKeepsKeys ==
    ASSUME WellFormed, ChangerCustody, ChangerStep
    PROVE  ChangerCustody'
<1> USE NoEntryAssumption DEF vaultVars
<1>1. /\ changer \in ChangerType /\ ChangerTypeOK /\ CapturedByChanger
      /\ VaultTypeOK /\ minted \in Nat
      /\ list \in Seq(Entry) /\ db \in Seq(Entry)
      /\ changer.fresh \in Seq(Entry) /\ changer.entries \in Seq(Entry)
  BY DEF WellFormed, TypeOK, ChangerTypeOK, ChangerType, VaultTypeOK, Captured
<1>2. /\ \A i \in DOMAIN list : list[i] \in Entry /\ list[i].secret \in Nat
      /\ \A i \in DOMAIN db : db[i] \in Entry
      /\ \A i \in DOMAIN changer.fresh :
            changer.fresh[i] \in Entry /\ changer.fresh[i].secret \in Nat
      /\ \A i \in DOMAIN changer.entries : changer.entries[i] \in Entry
  <2>1. \A e \in Entry : e.secret \in Nat
    BY DEF Entry
  <2>. QED
    BY <1>1, <2>1, LenProperties, ElementOfSeq
<1>3. CASE LibChangesPassword
  <2>1. /\ changer.phase = "changing" /\ changer.entries = list
        /\ ~ ChangerSaved /\ db = list
    BY <1>1, <1>3
    DEF LibChangesPassword, CapturedByChanger, ChangerSaved, ChangerCustody
  <2>2. CASE changer' = ChangerHears("error") /\ UNCHANGED <<store, minted>>
    <3>1. /\ changer'.phase = "changing" /\ changer'.fresh = changer.fresh
          /\ changer'.entries = changer.entries /\ changer'.new = changer.new
          /\ changer'.got = changer.got
          /\ UNCHANGED <<store, minted, db, list, doomed>>
      BY <1>1, <1>3, <2>1, <2>2, ChangerHearsProperties
      DEF LibChangesPassword, Answers
    <3>. QED
      BY <2>1, <3>1
      DEF ChangerCustody, ChangerSaved, ChangerHoldsKeys, PersistedKeysUsable,
          ListedKeysUsable, Past, Usable, Opens
  <2>3. CASE /\ Mint(Current.pub, changer.new)
             /\ changer' = ChangerHearsKey(NextEntry(Current.pub))
    <3> DEFINE e == NextEntry(Current.pub)
    <3>1. Current.pub \in Keys /\ changer.new \in Passwords
      <4>1. Len(changer.fresh) + 1 \in DOMAIN changer.entries
        BY <1>1, <2>1, LenProperties DEF ChangerTypeOK
      <4>. QED
        BY <1>1, <1>2, <2>1, <4>1 DEF Current, ChangerTypeOK, Entry
    <3>2. e \in Entry /\ e.secret = minted /\ e # NoEntry
      BY <1>1, <2>3, <3>1, MintProperties
    <3>3. /\ minted' = minted + 1 /\ \A f \in store : f \in store'
          /\ File(e, changer.new) \in store'
      BY <1>1, <2>3, MintKeeps
    <3>4. /\ changer'.phase = "changing" /\ changer'.fresh = changer.fresh
          /\ changer'.entries = list /\ changer'.new = changer.new
          /\ changer'.got = e /\ UNCHANGED <<db, list, doomed>>
      BY <1>1, <1>3, <2>1, <2>3, <3>2, ChangerHearsKeyProperties
      DEF LibChangesPassword
    <3>5. \A i \in DOMAIN list : list[i] # e
      BY <1>1, <1>2, <3>2 DEF ChangerCustody, Past
    <3> HIDE DEF e
    <3>6. /\ \A i \in DOMAIN list' : Past(list[i])'
          /\ \A i \in DOMAIN changer'.fresh : Past(changer.fresh[i])'
          /\ Past(changer.got)'
      BY <1>1, <1>2, <3>2, <3>3, <3>4 DEF ChangerCustody, Past
    <3>7. ChangerHoldsKeys'
      BY <2>1, <3>3, <3>4, <3>5 DEF ChangerCustody, ChangerHoldsKeys, Opens
    <3>8. PersistedKeysUsable' /\ ListedKeysUsable'
      BY <2>1, <3>3, <3>4
      DEF ChangerCustody, PersistedKeysUsable, ListedKeysUsable, Usable, Opens
    <3>. QED
      BY <2>1, <3>4, <3>6, <3>7, <3>8 DEF ChangerCustody, ChangerSaved
  <2>. QED
    BY <1>3, <2>2, <2>3 DEF LibChangesPassword
<1>4. CASE DbSavesNewSecrets
  <2>1. PICK answer \in {"ok", "error"} :
          SaveWalletList(changer.fresh, answer) /\ changer' = ChangerHears(answer)
    BY <1>4 DEF DbSavesNewSecrets
  <2>2. /\ changer.phase = "saving" /\ changer.answer = "pending"
        /\ changer'.phase = "saving" /\ changer'.answer = answer
        /\ changer'.fresh = changer.fresh /\ changer'.entries = changer.entries
        /\ changer'.new = changer.new /\ changer'.got = changer.got
        /\ changer.new \in Passwords
        /\ UNCHANGED <<store, minted, list, doomed>>
    BY <1>1, <1>4, <2>1, ChangerHearsProperties
    DEF DbSavesNewSecrets, Answers, ChangerTypeOK
  <2>3. db' = IF answer = "ok" THEN changer.fresh ELSE list
    BY <2>1, <2>2 DEF SaveWalletList, ChangerCustody, ChangerSaved
  <2>4. PersistedKeysUsable' /\ ListedKeysUsable'
    BY <2>2, <2>3
    DEF ChangerCustody, ChangerHoldsKeys, PersistedKeysUsable, ListedKeysUsable,
        Usable, Opens
  <2>. QED
    BY <2>1, <2>2, <2>3, <2>4
    DEF ChangerCustody, ChangerSaved, ChangerHoldsKeys, Past, Opens
<1>5. CASE LibDeletesVictim
  <2>1. /\ changer.phase \in {"rollback", "rollforward"}
        /\ changer'.phase = changer.phase
        /\ changer'.fresh = changer.fresh /\ changer'.entries = changer.entries
        /\ changer'.new = changer.new /\ changer'.got = changer.got
        /\ changer'.victim = changer.victim
        /\ UNCHANGED <<minted, db, list, doomed>>
        /\ DeletePublicKey(changer.victim)
    BY <1>1, <1>5, ChangerHearsProperties DEF LibDeletesVictim, Answers
  <2>2. changer.victim \in Entry /\ changer.got = NoEntry
    BY <1>1, <2>1 DEF ChangerTypeOK, ChangerType
  <2>3. \A e \in Entry : \A q : e # changer.victim /\ File(e, q) \in store
                             => File(e, q) \in store'
    BY <2>1, <2>2, DeleteKeeps
  <2>4. CASE changer.phase = "rollback"
    <3>1. db = list /\ list = changer.entries
      BY <1>1, <2>4 DEF ChangerCustody, ChangerSaved, CapturedByChanger
    <3>2. PersistedKeysUsable' /\ ListedKeysUsable'
      BY <1>2, <2>1, <2>3, <2>4, <3>1
      DEF ChangerCustody, ChangerHoldsKeys, PersistedKeysUsable,
          ListedKeysUsable, Usable, Opens
    <3>3. ChangerHoldsKeys'
      BY <2>1, <2>2, <2>4 DEF ChangerCustody, ChangerHoldsKeys
    <3>. QED
      BY <2>1, <2>4, <3>1, <3>2, <3>3 DEF ChangerCustody, ChangerSaved, Past
  <2>5. CASE changer.phase = "rollforward"
    <3>1. db = changer.fresh
      BY <2>5 DEF ChangerCustody, ChangerSaved
    <3>2. PersistedKeysUsable'
      BY <1>2, <2>1, <2>3, <2>5, <3>1
      DEF ChangerCustody, ChangerHoldsKeys, PersistedKeysUsable, Usable, Opens
    <3>4. ListedKeysUsable'
      <4>1. \A i \in DOMAIN changer.fresh : Opens(changer.fresh[i], changer.new)'
        BY <1>2, <2>1, <2>3, <2>5 DEF ChangerCustody, ChangerHoldsKeys, Opens
      <4>2. DOMAIN list = DOMAIN changer.fresh
        BY <1>1, <2>5, LenProperties DEF ChangerTypeOK, CapturedByChanger
      <4>. QED
        BY <2>1, <2>5, <4>1, <4>2 DEF ListedKeysUsable
    <3>3. ChangerHoldsKeys'
      BY <1>2, <2>1, <2>2, <2>3, <2>5 DEF ChangerCustody, ChangerHoldsKeys, Opens
    <3>. QED
      BY <2>1, <2>5, <3>1, <3>2, <3>3, <3>4 DEF ChangerCustody, ChangerSaved, Past
  <2>. QED
    BY <2>1, <2>4, <2>5
<1>6. CASE SavedNext
  <2>1. PICK phase \in {"changing", "saving"} : changer' = Collect(phase)
    BY <1>6 DEF SavedNext
  <2>2. changer.phase = "changing" /\ changer.got # NoEntry /\ changer.got \in Entry
    BY <1>1, <1>6 DEF SavedNext, ChangerTypeOK, ChangerType
  <2>3. /\ changer'.phase = phase /\ changer'.answer = "pending"
        /\ changer'.new = changer.new /\ changer'.entries = changer.entries
        /\ changer'.fresh = Append(changer.fresh, changer.got)
        /\ changer'.got = NoEntry
        /\ UNCHANGED <<store, minted, db, list, doomed>>
    BY <1>1, <1>6, <2>1, <2>2, CollectProperties DEF SavedNext, ChangerPhases
  <2>4. \A i \in DOMAIN changer'.fresh :
          \/ changer'.fresh[i] = changer.got
          \/ i \in DOMAIN changer.fresh /\ changer'.fresh[i] = changer.fresh[i]
    <3>1. /\ DOMAIN changer.fresh = 1..Len(changer.fresh) /\ Len(changer.fresh) \in Nat
          /\ DOMAIN changer'.fresh = 1..(Len(changer.fresh) + 1)
          /\ \A i \in 1..Len(changer.fresh) : changer'.fresh[i] = changer.fresh[i]
          /\ changer'.fresh[Len(changer.fresh) + 1] = changer.got
      BY <1>1, <2>2, <2>3, AppendProperties, LenProperties
    <3>2. \A n \in Nat : \A i \in 1..(n + 1) : i = n + 1 \/ i \in 1..n
      OBVIOUS
    <3>. QED
      BY <3>1, <3>2, Zenon
  <2>5. \A i \in DOMAIN changer'.fresh : Past(changer.fresh[i])'
    BY <2>2, <2>3, <2>4 DEF ChangerCustody, Past
  <2>6. ChangerHoldsKeys'
    <3>1. \A i \in DOMAIN changer'.fresh : Opens(changer.fresh[i], changer.new)'
      BY <2>2, <2>3, <2>4 DEF ChangerCustody, ChangerHoldsKeys, Opens
    <3>2. \A i \in DOMAIN changer'.entries :
            /\ changer'.entries[i] # changer'.got
            /\ \A j \in DOMAIN changer'.fresh :
                  changer'.entries[i] # changer'.fresh[j]
      BY <1>2, <2>2, <2>3, <2>4 DEF ChangerCustody, ChangerHoldsKeys
    <3>. QED
      BY <2>1, <2>3, <3>1, <3>2 DEF ChangerHoldsKeys
  <2>7. PersistedKeysUsable' /\ ListedKeysUsable'
    BY <2>2, <2>3
    DEF ChangerCustody, PersistedKeysUsable, ListedKeysUsable, Usable, Opens
  <2>. QED
    BY <2>1, <2>2, <2>3, <2>5, <2>6, <2>7 DEF ChangerCustody, ChangerSaved, Past
<1>7. CASE Rollback
  <2>1. /\ ~ ChangerSaved /\ db = list /\ changer.phase # "rollforward"
        /\ changer.got = NoEntry
        /\ UNCHANGED <<store, minted, db, list, doomed>>
    BY <1>1, <1>7 DEF Rollback, ChangerCustody, ChangerSaved, ChangerTypeOK
  <2>2. CASE changer.fresh = <<>>
    <3>1. changer' = NoChanger
      BY <1>7, <2>2 DEF Rollback
    <3>. QED
      BY <2>1, <3>1, NoChangerProperties
      DEF ChangerCustody, ChangerSaved, ChangerHoldsKeys, PersistedKeysUsable,
          ListedKeysUsable, Usable, Opens, Past
  <2>3. CASE changer.fresh # <<>>
    <3>1. /\ changer'.phase = "rollback" /\ changer'.answer = "pending"
          /\ changer'.entries = changer.entries
          /\ changer'.fresh = Front(changer.fresh)
          /\ changer'.victim = Last(changer.fresh) /\ changer'.got = NoEntry
      BY <1>1, <1>7, <2>1, <2>3, UndoLastProperties DEF Rollback
    <3>2. /\ \A i \in DOMAIN changer'.fresh :
               i \in DOMAIN changer.fresh /\ changer'.fresh[i] = changer.fresh[i]
          /\ \E i \in DOMAIN changer.fresh : changer'.victim = changer.fresh[i]
      <4>1. /\ Front(changer.fresh) \in Seq(Entry)
            /\ Len(Front(changer.fresh)) = Len(changer.fresh) - 1
            /\ \A i \in 1..(Len(changer.fresh) - 1) :
                  Front(changer.fresh)[i] = changer.fresh[i]
            /\ Last(changer.fresh) = changer.fresh[Len(changer.fresh)]
            /\ Len(changer.fresh) \in Nat \ {0}
        BY <1>1, <2>3, FrontLastProperties
      <4>2. /\ DOMAIN Front(changer.fresh) = 1..(Len(changer.fresh) - 1)
            /\ DOMAIN changer.fresh = 1..Len(changer.fresh)
        BY <1>1, <4>1, LenProperties
      <4>. QED
        BY <3>1, <4>1, <4>2
    <3>3. ChangerHoldsKeys'
      BY <1>2, <3>1, <3>2 DEF ChangerCustody, ChangerHoldsKeys
    <3>4. PersistedKeysUsable' /\ ListedKeysUsable'
      BY <2>1, <3>1
      DEF ChangerCustody, PersistedKeysUsable, ListedKeysUsable, Usable, Opens
    <3>. QED
      BY <2>1, <3>1, <3>2, <3>3, <3>4 DEF ChangerCustody, ChangerSaved, Past
  <2>. QED
    BY <2>2, <2>3
<1>8. CASE Rollforward
  <2>1. /\ ChangerSaved /\ db = changer.fresh /\ changer.got = NoEntry
        /\ Len(changer.fresh) = Len(list)
        /\ \A i \in DOMAIN changer.fresh : Opens(changer.fresh[i], changer.new)
        /\ UNCHANGED <<store, minted, db, doomed>>
    BY <1>1, <1>8
    DEF Rollforward, ChangerCustody, ChangerSaved, ChangerTypeOK,
        ChangerHoldsKeys, CapturedByChanger
  <2>2. CASE changer.entries = <<>>
    <3>1. changer' = NoChanger /\ list' = changer.fresh
      BY <1>1, <1>8, <2>1, <2>2, NewSecretsProperties
      DEF Rollforward, CapturedByChanger
    <3>. QED
      BY <2>1, <3>1, NoChangerProperties
      DEF ChangerCustody, ChangerSaved, ChangerHoldsKeys, PersistedKeysUsable,
          ListedKeysUsable, Usable, Opens, Past
  <2>3. CASE changer.entries # <<>>
    <3>1. /\ changer'.phase = "rollforward" /\ changer'.new = changer.new
          /\ changer'.entries = Front(changer.entries)
          /\ changer'.fresh = changer.fresh
          /\ changer'.victim = Last(changer.entries) /\ changer'.got = NoEntry
          /\ UNCHANGED list
      BY <1>1, <1>8, <2>1, <2>3, DropLastOldProperties DEF Rollforward
    <3>2. /\ \A i \in DOMAIN changer'.entries :
               /\ i \in DOMAIN changer.entries
               /\ changer'.entries[i] = changer.entries[i]
          /\ \E i \in DOMAIN changer.entries : changer'.victim = changer.entries[i]
      <4>1. /\ Front(changer.entries) \in Seq(Entry)
            /\ Len(Front(changer.entries)) = Len(changer.entries) - 1
            /\ \A i \in 1..(Len(changer.entries) - 1) :
                  Front(changer.entries)[i] = changer.entries[i]
            /\ Last(changer.entries) = changer.entries[Len(changer.entries)]
            /\ Len(changer.entries) \in Nat \ {0}
        BY <1>1, <2>3, FrontLastProperties
      <4>2. /\ DOMAIN Front(changer.entries) = 1..(Len(changer.entries) - 1)
            /\ DOMAIN changer.entries = 1..Len(changer.entries)
        BY <1>1, <4>1, LenProperties
      <4>. QED
        BY <3>1, <4>1, <4>2
    <3>3. ChangerHoldsKeys'
      <4>1. \A i \in DOMAIN changer'.fresh : Opens(changer.fresh[i], changer.new)'
        BY <2>1, <3>1 DEF Opens
      <4>2. \A i \in DOMAIN changer'.fresh : changer'.fresh[i] # changer'.victim
        BY <3>1, <3>2 DEF ChangerCustody, ChangerHoldsKeys
      <4>3. \A i \in DOMAIN changer'.entries :
              /\ changer'.entries[i] # changer'.got
              /\ \A j \in DOMAIN changer'.fresh :
                    changer'.entries[i] # changer'.fresh[j]
        BY <2>1, <3>1, <3>2 DEF ChangerCustody, ChangerHoldsKeys
      <4>. QED
        BY <3>1, <4>1, <4>2, <4>3 DEF ChangerHoldsKeys
    <3>4. PersistedKeysUsable' /\ ListedKeysUsable'
      BY <2>1, <3>1
      DEF ChangerCustody, PersistedKeysUsable, ListedKeysUsable, Usable, Opens
    <3>. QED
      BY <2>1, <3>1, <3>3, <3>4 DEF ChangerCustody, ChangerSaved, Past
  <2>. QED
    BY <2>2, <2>3
<1>. QED
  BY <1>3, <1>4, <1>5, <1>6, <1>7, <1>8
  DEF ChangerStep, ChangerServed, ChangerHandles

\* A step of PasswordChanger keeps CustodyInv.
LEMMA ChangerStepCustody ==
    ASSUME WellFormed, CustodyInv, ChangerStep
    PROVE  CustodyInv'
<1>1. changer.phase # "none"
  BY DEF ChangerStep, ChangerServed, ChangerHandles, LibChangesPassword,
         DbSavesNewSecrets, LibDeletesVictim, SavedNext, Rollback, Rollforward
<1>2. opened /\ ~ CreatorSaved /\ ~ DestroyerSaved
  BY <1>1 DEF WellFormed, Exclusive, Idle, CreatorSaved, DestroyerSaved, Answered
<1>3. ChangerCustody
  BY <1>2 DEF CustodyInv, DiskAgrees, AllPast, ChangerCustody
<1>. QED
  BY <1>1, <1>3, ChangerStepKeepsKeys, ChangerStepWellFormed,
     ChangerCustodyFrame DEF ChangerStep

-----------------------------------------------------------------------------
\* The user, a crash, the next start.

\* What the user asks for keeps CustodyInv: it starts from an idle wallet.
LEMMA UserCustody ==
    ASSUME WellFormed, CustodyInv, User
    PROVE  CustodyInv'
<1> USE NoEntryAssumption DEF vaultVars
<1>1. WellFormed' /\ list \in Seq(Entry)
  BY UserWellFormed DEF WellFormed, TypeOK, VaultTypeOK
<1>2. CASE CreateKey \/ ImportKey
  <2>1. /\ opened /\ destroyer.phase = "none" /\ changer.phase = "none"
        /\ creator.phase = "none"
        /\ UNCHANGED <<store, minted, db, list, doomed, destroyer, changer, opened>>
    BY <1>2 DEF CreateKey, ImportKey, Idle
  <2>2. /\ creator'.phase \in {"creating", "importing"}
        /\ creator'.own = NoEntry /\ creator'.got = NoEntry
    BY <1>2 DEF CreateKey, ImportKey, StartCreator, NoCreator
  <2>. QED
    BY <1>1, <2>1, <2>2
    DEF CustodyInv, WellFormed, DiskAgrees, CreatorSaved, Answered,
        DestroyerSaved, ChangerSaved, AllPast, Past, CreatorHoldsKey,
        OwningPhases, DestroyerHasLeave, ChangerHoldsKeys,
        PersistedKeysUsable, ListedKeysUsable, Usable, Opens
<1>3. ASSUME NEW p \in Passwords, SaveKey(p)
      PROVE  CustodyInv'
  <2>1. /\ creator.phase = "created" /\ creator \in CreatorType
        /\ UNCHANGED <<store, minted, db, list, doomed, destroyer, changer, opened>>
    BY <1>3 DEF SaveKey, Save, WellFormed, TypeOK, CreatorTypeOK
  <2>2. /\ creator'.phase \in {"rekeying", "saving"} /\ creator'.answer = "pending"
        /\ creator'.own = creator.own /\ creator'.pw = creator.pw
        /\ creator'.got = creator.got
    BY <1>3, <2>1, AskProperties DEF SaveKey, Save, Ask, CreatorType, CreatorPhases
  <2>3. /\ opened /\ creator.got = NoEntry
        /\ ~ DestroyerSaved /\ ~ ChangerSaved
    BY <2>1
    DEF WellFormed, TypeOK, CreatorTypeOK, Exclusive, Idle, DestroyerSaved, ChangerSaved
  <2>4. CreatorCustody'
    BY <2>1, <2>2, <2>3
    DEF CustodyInv, CreatorCustody, DiskAgrees, CreatorSaved, Answered, AllPast,
        Past, CreatorHoldsKey, OwningPhases, PersistedKeysUsable, Usable, Opens
  <2>. QED
    BY <1>1, <2>1, <2>4, CreatorCustodyFrame
<1>4. CASE DeleteAllKeys \/ \E k \in Keys : DeleteKey(k)
  <2>1. PICK index \in {0} \cup DOMAIN list : StartDestroyer(index)
    BY <1>4 DEF DeleteAllKeys, DeleteKey
  <2>2. /\ opened /\ creator.phase = "none" /\ changer.phase = "none"
        /\ destroyer.phase = "none"
        /\ UNCHANGED <<store, minted, db, list, creator, changer, opened>>
    BY <1>4 DEF DeleteAllKeys, DeleteKey, Idle
  <2>3. /\ destroyer'.phase = "deleting" /\ destroyer'.index = index
        /\ doomed \subseteq doomed'
        /\ index = 0 => \A i \in DOMAIN list : list[i] \in doomed'
        /\ index # 0 => list[index] \in doomed'
    BY <2>1 DEF StartDestroyer, ToSet
  <2>. QED
    BY <1>1, <2>2, <2>3
    DEF CustodyInv, WellFormed, DiskAgrees, CreatorSaved, Answered,
        DestroyerSaved, ChangerSaved, AllPast, Past, CreatorHoldsKey,
        DestroyerHasLeave, ChangerHoldsKeys, PersistedKeysUsable,
        ListedKeysUsable, Usable, Opens
<1>5. ASSUME NEW old \in Passwords, NEW new \in Passwords, ChangePassword(old, new)
      PROVE  CustodyInv'
  <2>1. /\ opened /\ creator.phase = "none" /\ changer.phase = "none"
        /\ destroyer.phase = "none"
        /\ UNCHANGED <<store, minted, db, list, doomed, creator, destroyer, opened>>
    BY <1>5 DEF ChangePassword, Idle
  <2>2. /\ changer'.phase = "changing" /\ changer'.entries = list
        /\ changer'.fresh = <<>> /\ changer'.got = NoEntry
    BY <1>5 DEF ChangePassword, StartChanger, NoChanger
  <2>3. \A i \in DOMAIN list : list[i] # NoEntry
    BY <1>1, ElementOfSeq, LenProperties
  <2>. QED
    BY <1>1, <2>1, <2>2, <2>3
    DEF CustodyInv, WellFormed, DiskAgrees, CreatorSaved, Answered,
        DestroyerSaved, ChangerSaved, AllPast, Past, CreatorHoldsKey,
        OwningPhases, DestroyerHasLeave, ChangerHoldsKeys,
        PersistedKeysUsable, ListedKeysUsable, Usable, Opens
<1>. QED
  BY <1>2, <1>3, <1>4, <1>5 DEF User

\* A crash at any point keeps CustodyInv.
LEMMA CrashCustody ==
    ASSUME WellFormed, CustodyInv, Crash
    PROVE  CustodyInv'
<1>1. /\ creator' = NoCreator /\ destroyer' = NoDestroyer
      /\ changer' = NoChanger /\ list' = <<>> /\ opened' = FALSE
      /\ UNCHANGED <<store, minted, db, doomed>>
  BY DEF Crash
<1>2. WellFormed'
  BY CrashWellFormed
<1>. QED
  BY <1>1, <1>2, NoCreatorProperties, NoDestroyerProperties, NoChangerProperties
  DEF CustodyInv, WellFormed, DiskAgrees, CreatorSaved, Answered,
      DestroyerSaved, ChangerSaved, AllPast, Past, CreatorHoldsKey,
      OwningPhases, DestroyerHasLeave, ChangerHoldsKeys,
      PersistedKeysUsable, ListedKeysUsable, Usable, Opens

\* Opening the wallet again keeps CustodyInv.
LEMMA OpenCustody ==
    ASSUME WellFormed, CustodyInv, Open
    PROVE  CustodyInv'
<1>1. /\ creator.phase = "none" /\ destroyer.phase = "none"
      /\ changer.phase = "none" /\ list' = db
      /\ UNCHANGED <<store, minted, db, doomed, creator, destroyer, changer>>
  BY DEF WellFormed, Exclusive, Idle, Open
<1>2. WellFormed'
  BY OpenWellFormed
<1>. QED
  BY <1>1, <1>2
  DEF CustodyInv, WellFormed, DiskAgrees, CreatorSaved, Answered,
      DestroyerSaved, ChangerSaved, AllPast, Past, CreatorHoldsKey,
      OwningPhases, DestroyerHasLeave, ChangerHoldsKeys,
      PersistedKeysUsable, ListedKeysUsable, Usable, Opens

-----------------------------------------------------------------------------

\* An empty wallet has custody of its keys.
LEMMA InitCustody == Init => CustodyInv
<1> SUFFICES ASSUME Init PROVE CustodyInv
  OBVIOUS
<1>1. /\ creator = NoCreator /\ destroyer = NoDestroyer /\ changer = NoChanger
      /\ db = <<>> /\ list = <<>> /\ opened = TRUE
  BY DEF Init, VaultInit, CreatorInit, DestroyerInit, ChangerInit
<1>2. WellFormed
  BY InitWellFormed
<1>. QED
  BY <1>1, <1>2, NoCreatorProperties, NoDestroyerProperties, NoChangerProperties
  DEF CustodyInv, WellFormed, DiskAgrees, CreatorSaved, Answered,
      DestroyerSaved, ChangerSaved, AllPast, Past, CreatorHoldsKey,
      OwningPhases, DestroyerHasLeave, ChangerHoldsKeys,
      PersistedKeysUsable, ListedKeysUsable

\* CustodyInv is inductive, given WellFormed.
LEMMA NextCustody == WellFormed /\ CustodyInv /\ [Next]_vars => CustodyInv'
<1> SUFFICES ASSUME WellFormed, CustodyInv, [Next]_vars
             PROVE  CustodyInv'
  OBVIOUS
<1>1. CASE Next
  BY <1>1, UserCustody, CreatorStepCustody, DestroyerStepCustody,
     ChangerStepCustody, CrashCustody, OpenCustody DEF Next
<1>2. CASE UNCHANGED vars
  <2>1. /\ UNCHANGED <<store, minted, db, list, doomed, creator, destroyer>>
        /\ UNCHANGED <<changer, opened>>
    BY <1>2 DEF vars, vaultVars
  <2>2. WellFormed'
    BY <1>2, NextWellFormed
  <2>. QED
    BY <2>1, <2>2
    DEF CustodyInv, WellFormed, DiskAgrees, CreatorSaved, Answered,
        DestroyerSaved, Spared, ChangerSaved, AllPast, Past, CreatorHoldsKey,
        OwningPhases, DestroyerHasLeave, ChangerHoldsKeys,
        PersistedKeysUsable, ListedKeysUsable, Usable, Opens
<1>. QED
  BY <1>1, <1>2

\* The whole invariant, for every number of keys, passwords and files.
THEOREM CustodyHolds == Spec => []CustodyInv
<1>1. Init => WellFormed /\ CustodyInv
  BY InitWellFormed, InitCustody
<1>2. WellFormed /\ CustodyInv /\ [Next]_vars => (WellFormed /\ CustodyInv)'
  BY NextWellFormed, NextCustody
<1>. QED
  BY <1>1, <1>2, PTL DEF Spec

\* No crash, failed request or failed save makes a saved key useless: an entry
\* of the database opens with a user's password unless the user gave it up.
THEOREM PersistedKeysStayUsable == Spec => []PersistedKeysUsable
<1>1. CustodyInv => PersistedKeysUsable
  BY DEF CustodyInv
<1>. QED
  BY <1>1, CustodyHolds, PTL

\* The same of Wallet::_list; while rollforward deletes the old files, the entry
\* that takes the place opens with the new password.
THEOREM ListedKeysStayUsable == Spec => []ListedKeysUsable
<1>1. CustodyInv => ListedKeysUsable
  BY DEF CustodyInv
<1>. QED
  BY <1>1, CustodyHolds, PTL

\* Between operations Wallet::_list is what the next start would read.
THEOREM MemoryAgreesWithDisk == Spec => []MemoryMatchesDisk
<1>1. CustodyInv => MemoryMatchesDisk
  BY DEF CustodyInv, DiskAgrees, MemoryMatchesDisk, Idle, CreatorSaved,
         Answered, DestroyerSaved, ChangerSaved
<1>. QED
  BY <1>1, CustodyHolds, PTL

-----------------------------------------------------------------------------
\* Tidiness of tonlib's directory.

\* A key file is of use to one entry.
LEMMA EntryOfProperties ==
    ASSUME VaultTypeOK, NEW f \in store
    PROVE  /\ EntryOf(f) \in Entry /\ EntryOf(f) # NoEntry
           /\ \A e \in Entry :
                EntryOf(f) = e <=> f.pub = e.pub /\ f.secret = e.secret
  BY NoEntryAssumption DEF VaultTypeOK, KeyFile, Entry, EntryOf

\* A deletion that leaves nothing behind takes the files of its entry.
LEMMA DeleteTidies ==
    ASSUME VaultTypeOK, NEW v \in Entry, DeletePublicKey(v), ~ leaked'
    PROVE  /\ ~ leaked /\ store' \subseteq store
           /\ \A f \in store' : f.pub # v.pub \/ f.secret # v.secret
           /\ \A f \in store' : EntryOf(f) # v
<1>1. CASE /\ store' = {f \in store : f.pub # v.pub \/ f.secret # v.secret}
           /\ UNCHANGED leaked
  BY <1>1, EntryOfProperties
<1>2. CASE leaked' = (leaked \/ Holds(v)) /\ UNCHANGED store
  <2>1. ~ leaked /\ ~ Holds(v)
    BY <1>2, Zenon
  <2>. QED
    BY <1>2, <2>1, EntryOfProperties DEF Holds
<1>. QED
  BY <1>1, <1>2 DEF DeletePublicKey

\* A new file is of use to the entry it is made for.
LEMMA MintTidies ==
    ASSUME NEW k, NEW p, Mint(k, p)
    PROVE  \A f \in store' : f \in store \/ EntryOf(f) = NextEntry(k)
  BY DEF Mint, EntryOf, File, NextEntry

\* The entries of a sequence with one more.
LEMMA ToSetAppend ==
    ASSUME NEW S, NEW s \in Seq(S), NEW e \in S
    PROVE  ToSet(Append(s, e)) = ToSet(s) \cup {e}
<1>1. /\ DOMAIN Append(s, e) = 1..(Len(s) + 1) /\ DOMAIN s = 1..Len(s)
      /\ Len(s) \in Nat /\ Append(s, e)[Len(s) + 1] = e
      /\ \A i \in 1..Len(s) : Append(s, e)[i] = s[i]
  BY AppendProperties, LenProperties
<1>2. \A n \in Nat : 1..(n + 1) = 1..n \cup {n + 1}
  OBVIOUS
<1>3. DOMAIN Append(s, e) = DOMAIN s \cup {Len(s) + 1}
  BY <1>1, <1>2, Zenon
<1>4. \A i \in DOMAIN s : Append(s, e)[i] = s[i]
  BY <1>1, Zenon
<1>. QED
  BY <1>1, <1>3, <1>4, Zenon DEF ToSet

\* The entries of a sequence taken apart.
LEMMA ToSetFrontLast ==
    ASSUME NEW S, NEW s \in Seq(S), s # <<>>
    PROVE  ToSet(s) = ToSet(Front(s)) \cup {Last(s)}
<1>1. /\ Front(s) \in Seq(S) /\ Len(Front(s)) = Len(s) - 1
      /\ \A i \in 1..(Len(s) - 1) : Front(s)[i] = s[i]
      /\ Last(s) = s[Len(s)] /\ Len(s) \in Nat \ {0}
  BY FrontLastProperties
<1>2. DOMAIN Front(s) = 1..(Len(s) - 1) /\ DOMAIN s = 1..Len(s)
  BY <1>1, LenProperties
<1>3. \A n \in Nat \ {0} : 1..n = 1..(n - 1) \cup {n}
  OBVIOUS
<1>4. DOMAIN s = DOMAIN Front(s) \cup {Len(s)}
  BY <1>1, <1>2, <1>3, Zenon
<1>5. \A i \in DOMAIN Front(s) : Front(s)[i] = s[i]
  BY <1>1, <1>2, Zenon
<1>. QED
  BY <1>1, <1>4, <1>5, Zenon DEF ToSet

\* Each entry but the one at n is in the list without that one.
LEMMA RemoveAtKeepsOthers ==
    ASSUME NEW S, NEW s \in Seq(S), NEW n \in DOMAIN s, NEW i \in DOMAIN s, i # n
    PROVE  s[i] \in ToSet(RemoveAt(s, n))
<1>1. n \in 1..Len(s) /\ i \in 1..Len(s) /\ Len(s) \in Nat
  BY LenProperties
<1>2. /\ RemoveAt(s, n) \in Seq(S) /\ Len(RemoveAt(s, n)) = Len(s) - 1
      /\ \A j \in 1..Len(RemoveAt(s, n)) :
            RemoveAt(s, n)[j] = IF j < n THEN s[j] ELSE s[j + 1]
  BY <1>1, RemoveAtProperties
<1>3. DOMAIN RemoveAt(s, n) = 1..(Len(s) - 1)
  BY <1>2, LenProperties
<1> DEFINE j == IF i < n THEN i ELSE i - 1
<1>4. j \in 1..(Len(s) - 1) /\ s[i] = IF j < n THEN s[j] ELSE s[j + 1]
  BY <1>1
<1>. QED
  BY <1>2, <1>3, <1>4 DEF ToSet

\* What TidyInv says while a creator is at work.
CreatorTidy ==
    ~ leaked =>
        /\ \A f \in store : EntryOf(f) \in ToSet(db) \cup {creator.own, creator.got}
        /\ creator.phase \in {"discarding", "dropping"} /\ creator.answer = "ok" =>
              \A f \in store : EntryOf(f) # creator.own

\* With a creator at work TidyInv is CreatorTidy.
LEMMA CreatorTidyFrame ==
    VaultTypeOK /\ CreatorTypeOK /\ destroyer = NoDestroyer /\ changer = NoChanger
      => (TidyInv <=> CreatorTidy)
<1> SUFFICES ASSUME VaultTypeOK, CreatorTypeOK,
                    destroyer = NoDestroyer, changer = NoChanger
             PROVE  TidyInv <=> CreatorTidy
  OBVIOUS
<1>1. /\ changer.phase = "none" /\ destroyer.phase = "none"
      /\ Known = ToSet(db) \cup {creator.own, creator.got} \cup {NoEntry}
  BY NoChangerProperties, NoDestroyerProperties DEF Known, ToSet
<1>2. NoStraySecrets <=>
        (~ leaked => \A f \in store :
            EntryOf(f) \in ToSet(db) \cup {creator.own, creator.got})
  BY <1>1, EntryOfProperties DEF NoStraySecrets
<1>3. GoneBeforeForgotten <=>
        (~ leaked =>
           (creator.phase \in {"discarding", "dropping"} /\ creator.answer = "ok" =>
              \A f \in store : EntryOf(f) # creator.own))
  <2>1. creator.phase \in {"discarding", "dropping"} => creator.own \in Entry
    BY DEF CreatorTypeOK, CreatorType, OwningPhases
  <2>. QED
    BY <1>1, <2>1, EntryOfProperties DEF GoneBeforeForgotten, Holds
<1>. QED
  BY <1>2, <1>3 DEF TidyInv, CreatorTidy

\* KeyCreator knows of the file it has, of the one it gets, and of no other.
LEMMA CreatorStepKeepsTidy ==
    ASSUME WellFormed, CreatorCustody, CreatorTidy, CreatorStep
    PROVE  CreatorTidy'
<1> USE DEF OwningPhases, CreatorPhases, Waiting, Answered, vaultVars
<1>1. /\ CreatorTypeOK /\ creator \in CreatorType
      /\ VaultTypeOK /\ db \in Seq(Entry) /\ list \in Seq(Entry)
  BY DEF WellFormed, TypeOK, CreatorTypeOK, VaultTypeOK
<1>2. \A f \in store : EntryOf(f) # NoEntry
  BY <1>1, EntryOfProperties
<1>3. CASE LibMintsKey
  <2>1. /\ creator.phase \in {"creating", "importing"} /\ creator.answer = "pending"
        /\ creator.own = NoEntry /\ creator.got = NoEntry
        /\ UNCHANGED <<db, leaked>>
    BY <1>1, <1>3 DEF LibMintsKey, CreatorTypeOK
  <2>2. CASE creator' = CreatorHears("error") /\ UNCHANGED <<store, minted>>
    BY <1>1, <1>2, <2>1, <2>2, CreatorHearsProperties DEF CreatorTidy, Answers
  <2>3. ASSUME NEW k \in Keys, Mint(k, creator.pw),
               creator' = CreatorHearsKey(NextEntry(k))
        PROVE  CreatorTidy'
    <3>1. NextEntry(k) \in Entry
      BY <1>1, <2>3, MintProperties DEF CreatorType
    <3>2. creator'.phase = creator.phase /\ creator'.got = NextEntry(k)
      BY <1>1, <2>3, <3>1, CreatorHearsKeyProperties
    <3>3. \A f \in store' : f \in store \/ EntryOf(f) = NextEntry(k)
      BY <2>3, MintTidies
    <3>. QED
      BY <1>2, <2>1, <3>2, <3>3 DEF CreatorTidy
  <2>. QED
    BY <1>3, <2>2, <2>3 DEF LibMintsKey
<1>4. CASE LibExportsKey
  BY <1>1, <1>4, CreatorHearsProperties DEF LibExportsKey, Answers, CreatorTidy
<1>5. CASE LibDropsKey
  <2>1. creator.own \in Entry /\ DeletePublicKey(creator.own) /\ UNCHANGED db
    BY <1>1, <1>5 DEF LibDropsKey, CreatorTypeOK, CreatorType
  <2>2. creator'.own = creator.own /\ creator'.got = creator.got
    BY <1>1, <1>5, CreatorHearsProperties DEF LibDropsKey, Answers
  <2>3. ~ leaked' => /\ ~ leaked /\ store' \subseteq store
                     /\ \A f \in store' : EntryOf(f) # creator.own
    BY <1>1, <2>1, DeleteTidies
  <2>. QED
    BY <2>1, <2>2, <2>3 DEF CreatorTidy
<1>6. CASE LibRekeys
  <2>1. /\ creator.phase = "rekeying" /\ creator.own \in Entry
        /\ creator.got = NoEntry /\ creator.target \in Passwords
        /\ UNCHANGED <<db, leaked>>
    BY <1>1, <1>6 DEF LibRekeys, CreatorTypeOK, CreatorType
  <2>2. CASE creator' = CreatorHears("error") /\ UNCHANGED <<store, minted>>
    BY <1>1, <2>1, <2>2, CreatorHearsProperties DEF CreatorTidy, Answers
  <2>3. CASE /\ Mint(creator.own.pub, creator.target)
             /\ creator' = CreatorHearsKey(NextEntry(creator.own.pub))
    <3>1. NextEntry(creator.own.pub) \in Entry
      BY <1>1, <2>1, <2>3, MintProperties DEF Entry
    <3>2. /\ creator'.phase = creator.phase /\ creator'.own = creator.own
          /\ creator'.got = NextEntry(creator.own.pub)
      BY <1>1, <2>3, <3>1, CreatorHearsKeyProperties
    <3>3. \A f \in store' : f \in store \/ EntryOf(f) = NextEntry(creator.own.pub)
      BY <2>3, MintTidies
    <3>. QED
      BY <1>2, <2>1, <3>2, <3>3 DEF CreatorTidy
  <2>. QED
    BY <1>6, <2>2, <2>3 DEF LibRekeys
<1>7. CASE DbSavesNewKey
  <2>1. PICK answer \in {"ok", "error"} :
          /\ SaveWalletList(Append(creator.base, creator.own), answer)
          /\ creator' = CreatorHears(answer)
    BY <1>7 DEF DbSavesNewKey
  <2>2. /\ creator.phase = "saving" /\ creator.base = list /\ db = list
        /\ creator.own \in Entry /\ UNCHANGED <<store, leaked>>
    BY <1>1, <1>7
    DEF DbSavesNewKey, WellFormed, Captured, CreatorTypeOK, CreatorType,
        CreatorCustody, CreatorSaved
  <2>3. ToSet(db) \subseteq ToSet(db')
    <3>1. ToSet(Append(list, creator.own)) = ToSet(list) \cup {creator.own}
      BY <1>1, <2>2, ToSetAppend
    <3>2. db' = Append(list, creator.own) \/ db' = db
      BY <2>1, <2>2 DEF SaveWalletList
    <3>. QED
      BY <2>2, <3>1, <3>2
  <2>4. /\ creator'.phase = "saving" /\ creator'.own = creator.own
        /\ creator'.got = creator.got
    BY <1>1, <2>1, <2>2, CreatorHearsProperties DEF Answers
  <2>. QED
    BY <2>2, <2>3, <2>4 DEF CreatorTidy
<1>8. CASE OnKeyCreated
  <2>1. /\ creator'.phase = "exporting" /\ creator'.own = creator.got
        /\ creator.own = NoEntry /\ UNCHANGED <<store, db, leaked>>
    BY <1>1, <1>8 DEF OnKeyCreated, Ask, CreatorType, CreatorTypeOK
  <2>. QED
    BY <1>2, <2>1 DEF CreatorTidy
<1>9. CASE OnKeyImported
  <2>1. /\ creator'.phase = "created" /\ creator'.own = creator.got
        /\ creator.own = NoEntry /\ UNCHANGED <<store, db, leaked>>
    BY <1>1, <1>9 DEF OnKeyImported, Rest, CreatorType, CreatorTypeOK
  <2>. QED
    BY <1>2, <2>1 DEF CreatorTidy
<1>10. CASE OnKeyFailed
  <2>1. creator.own = NoEntry /\ creator.got = NoEntry
    BY <1>1, <1>10 DEF OnKeyFailed, CreatorTypeOK
  <2>. QED
    BY <1>2, <1>10, <2>1, NoCreatorProperties DEF OnKeyFailed, CreatorTidy
<1>11. CASE OnDiscarded
  <2>1. creator.got = NoEntry
    BY <1>1, <1>11 DEF OnDiscarded, CreatorTypeOK
  <2>. QED
    BY <1>2, <1>11, <2>1, NoCreatorProperties DEF OnDiscarded, CreatorTidy
<1>12. CASE OnWordsExported
  <2>1. creator.got = NoEntry
    BY <1>1, <1>12 DEF OnWordsExported, CreatorTypeOK
  <2>. QED
    BY <1>1, <1>2, <1>12, <2>1, AskProperties, RestProperties
    DEF OnWordsExported, CreatorTidy
<1>13. CASE OnRekeyed
  <2>1. creator.answer = "error" => creator.got = NoEntry
    BY <1>1, <1>13 DEF OnRekeyed, CreatorTypeOK
  <2>. QED
    BY <1>1, <1>2, <1>13, <2>1, AskProperties, RestProperties
    DEF OnRekeyed, CreatorTidy
<1>14. CASE OnOldDropped
  <2>1. /\ creator'.phase = "saving" /\ creator'.own = creator.got
        /\ creator.phase = "dropping" /\ creator.answer = "ok"
        /\ UNCHANGED <<store, db, leaked>>
    BY <1>1, <1>14 DEF OnOldDropped, Ask, CreatorType, CreatorTypeOK
  <2>. QED
    BY <2>1 DEF CreatorTidy
<1>15. CASE OnNewKeySaved
  <2>1. /\ creator.got = NoEntry /\ creator.own \in Entry
        /\ UNCHANGED <<store, db, leaked>>
    BY <1>1, <1>15 DEF OnNewKeySaved, CreatorTypeOK, CreatorType
  <2>2. CASE creator.answer = "ok"
    <3>1. creator.own \in ToSet(db)
      <4>1. db = Append(list, creator.own)
        BY <1>15, <2>2 DEF OnNewKeySaved, CreatorCustody, CreatorSaved
      <4>2. ToSet(Append(list, creator.own)) = ToSet(list) \cup {creator.own}
        BY <1>1, <2>1, ToSetAppend
      <4>. QED
        BY <4>1, <4>2
    <3>. QED
      BY <1>2, <1>15, <2>1, <2>2, <3>1, NoCreatorProperties
      DEF OnNewKeySaved, CreatorTidy
  <2>3. CASE creator.answer = "error"
    BY <1>1, <1>2, <1>15, <2>1, <2>3, RestProperties DEF OnNewKeySaved, CreatorTidy
  <2>. QED
    BY <1>15, <2>2, <2>3 DEF OnNewKeySaved
<1>. QED
  BY <1>3, <1>4, <1>5, <1>6, <1>7, <1>8, <1>9, <1>10, <1>11, <1>12, <1>13,
     <1>14, <1>15 DEF CreatorStep, CreatorServed, CreatorHandles

\* A step of KeyCreator keeps TidyInv.
LEMMA CreatorStepTidy ==
    ASSUME WellFormed, CustodyInv, TidyInv, CreatorStep
    PROVE  TidyInv'
<1>1. creator.phase # "none" /\ WellFormed'
  BY CreatorStepWellFormed
  DEF CreatorStep, CreatorServed, CreatorHandles, LibMintsKey,
      LibExportsKey, LibDropsKey, LibRekeys, DbSavesNewKey, OnKeyCreated,
      OnKeyImported, OnKeyFailed, OnWordsExported, OnDiscarded, OnRekeyed,
      OnOldDropped, OnNewKeySaved, Waiting, Answered
<1>2. /\ opened /\ destroyer = NoDestroyer /\ changer = NoChanger
      /\ UNCHANGED <<destroyer, changer>>
      /\ VaultTypeOK /\ CreatorTypeOK /\ VaultTypeOK' /\ CreatorTypeOK'
  BY <1>1 DEF WellFormed, TypeOK, Exclusive, Idle, DestroyerTypeOK,
              ChangerTypeOK, CreatorStep
<1>3. ~ DestroyerSaved /\ ~ ChangerSaved
  BY <1>2, NoDestroyerProperties, NoChangerProperties
  DEF DestroyerSaved, ChangerSaved
<1>4. CreatorCustody
  BY <1>2, <1>3
  DEF CustodyInv, DiskAgrees, AllPast, PersistedKeysUsable, CreatorCustody
<1>5. CreatorTidy'
  BY <1>2, <1>4, CreatorTidyFrame, CreatorStepKeepsTidy
<1>6. (VaultTypeOK /\ CreatorTypeOK /\ destroyer = NoDestroyer /\ changer = NoChanger
         => (TidyInv <=> CreatorTidy))'
  BY CreatorTidyFrame, PTL
<1>. QED
  BY <1>2, <1>5, <1>6

-----------------------------------------------------------------------------

\* What TidyInv says while a destroyer is at work.
DestroyerTidy ==
    ~ leaked =>
        /\ \A f \in store : EntryOf(f) \in ToSet(db)
        /\ \/ destroyer.phase = "deleting" /\ destroyer.answer = "ok"
           \/ destroyer.phase = "saving"
           => \A f \in store :
                /\ destroyer.index # 0
                /\ EntryOf(f) # list[destroyer.index]

\* KeyDestroyer's list is saved without an entry only once its file is gone.
LEMMA DestroyerStepKeepsTidy ==
    ASSUME WellFormed, DestroyerCustody, DestroyerTidy, DestroyerStep
    PROVE  DestroyerTidy'
<1> USE DEF vaultVars
<1>1. /\ destroyer \in DestroyerType /\ VaultTypeOK /\ list \in Seq(Entry)
      /\ destroyer.phase # "none" =>
           /\ destroyer.base = list
           /\ destroyer.index \in {0} \cup DOMAIN list
  BY DEF WellFormed, TypeOK, DestroyerTypeOK, VaultTypeOK, Captured
<1>2. \A i \in DOMAIN list : list[i] \in Entry
  BY <1>1, LenProperties, ElementOfSeq
<1>3. CASE LibDeletes
  <2>1. /\ destroyer.phase = "deleting" /\ destroyer'.phase = "deleting"
        /\ destroyer'.index = destroyer.index
        /\ UNCHANGED <<db, list>>
    BY <1>1, <1>3, DestroyerHearsProperties DEF LibDeletes, Answers
  <2>2. CASE destroyer.index = 0
    <3>1. leaked \in BOOLEAN /\ DeleteEveryFile
      BY <1>1, <1>3, <2>2 DEF VaultTypeOK, LibDeletes
    <3>2. leaked' \/ store' = {}
      BY <3>1, Zenon DEF DeleteEveryFile
    <3>. QED
      BY <3>2 DEF DestroyerTidy
  <2>3. CASE destroyer.index # 0
    <3>1. /\ list[destroyer.index] \in Entry
          /\ DeletePublicKey(list[destroyer.index])
      BY <1>1, <1>2, <1>3, <2>1, <2>3 DEF LibDeletes
    <3>2. ~ leaked' => /\ ~ leaked /\ store' \subseteq store
                       /\ \A f \in store' : EntryOf(f) # list[destroyer.index]
      BY <1>1, <3>1, DeleteTidies
    <3>. QED
      BY <2>1, <2>3, <3>2 DEF DestroyerTidy
  <2>. QED
    BY <2>2, <2>3
<1>4. CASE DbSavesSpared
  <2>1. PICK answer \in {"ok", "error"} :
          /\ SaveWalletList(Spared(destroyer.base), answer)
          /\ destroyer' = DestroyerHears(answer)
    BY <1>4 DEF DbSavesSpared
  <2>2. /\ destroyer.phase = "saving" /\ destroyer.answer = "pending"
        /\ destroyer.base = list /\ db = list
        /\ destroyer'.phase = "saving" /\ destroyer'.index = destroyer.index
        /\ UNCHANGED <<store, list, leaked>>
    BY <1>1, <1>4, <2>1, DestroyerHearsProperties
    DEF DbSavesSpared, Answers, DestroyerCustody, DestroyerSaved
  <2>3. ~ leaked => \A f \in store : EntryOf(f) \in ToSet(db')
    <3>1. SUFFICES ASSUME ~ leaked, NEW f \in store, db' = Spared(list)
                   PROVE  EntryOf(f) \in ToSet(db')
      BY <2>1, <2>2 DEF SaveWalletList, DestroyerTidy
    <3>2. /\ EntryOf(f) \in ToSet(list) /\ destroyer.index # 0
          /\ EntryOf(f) # list[destroyer.index]
      BY <2>2, <3>1 DEF DestroyerTidy
    <3>3. PICK i \in DOMAIN list : EntryOf(f) = list[i]
      BY <3>2 DEF ToSet
    <3>4. destroyer.index \in DOMAIN list /\ i # destroyer.index
      BY <1>1, <2>2, <3>2, <3>3
    <3>5. list[i] \in ToSet(RemoveAt(list, destroyer.index))
      BY <1>1, <3>4, RemoveAtKeepsOthers
    <3>. QED
      BY <3>1, <3>2, <3>3, <3>5 DEF Spared
  <2>. QED
    BY <2>2, <2>3 DEF DestroyerTidy
<1>5. CASE OnDeleted
  <2>1. /\ destroyer.phase = "deleting" /\ destroyer.answer = "ok"
        /\ destroyer'.index = destroyer.index
        /\ UNCHANGED <<store, db, list, leaked>>
    BY <1>1, <1>5 DEF OnDeleted, DestroyerType
  <2>. QED
    BY <2>1 DEF DestroyerTidy
<1>6. CASE OnSparedSaved
  BY <1>6, NoDestroyerProperties DEF OnSparedSaved, DestroyerTidy
<1>. QED
  BY <1>3, <1>4, <1>5, <1>6 DEF DestroyerStep, DestroyerServed, DestroyerHandles

\* With a destroyer at work, or none, TidyInv is DestroyerTidy.
LEMMA DestroyerTidyFrame ==
    WellFormed /\ CustodyInv /\ opened /\ creator = NoCreator /\ changer = NoChanger
      => (TidyInv <=> DestroyerTidy)
<1> SUFFICES ASSUME WellFormed, CustodyInv, opened,
                    creator = NoCreator, changer = NoChanger
             PROVE  TidyInv <=> DestroyerTidy
  OBVIOUS
<1>0. /\ VaultTypeOK
      /\ destroyer.phase # "none" => destroyer.index \in {0} \cup DOMAIN list
      /\ \A i \in DOMAIN db : \E j \in DOMAIN list : db[i] = list[j]
  <2>1. /\ VaultTypeOK /\ list \in Seq(Entry)
        /\ destroyer.phase # "none" => destroyer.index \in {0} \cup DOMAIN list
    BY DEF WellFormed, TypeOK, VaultTypeOK, DestroyerTypeOK, Captured
  <2>2. ~ CreatorSaved /\ ~ ChangerSaved
    BY NoCreatorProperties, NoChangerProperties
    DEF CreatorSaved, Answered, ChangerSaved
  <2>3. db = list \/ (destroyer.phase # "none" /\ db = Spared(list))
    BY <2>2 DEF CustodyInv, DiskAgrees, DestroyerSaved
  <2>. QED
    BY <2>1, <2>3, SparedProperties
<1>1. /\ changer.phase = "none" /\ creator.phase = "none"
      /\ Known = ToSet(db) \cup {NoEntry}
  BY NoChangerProperties, NoCreatorProperties DEF Known, ToSet
<1>2. NoStraySecrets <=>
        (~ leaked => \A f \in store : EntryOf(f) \in ToSet(db))
  BY <1>0, <1>1, EntryOfProperties DEF NoStraySecrets
<1>3. \A i \in DOMAIN list : list[i] \in Entry
  BY <1>0, LenProperties, ElementOfSeq DEF VaultTypeOK
<1>4. \A f \in store : EntryOf(f) \in ToSet(db) => \E i \in DOMAIN list : EntryOf(f) = list[i]
  BY <1>0 DEF ToSet
<1>5. \A i \in DOMAIN list : Holds(list[i]) <=> \E f \in store : EntryOf(f) = list[i]
  BY <1>0, <1>3, EntryOfProperties DEF Holds
<1>. QED
  BY <1>0, <1>1, <1>2, <1>3, <1>4, <1>5 DEF TidyInv, DestroyerTidy, GoneBeforeForgotten

\* A step of KeyDestroyer keeps TidyInv.
LEMMA DestroyerStepTidy ==
    ASSUME WellFormed, CustodyInv, TidyInv, DestroyerStep
    PROVE  TidyInv'
<1>1. WellFormed' /\ CustodyInv' /\ destroyer.phase # "none"
  BY DestroyerStepWellFormed, DestroyerStepCustody
  DEF WellFormed, TypeOK, DestroyerTypeOK, DestroyerStep, DestroyerServed,
      DestroyerHandles, LibDeletes, DbSavesSpared, OnDeleted, OnSparedSaved
<1>2. /\ opened /\ creator = NoCreator /\ changer = NoChanger
      /\ UNCHANGED <<creator, changer, opened>>
  BY <1>1 DEF WellFormed, TypeOK, Exclusive, Idle, CreatorTypeOK,
              ChangerTypeOK, DestroyerStep
<1>3. ~ CreatorSaved /\ ~ ChangerSaved /\ changer.phase # "rollforward"
  BY <1>2, NoCreatorProperties, NoChangerProperties
  DEF CreatorSaved, Answered, ChangerSaved
<1>4. DestroyerCustody
  BY <1>2, <1>3
  DEF CustodyInv, DiskAgrees, AllPast, ListedKeysUsable, DestroyerCustody
<1>5. DestroyerTidy'
  BY <1>2, <1>4, DestroyerTidyFrame, DestroyerStepKeepsTidy
<1>6. (WellFormed /\ CustodyInv /\ opened /\ creator = NoCreator
         /\ changer = NoChanger => (TidyInv <=> DestroyerTidy))'
  BY DestroyerTidyFrame, PTL
<1>. QED
  BY <1>1, <1>2, <1>5, <1>6

-----------------------------------------------------------------------------

\* What TidyInv says while a changer is at work.
ChangerTidy ==
    ~ leaked =>
        /\ \A f \in store :
              EntryOf(f) \in ToSet(db) \cup {changer.got, changer.victim}
                                \cup ToSet(changer.entries) \cup ToSet(changer.fresh)
        /\ changer.phase \in {"rollback", "rollforward"} /\ changer.answer = "ok" =>
              \A f \in store : EntryOf(f) # changer.victim

\* With a changer at work TidyInv is ChangerTidy.
LEMMA ChangerTidyFrame ==
    VaultTypeOK /\ ChangerTypeOK /\ creator = NoCreator /\ destroyer = NoDestroyer
      => (TidyInv <=> ChangerTidy)
<1> SUFFICES ASSUME VaultTypeOK, ChangerTypeOK,
                    creator = NoCreator, destroyer = NoDestroyer
             PROVE  TidyInv <=> ChangerTidy
  OBVIOUS
<1>1. /\ creator.phase = "none" /\ destroyer.phase = "none"
      /\ creator.own = NoEntry /\ creator.got = NoEntry
  BY NoCreatorProperties, NoDestroyerProperties
<1>2. NoStraySecrets <=>
        (~ leaked => \A f \in store :
            EntryOf(f) \in ToSet(db) \cup {changer.got, changer.victim}
                              \cup ToSet(changer.entries) \cup ToSet(changer.fresh))
  BY <1>1, EntryOfProperties DEF NoStraySecrets, Known
<1>3. GoneBeforeForgotten <=>
        (~ leaked =>
           (changer.phase \in {"rollback", "rollforward"} /\ changer.answer = "ok" =>
              \A f \in store : EntryOf(f) # changer.victim))
  <2>1. changer.phase \in {"rollback", "rollforward"} => changer.victim \in Entry
    BY DEF ChangerTypeOK, ChangerType
  <2>. QED
    BY <1>1, <2>1, EntryOfProperties DEF GoneBeforeForgotten, Holds
<1>. QED
  BY <1>2, <1>3 DEF TidyInv, ChangerTidy

\* PasswordChanger deletes each file it gives up, the new ones or the old ones.
LEMMA ChangerStepKeepsTidy ==
    ASSUME WellFormed, ChangerCustody, ChangerTidy, ChangerStep
    PROVE  ChangerTidy'
<1> USE DEF vaultVars
<1>1. /\ ChangerTypeOK /\ changer \in ChangerType /\ CapturedByChanger
      /\ VaultTypeOK /\ db \in Seq(Entry) /\ list \in Seq(Entry)
      /\ changer.entries \in Seq(Entry) /\ changer.fresh \in Seq(Entry)
  BY DEF WellFormed, TypeOK, ChangerTypeOK, ChangerType, VaultTypeOK, Captured
<1>2. \A f \in store : EntryOf(f) # NoEntry
  BY <1>1, EntryOfProperties
<1>3. CASE LibChangesPassword
  <2>1. /\ changer.phase = "changing" /\ changer.answer = "pending"
        /\ changer.got = NoEntry /\ UNCHANGED <<db, leaked>>
    BY <1>1, <1>3 DEF LibChangesPassword, ChangerTypeOK
  <2>2. CASE changer' = ChangerHears("error") /\ UNCHANGED <<store, minted>>
    BY <1>1, <2>1, <2>2, ChangerHearsProperties DEF ChangerTidy, Answers
  <2>3. CASE /\ Mint(Current.pub, changer.new)
             /\ changer' = ChangerHearsKey(NextEntry(Current.pub))
    <3>1. NextEntry(Current.pub) \in Entry
      <4>1. Current \in Entry /\ changer.new \in Passwords
        <5>1. /\ Len(changer.fresh) + 1 \in 1..Len(changer.entries)
              /\ changer.new \in Passwords
          BY <1>1, <2>1, LenProperties DEF ChangerTypeOK
        <5>. QED
          BY <1>1, <5>1, ElementOfSeq DEF Current
      <4>2. Current.pub \in Keys
        BY <4>1 DEF Entry
      <4>. QED
        BY <1>1, <2>3, <4>1, <4>2, MintProperties
    <3>2. /\ changer'.phase = changer.phase /\ changer'.entries = changer.entries
          /\ changer'.fresh = changer.fresh /\ changer'.victim = changer.victim
          /\ changer'.got = NextEntry(Current.pub)
      BY <1>1, <2>3, <3>1, ChangerHearsKeyProperties
    <3>3. \A f \in store' : f \in store \/ EntryOf(f) = NextEntry(Current.pub)
      BY <2>3, MintTidies
    <3>. QED
      BY <1>2, <2>1, <3>2, <3>3 DEF ChangerTidy
  <2>. QED
    BY <1>3, <2>2, <2>3 DEF LibChangesPassword
<1>4. CASE DbSavesNewSecrets
  <2>1. PICK answer \in {"ok", "error"} :
          /\ SaveWalletList(changer.fresh, answer)
          /\ changer' = ChangerHears(answer)
    BY <1>4 DEF DbSavesNewSecrets
  <2>2. /\ changer.phase = "saving" /\ changer.answer = "pending"
        /\ changer.entries = list /\ db = list /\ UNCHANGED <<store, leaked>>
    BY <1>1, <1>4
    DEF DbSavesNewSecrets, CapturedByChanger, ChangerCustody, ChangerSaved
  <2>3. /\ changer'.phase = "saving" /\ changer'.entries = changer.entries
        /\ changer'.fresh = changer.fresh /\ changer'.victim = changer.victim
        /\ changer'.got = changer.got
    BY <1>1, <2>1, <2>2, ChangerHearsProperties DEF Answers
  <2>. QED
    BY <2>2, <2>3 DEF ChangerTidy
<1>5. CASE LibDeletesVictim
  <2>1. changer.victim \in Entry /\ DeletePublicKey(changer.victim) /\ UNCHANGED db
    BY <1>1, <1>5 DEF LibDeletesVictim, ChangerTypeOK, ChangerType
  <2>2. /\ changer'.victim = changer.victim /\ changer'.got = changer.got
        /\ changer'.entries = changer.entries /\ changer'.fresh = changer.fresh
    BY <1>1, <1>5, ChangerHearsProperties DEF LibDeletesVictim, Answers
  <2>3. ~ leaked' => /\ ~ leaked /\ store' \subseteq store
                     /\ \A f \in store' : EntryOf(f) # changer.victim
    BY <1>1, <2>1, DeleteTidies
  <2>. QED
    BY <2>1, <2>2, <2>3 DEF ChangerTidy
<1>6. CASE SavedNext
  <2>1. /\ changer.got \in Entry /\ changer.got # NoEntry
        /\ UNCHANGED <<store, db, leaked>>
    BY <1>1, <1>6 DEF SavedNext, ChangerTypeOK, ChangerType
  <2>2. /\ changer'.phase \in {"changing", "saving"}
        /\ changer'.entries = changer.entries
        /\ changer'.fresh = Append(changer.fresh, changer.got)
        /\ changer'.victim = changer.victim
    BY <1>1, <1>6, <2>1, CollectProperties DEF SavedNext, ChangerPhases
  <2>3. ToSet(changer'.fresh) = ToSet(changer.fresh) \cup {changer.got}
    BY <1>1, <2>1, <2>2, ToSetAppend
  <2>. QED
    BY <2>1, <2>2, <2>3 DEF ChangerTidy
<1>7. CASE Rollback
  <2>1. /\ ~ ChangerSaved /\ changer.entries = list /\ changer.got = NoEntry
        /\ db = list /\ UNCHANGED <<store, db, leaked>>
        /\ \/ changer.victim = NoEntry
           \/ changer.phase = "rollback" /\ changer.answer = "ok"
    BY <1>1, <1>7
    DEF Rollback, ChangerCustody, ChangerSaved, ChangerTypeOK, CapturedByChanger
  <2>2. CASE changer.fresh = <<>>
    <3>1. changer' = NoChanger /\ ToSet(changer.fresh) = {}
      BY <1>7, <2>2 DEF Rollback, ToSet
    <3>. QED
      BY <1>2, <2>1, <3>1, NoChangerProperties DEF ChangerTidy
  <2>3. CASE changer.fresh # <<>>
    <3>1. /\ changer'.phase = "rollback" /\ changer'.answer = "pending"
          /\ changer'.entries = changer.entries
          /\ changer'.fresh = Front(changer.fresh)
          /\ changer'.victim = Last(changer.fresh)
      BY <1>1, <1>7, <2>3, UndoLastProperties DEF Rollback
    <3>2. ToSet(changer.fresh) = ToSet(changer'.fresh) \cup {changer'.victim}
      BY <1>1, <2>3, <3>1, ToSetFrontLast
    <3>. QED
      BY <1>2, <2>1, <3>1, <3>2 DEF ChangerTidy
  <2>. QED
    BY <2>2, <2>3
<1>8. CASE Rollforward
  <2>1. /\ db = changer.fresh /\ changer.got = NoEntry
        /\ UNCHANGED <<store, db, leaked>>
        /\ \/ changer.victim = NoEntry
           \/ changer.phase = "rollforward" /\ changer.answer = "ok"
    BY <1>1, <1>8 DEF Rollforward, ChangerCustody, ChangerSaved, ChangerTypeOK
  <2>2. CASE changer.entries = <<>>
    <3>1. changer' = NoChanger /\ ToSet(changer.entries) = {}
      BY <1>8, <2>2 DEF Rollforward, ToSet
    <3>. QED
      BY <1>2, <2>1, <3>1, NoChangerProperties DEF ChangerTidy
  <2>3. CASE changer.entries # <<>>
    <3>1. /\ changer'.phase = "rollforward" /\ changer'.answer = "pending"
          /\ changer'.entries = Front(changer.entries)
          /\ changer'.fresh = changer.fresh
          /\ changer'.victim = Last(changer.entries)
      BY <1>1, <1>8, <2>3, DropLastOldProperties DEF Rollforward
    <3>2. ToSet(changer.entries) = ToSet(changer'.entries) \cup {changer'.victim}
      BY <1>1, <2>3, <3>1, ToSetFrontLast
    <3>. QED
      BY <1>2, <2>1, <3>1, <3>2 DEF ChangerTidy
  <2>. QED
    BY <2>2, <2>3
<1>. QED
  BY <1>3, <1>4, <1>5, <1>6, <1>7, <1>8
  DEF ChangerStep, ChangerServed, ChangerHandles

\* A step of PasswordChanger keeps TidyInv.
LEMMA ChangerStepTidy ==
    ASSUME WellFormed, CustodyInv, TidyInv, ChangerStep
    PROVE  TidyInv'
<1>1. changer.phase # "none" /\ WellFormed'
  BY ChangerStepWellFormed
  DEF ChangerStep, ChangerServed, ChangerHandles, LibChangesPassword,
      DbSavesNewSecrets, LibDeletesVictim, SavedNext, Rollback, Rollforward
<1>2. /\ opened /\ creator = NoCreator /\ destroyer = NoDestroyer
      /\ UNCHANGED <<creator, destroyer>>
      /\ VaultTypeOK /\ ChangerTypeOK /\ VaultTypeOK' /\ ChangerTypeOK'
  BY <1>1 DEF WellFormed, TypeOK, Exclusive, Idle, CreatorTypeOK,
              DestroyerTypeOK, ChangerStep
<1>3. ~ CreatorSaved /\ ~ DestroyerSaved
  BY <1>2, NoCreatorProperties, NoDestroyerProperties
  DEF CreatorSaved, Answered, DestroyerSaved
<1>4. ChangerCustody
  BY <1>2, <1>3 DEF CustodyInv, DiskAgrees, AllPast, ChangerCustody
<1>5. ChangerTidy'
  BY <1>2, <1>4, ChangerTidyFrame, ChangerStepKeepsTidy
<1>6. (VaultTypeOK /\ ChangerTypeOK /\ creator = NoCreator /\ destroyer = NoDestroyer
         => (TidyInv <=> ChangerTidy))'
  BY ChangerTidyFrame, PTL
<1>. QED
  BY <1>2, <1>5, <1>6

-----------------------------------------------------------------------------

\* What the user asks for keeps TidyInv: nothing is created or given up yet.
LEMMA UserTidy ==
    ASSUME WellFormed, CustodyInv, TidyInv, User
    PROVE  TidyInv'
<1>1. UNCHANGED <<store, minted, db, list, leaked>>
  BY DEF User, CreateKey, ImportKey, SaveKey, DeleteKey, DeleteAllKeys,
         ChangePassword, vaultVars
<1>2. /\ creator'.own = creator.own /\ creator'.got = creator.got
      /\ creator' = creator \/ creator'.answer = "pending"
  <2>1. CASE CreateKey \/ ImportKey
    <3>1. creator = NoCreator
      BY <2>1 DEF CreateKey, ImportKey, Idle, WellFormed, TypeOK, CreatorTypeOK
    <3>. QED
      BY <2>1, <3>1 DEF CreateKey, ImportKey, StartCreator, NoCreator
  <2>2. ASSUME NEW p \in Passwords, SaveKey(p)
        PROVE  /\ creator'.own = creator.own /\ creator'.got = creator.got
               /\ creator'.answer = "pending"
    <3>1. creator \in CreatorType
      BY DEF WellFormed, TypeOK, CreatorTypeOK
    <3>. QED
      BY <2>2, <3>1, AskProperties DEF SaveKey, Save, Ask, CreatorType, CreatorPhases
  <2>. QED
    BY <2>1, <2>2 DEF User, DeleteKey, DeleteAllKeys, ChangePassword
<1>3. \/ UNCHANGED changer
      \/ /\ changer = NoChanger /\ changer'.phase = "changing"
         /\ changer'.got = NoEntry /\ changer'.victim = NoEntry
  <2>1. ASSUME NEW old \in Passwords, NEW new \in Passwords, ChangePassword(old, new)
        PROVE  /\ changer = NoChanger /\ changer'.phase = "changing"
               /\ changer'.got = NoEntry /\ changer'.victim = NoEntry
    BY <2>1 DEF ChangePassword, StartChanger, NoChanger, Idle, WellFormed,
                TypeOK, ChangerTypeOK
  <2>. QED
    BY <2>1 DEF User, CreateKey, ImportKey, SaveKey, DeleteKey, DeleteAllKeys
<1>4. \/ UNCHANGED destroyer
      \/ destroyer'.phase = "deleting" /\ destroyer'.answer = "pending"
  BY DEF User, CreateKey, ImportKey, SaveKey, DeleteKey, DeleteAllKeys,
         ChangePassword, StartDestroyer
<1>5. NoStraySecrets'
  <2>1. /\ ToSet(changer.fresh) \subseteq ToSet(changer'.fresh)
        /\ ToSet(changer.entries) \subseteq ToSet(changer'.entries)
        /\ changer'.got \in {changer.got, NoEntry}
        /\ changer.got \in {changer'.got, NoEntry}
        /\ changer.victim \in {changer'.victim, NoEntry}
    BY <1>3, NoChangerProperties DEF ToSet
  <2>2. VaultTypeOK
    BY DEF WellFormed, TypeOK
  <2>3. \A f \in store : EntryOf(f) \in Known => EntryOf(f) \in Known'
    BY <1>1, <1>2, <2>1, <2>2, EntryOfProperties DEF Known, ToSet
  <2>. QED
    BY <1>1, <2>3 DEF TidyInv, NoStraySecrets, EntryOf
<1>6. GoneBeforeForgotten'
  BY <1>1, <1>2, <1>3, <1>4 DEF TidyInv, GoneBeforeForgotten, Holds
<1>. QED
  BY <1>5, <1>6 DEF TidyInv

\* A crash keeps TidyInv: it forgets what was at work, or there was nothing.
LEMMA CrashTidy ==
    ASSUME WellFormed, CustodyInv, TidyInv, Crash
    PROVE  TidyInv'
<1>1. leaked \in BOOLEAN /\ VaultTypeOK
  BY DEF WellFormed, TypeOK, VaultTypeOK
<1>2. /\ creator' = NoCreator /\ destroyer' = NoDestroyer
      /\ changer' = NoChanger /\ UNCHANGED <<store, db>>
  BY DEF Crash
<1>3. ~ leaked' => ~ leaked /\ Idle
  BY <1>1, Zenon DEF Crash
<1>4. Idle => /\ creator = NoCreator /\ changer = NoChanger
  BY DEF Idle, WellFormed, TypeOK, CreatorTypeOK, ChangerTypeOK
<1>5. NoStraySecrets'
  BY <1>2, <1>3, <1>4 DEF TidyInv, NoStraySecrets, Known, EntryOf
<1>. QED
  BY <1>2, <1>5, NoCreatorProperties, NoDestroyerProperties, NoChangerProperties
  DEF TidyInv, GoneBeforeForgotten

\* Opening the wallet again keeps TidyInv.
LEMMA OpenTidy ==
    ASSUME WellFormed, CustodyInv, TidyInv, Open
    PROVE  TidyInv'
<1>1. /\ UNCHANGED <<store, db, leaked, creator, destroyer, changer>>
      /\ destroyer.phase = "none"
  BY DEF WellFormed, Exclusive, Idle, Open
<1>. QED
  BY <1>1 DEF TidyInv, NoStraySecrets, Known, EntryOf, GoneBeforeForgotten, Holds

\* TidyInv is inductive, given CustodyInv.
LEMMA NextTidy ==
    WellFormed /\ CustodyInv /\ TidyInv /\ [Next]_vars => TidyInv'
<1> SUFFICES ASSUME WellFormed, CustodyInv, TidyInv, [Next]_vars
             PROVE  TidyInv'
  OBVIOUS
<1>1. CASE Next
  BY <1>1, UserTidy, CreatorStepTidy, DestroyerStepTidy, ChangerStepTidy,
     CrashTidy, OpenTidy DEF Next
<1>2. CASE UNCHANGED vars
  BY <1>2 DEF vars, vaultVars, TidyInv, NoStraySecrets, Known, EntryOf,
              GoneBeforeForgotten, Holds
<1>. QED
  BY <1>1, <1>2

\* A new key file, an old one and one of a failed operation all go when nobody
\* needs them: without a failed deletion or a crash in the middle, tonlib keeps
\* no file that neither the list nor an operation at work knows of.
THEOREM NoSecretIsLeftBehind == Spec => []NoStraySecrets
<1>1. Init => WellFormed /\ CustodyInv /\ TidyInv
  <2>1. Init => TidyInv
    BY NoCreatorProperties, NoDestroyerProperties, NoChangerProperties
    DEF Init, VaultInit, CreatorInit, DestroyerInit, ChangerInit, TidyInv,
        NoStraySecrets, GoneBeforeForgotten
  <2>. QED
    BY <2>1, InitWellFormed, InitCustody
<1>2. WellFormed /\ CustodyInv /\ TidyInv /\ [Next]_vars
        => (WellFormed /\ CustodyInv /\ TidyInv)'
  BY NextWellFormed, NextCustody, NextTidy
<1>3. TidyInv => NoStraySecrets
  BY DEF TidyInv
<1>. QED
  BY <1>1, <1>2, <1>3, PTL DEF Spec

-----------------------------------------------------------------------------
\* Steps.

\* PasswordChanger ends in the handler of its last answer.
LEMMA ChangerEnds ==
    ASSUME WellFormed, CustodyInv, Next,
           changer.phase # "none", changer'.phase = "none", opened'
    PROVE  /\ list' = db'
           /\ \/ \A i \in DOMAIN list' : File(list'[i], changer.new) \in store'
              \/ list' = changer.entries
<1>1. ChangerStep
  <2>1. ~ Crash /\ ~ Open
    BY DEF Crash, Open, WellFormed, Exclusive, Idle
  <2>2. ~ User
    BY DEF User, CreateKey, ImportKey, SaveKey, DeleteKey, DeleteAllKeys,
           ChangePassword, Idle
  <2>3. ~ CreatorStep /\ ~ DestroyerStep
    BY DEF CreatorStep, DestroyerStep
  <2>. QED
    BY <2>1, <2>2, <2>3 DEF Next
<1>2. /\ changer \in ChangerType /\ ChangerTypeOK /\ CapturedByChanger
      /\ list \in Seq(Entry) /\ changer.fresh \in Seq(Entry)
      /\ opened /\ ~ CreatorSaved /\ ~ DestroyerSaved
  BY DEF WellFormed, TypeOK, VaultTypeOK, ChangerTypeOK, ChangerType, Captured,
         Exclusive, Idle, CreatorSaved, DestroyerSaved, Answered
<1>3. CASE Rollback
  <2>1. /\ changer' = NoChanger /\ UNCHANGED <<list, db>>
    BY <1>2, <1>3, UndoLastProperties DEF Rollback, vaultVars
  <2>2. /\ ~ ChangerSaved /\ changer.entries = list
    BY <1>2, <1>3 DEF Rollback, ChangerSaved, CapturedByChanger
  <2>. QED
    BY <1>2, <2>1, <2>2 DEF CustodyInv, DiskAgrees
<1>4. CASE Rollforward
  <2>1. /\ changer.entries = <<>> /\ UNCHANGED <<db, store>>
        /\ list' = [i \in DOMAIN list |->
                      [list[i] EXCEPT !.secret = changer.fresh[i].secret]]
    BY <1>2, <1>4, DropLastOldProperties DEF Rollforward
  <2>2. /\ db = changer.fresh /\ Len(changer.fresh) = Len(list)
        /\ \A i \in DOMAIN changer.fresh : Opens(changer.fresh[i], changer.new)
    BY <1>2, <1>4
    DEF Rollforward, CustodyInv, DiskAgrees, ChangerSaved, ChangerTypeOK,
        CapturedByChanger, ChangerHoldsKeys
  <2>3. list' = changer.fresh
    BY <1>2, <2>1, <2>2, NewSecretsProperties DEF CapturedByChanger
  <2>. QED
    BY <2>1, <2>2, <2>3 DEF Opens
<1>5. CASE LibChangesPassword \/ DbSavesNewSecrets \/ LibDeletesVictim
  <2>1. PICK c \in ChangerType : changer' = c /\ c.phase = changer.phase
    <3>1. CASE DbSavesNewSecrets \/ LibDeletesVictim
      BY <1>2, <3>1, ChangerHearsProperties
      DEF DbSavesNewSecrets, LibDeletesVictim, Answers
    <3>2. CASE LibChangesPassword
      BY <1>2, <3>2 DEF LibChangesPassword, ChangerHears, ChangerHearsKey, ChangerType,
                        Answers, NextEntry, Entry, Mint
    <3>. QED
      BY <1>5, <3>1, <3>2
  <2>. QED
    BY <2>1
<1>6. CASE SavedNext
  <2>1. changer'.phase \in {"changing", "saving"}
    BY <1>2, <1>6, CollectProperties DEF SavedNext, ChangerTypeOK, ChangerPhases
  <2>. QED
    BY <2>1
<1>. QED
  BY <1>1, <1>3, <1>4, <1>5, <1>6 DEF ChangerStep, ChangerServed, ChangerHandles

\* A change of passwords ends with memory and disk agreeing on keys that all
\* open with the new password, or on the very entries it began with.
THEOREM PasswordsChangeTogether == Spec => PasswordChangeAtomic
<1>1. WellFormed /\ CustodyInv /\ [Next]_vars =>
        [(changer.phase # "none" /\ changer'.phase = "none" /\ opened') =>
          /\ list' = db'
          /\ \/ \A i \in DOMAIN list' : File(list'[i], changer.new) \in store'
             \/ list' = changer.entries]_vars
  BY ChangerEnds
<1>2. WellFormed /\ CustodyInv /\ [Next]_vars => (WellFormed /\ CustodyInv)'
  BY NextWellFormed, NextCustody
<1>3. Init => WellFormed /\ CustodyInv
  BY InitWellFormed, InitCustody
<1>. QED
  BY <1>1, <1>2, <1>3, PTL DEF Spec, PasswordChangeAtomic

-----------------------------------------------------------------------------
\* What KeyCustody rests on.

\* A step adds one new file, or some files go.
LEMMA StoreMoves ==
    ASSUME WellFormed, [Next]_vars
    PROVE  \/ store' \subseteq store /\ minted' = minted
           \/ \E k, p : Mint(k, p)
<1> USE DEF vaultVars
<1>1. CASE User \/ Crash \/ Open \/ UNCHANGED vars
  BY <1>1 DEF User, CreateKey, ImportKey, SaveKey, DeleteKey, DeleteAllKeys,
              ChangePassword, Crash, Open, vars
<1>2. CASE CreatorStep
  BY <1>2 DEF CreatorStep, CreatorServed, CreatorHandles, LibMintsKey,
      LibExportsKey, LibDropsKey, LibRekeys, DbSavesNewKey, OnKeyCreated,
      OnKeyImported, OnKeyFailed, OnWordsExported, OnDiscarded, OnRekeyed,
      OnOldDropped, OnNewKeySaved, DeletePublicKey
<1>3. CASE DestroyerStep
  BY <1>3 DEF DestroyerStep, DestroyerServed, DestroyerHandles, LibDeletes,
      DbSavesSpared, OnDeleted, OnSparedSaved, DeletePublicKey, DeleteEveryFile
<1>4. CASE ChangerStep
  BY <1>4 DEF ChangerStep, ChangerServed, ChangerHandles, LibChangesPassword,
      DbSavesNewSecrets, LibDeletesVictim, SavedNext, Rollback, Rollforward,
      DeletePublicKey
<1>. QED
  BY <1>1, <1>2, <1>3, <1>4 DEF Next

\* Each secret keeps its one file.
LEMMA FilesStayDistinct ==
    ASSUME WellFormed, FilesDistinct, [Next]_vars
    PROVE  FilesDistinct'
<1>1. minted \in Nat /\ \A f \in store : f.secret \in Nat
  BY DEF WellFormed, TypeOK, VaultTypeOK, KeyFile
<1>2. CASE store' \subseteq store /\ minted' = minted
  BY <1>2 DEF FilesDistinct
<1>3. ASSUME NEW k, NEW p, Mint(k, p)
      PROVE  FilesDistinct'
  <2>1. /\ minted' = minted + 1
        /\ store' = store \cup {File(NextEntry(k), p)}
        /\ File(NextEntry(k), p).secret = minted
    BY <1>3 DEF Mint, File, NextEntry
  <2>. QED
    BY <1>1, <2>1 DEF FilesDistinct
<1>. QED
  BY <1>2, <1>3, StoreMoves

\* The key a creator has comes from the one it got, and that one is new.
LEMMA CreatorGets ==
    ASSUME WellFormed, CreatorStep
    PROVE  /\ creator'.own \in {creator.own, creator.got, NoEntry}
           /\ \/ creator'.got \in {creator.got, NoEntry}
              \/ /\ creator'.got.secret = minted /\ creator'.got \in Entry
                 /\ minted' = minted + 1
           /\ UNCHANGED doomed
<1> USE DEF vaultVars, Waiting, Answered, OwningPhases, CreatorPhases
<1>1. /\ CreatorTypeOK /\ creator \in CreatorType /\ VaultTypeOK
  BY DEF WellFormed, TypeOK, CreatorTypeOK
<1>2. ASSUME NEW k \in Keys, NEW p \in Passwords \cup {LocalPassword}, Mint(k, p),
             creator' = CreatorHearsKey(NextEntry(k))
      PROVE  /\ creator'.own = creator.own /\ creator'.got \in Entry
             /\ creator'.got.secret = minted /\ minted' = minted + 1
  BY <1>1, <1>2, MintProperties, CreatorHearsKeyProperties DEF Mint
<1>3. CASE LibMintsKey
  <2>1. creator.pw \in Passwords \cup {LocalPassword}
    BY <1>1 DEF CreatorType
  <2>. QED
    BY <1>1, <1>2, <1>3, <2>1, CreatorHearsProperties DEF LibMintsKey, Answers
<1>4. CASE LibRekeys
  <2>1. /\ creator.own.pub \in Keys
        /\ creator.target \in Passwords \cup {LocalPassword}
    BY <1>1, <1>4 DEF LibRekeys, CreatorTypeOK, CreatorType, Entry
  <2>. QED
    BY <1>1, <1>2, <1>4, <2>1, CreatorHearsProperties DEF LibRekeys, Answers
<1>5. CASE LibExportsKey \/ LibDropsKey \/ DbSavesNewKey
  <2>1. PICK answer \in {"ok", "error"} : creator' = CreatorHears(answer)
    BY <1>5 DEF LibExportsKey, LibDropsKey, DbSavesNewKey
  <2>. QED
    BY <1>1, <1>5, <2>1, CreatorHearsProperties
    DEF LibExportsKey, LibDropsKey, DbSavesNewKey, Answers
<1>6. CASE OnKeyCreated \/ OnKeyImported \/ OnOldDropped
  BY <1>1, <1>6 DEF OnKeyCreated, OnKeyImported, OnOldDropped, Ask, Rest, CreatorType
<1>7. CASE OnKeyFailed \/ OnDiscarded
  BY <1>7, NoCreatorProperties DEF OnKeyFailed, OnDiscarded
<1>8. CASE OnWordsExported \/ OnRekeyed
  BY <1>1, <1>8, AskProperties, RestProperties DEF OnWordsExported, OnRekeyed
<1>9. CASE OnNewKeySaved
  BY <1>1, <1>9, RestProperties, NoCreatorProperties DEF OnNewKeySaved
<1>. QED
  BY <1>3, <1>4, <1>5, <1>6, <1>7, <1>8, <1>9
  DEF CreatorStep, CreatorServed, CreatorHandles

\* KeyCreator's key is newer than what is doomed, and no password is changing.
LEMMA CreatorStepLocks ==
    ASSUME WellFormed, LocksInv, CreatorStep
    PROVE  NewcomersNotDoomed' /\ OldKeysOpen'
<1>1. /\ doomed \in SUBSET Entry /\ minted \in Nat
      /\ \A e \in Entry : e.secret \in Nat
  BY DEF WellFormed, TypeOK, VaultTypeOK, Entry
<1>2. minted' \in Nat /\ minted' >= minted
  BY <1>1, StoreMoves DEF Next, Mint
<1>3. creator.phase # "none"
  BY DEF CreatorStep, CreatorServed, CreatorHandles, LibMintsKey, LibExportsKey,
         LibDropsKey, LibRekeys, DbSavesNewKey, OnKeyCreated, OnKeyImported,
         OnKeyFailed, OnWordsExported, OnDiscarded, OnRekeyed, OnOldDropped,
         OnNewKeySaved, Waiting, Answered
<1>4. changer' = NoChanger /\ changer = NoChanger
  BY <1>3 DEF CreatorStep, WellFormed, TypeOK, ChangerTypeOK, Exclusive
<1>5. NewcomersNotDoomed'
  BY <1>1, <1>2, <1>4, CreatorGets, NoEntryAssumption, NoChangerProperties
  DEF LocksInv, NewcomersNotDoomed
<1>. QED
  BY <1>4, <1>5, NoChangerProperties DEF OldKeysOpen

\* KeyDestroyer mints no key and condemns none.
LEMMA DestroyerStepLocks ==
    ASSUME WellFormed, LocksInv, DestroyerStep
    PROVE  NewcomersNotDoomed' /\ OldKeysOpen'
<1>1. UNCHANGED <<creator, changer, doomed, minted>>
  BY DEF DestroyerStep, DestroyerServed, DestroyerHandles, LibDeletes,
         DbSavesSpared, OnDeleted, OnSparedSaved, vaultVars
<1>2. changer = NoChanger
  BY DEF DestroyerStep, DestroyerServed, DestroyerHandles, LibDeletes,
         DbSavesSpared, OnDeleted, OnSparedSaved, WellFormed, Exclusive, TypeOK,
         ChangerTypeOK
<1>. QED
  BY <1>1, <1>2, NoChangerProperties DEF LocksInv, NewcomersNotDoomed, OldKeysOpen

\* PasswordChanger's keys are newer than what is doomed, and it mints one only
\* for a key it could open, whose old file stays.
LEMMA ChangerStepLocks ==
    ASSUME WellFormed, LocksInv, ChangerStep
    PROVE  NewcomersNotDoomed' /\ OldKeysOpen'
<1> USE DEF vaultVars
<1>1. /\ doomed \in SUBSET Entry /\ minted \in Nat
      /\ \A e \in Entry : e.secret \in Nat
      /\ changer \in ChangerType /\ ChangerTypeOK /\ VaultTypeOK
      /\ changer.entries \in Seq(Entry) /\ changer.fresh \in Seq(Entry)
  BY DEF WellFormed, TypeOK, VaultTypeOK, Entry, ChangerTypeOK, ChangerType
<1>2. minted' \in Nat /\ minted' >= minted
  BY <1>1, StoreMoves DEF Next, Mint
<1>3. UNCHANGED <<creator, doomed>>
  BY DEF ChangerStep, ChangerServed, ChangerHandles, LibChangesPassword,
         DbSavesNewSecrets, LibDeletesVictim, SavedNext, Rollback, Rollforward
<1> USE DEF LocksInv, NewcomersNotDoomed, OldKeysOpen
<1>4. CASE LibChangesPassword
  <2>1. changer.phase = "changing" /\ changer.got = NoEntry
    BY <1>1, <1>4 DEF LibChangesPassword, ChangerTypeOK
  <2>2. CASE changer' = ChangerHears("error") /\ UNCHANGED <<store, minted>>
    BY <1>1, <1>3, <2>1, <2>2, ChangerHearsProperties DEF Answers, Usable, Opens
  <2>3. CASE /\ Opens(Current, changer.old) /\ Mint(Current.pub, changer.new)
             /\ changer' = ChangerHearsKey(NextEntry(Current.pub))
    <3>1. NextEntry(Current.pub) \in Entry /\ NextEntry(Current.pub).secret = minted
      <4>1. /\ Len(changer.fresh) + 1 \in 1..Len(changer.entries)
            /\ changer.new \in Passwords
        BY <1>1, <2>1, LenProperties DEF ChangerTypeOK
      <4>2. Current \in Entry
        BY <1>1, <4>1, ElementOfSeq DEF Current
      <4>3. Current.pub \in Keys
        BY <4>2 DEF Entry
      <4>. QED
        BY <1>1, <2>3, <4>1, <4>3, MintProperties
    <3>2. /\ changer'.phase = changer.phase /\ changer'.entries = changer.entries
          /\ changer'.fresh = changer.fresh /\ changer'.old = changer.old
          /\ changer'.got = NextEntry(Current.pub)
      BY <1>1, <2>3, <3>1, ChangerHearsKeyProperties
    <3>3. \A f \in store : f \in store'
      BY <2>3 DEF Mint
    <3>4. Current' = Current
      BY <3>2 DEF Current
    <3>5. OldKeysOpen'
      BY <2>1, <2>3, <3>2, <3>3, <3>4 DEF Usable, Opens
    <3>. QED
      BY <1>1, <1>2, <1>3, <3>1, <3>2, <3>5
  <2>. QED
    BY <1>4, <2>2, <2>3 DEF LibChangesPassword
<1>5. CASE DbSavesNewSecrets
  <2>1. PICK answer \in {"ok", "error"} : changer' = ChangerHears(answer)
    BY <1>5 DEF DbSavesNewSecrets
  <2>2. /\ changer'.phase = changer.phase /\ changer'.entries = changer.entries
        /\ changer'.fresh = changer.fresh /\ changer'.old = changer.old
        /\ changer'.got = changer.got /\ UNCHANGED <<store, minted>>
    BY <1>1, <1>5, <2>1, ChangerHearsProperties DEF Answers, DbSavesNewSecrets
  <2>. QED
    BY <1>3, <2>2 DEF Usable, Opens, Current
<1>6. CASE LibDeletesVictim
  <2>1. /\ changer'.phase = changer.phase /\ changer'.fresh = changer.fresh
        /\ changer'.got = changer.got /\ UNCHANGED minted
        /\ changer.phase \in {"rollback", "rollforward"}
    BY <1>1, <1>6, ChangerHearsProperties DEF Answers, LibDeletesVictim
  <2>. QED
    BY <1>3, <2>1
<1>7. CASE SavedNext
  <2>1. changer.phase = "changing" /\ changer.got # NoEntry /\ changer.got \in Entry
    BY <1>1, <1>7 DEF SavedNext, ChangerTypeOK, ChangerType
  <2>2. /\ changer'.entries = changer.entries /\ changer'.old = changer.old
        /\ changer'.fresh = Append(changer.fresh, changer.got)
        /\ changer'.got = NoEntry /\ UNCHANGED <<store, minted>>
    BY <1>1, <1>7, <2>1, CollectProperties DEF SavedNext, ChangerPhases
  <2>3. \A i \in DOMAIN changer'.fresh :
           \/ i \in DOMAIN changer.fresh /\ changer'.fresh[i] = changer.fresh[i]
           \/ i = Len(changer.fresh) + 1 /\ changer'.fresh[i] = changer.got
    <3>1. /\ DOMAIN changer'.fresh = 1..(Len(changer.fresh) + 1)
          /\ DOMAIN changer.fresh = 1..Len(changer.fresh) /\ Len(changer.fresh) \in Nat
          /\ \A i \in 1..Len(changer.fresh) : changer'.fresh[i] = changer.fresh[i]
          /\ changer'.fresh[Len(changer.fresh) + 1] = changer.got
      BY <1>1, <2>1, <2>2, AppendProperties, LenProperties
    <3>2. \A n \in Nat : \A i \in 1..(n + 1) : i = n + 1 \/ i \in 1..n
      OBVIOUS
    <3>. QED
      BY <3>1, <3>2, Zenon
  <2>4. Usable(changer.entries[Len(changer.fresh) + 1])
    BY <2>1 DEF Current
  <2>5. OldKeysOpen'
    BY <2>1, <2>2, <2>3, <2>4 DEF Usable, Opens
  <2>. QED
    BY <1>1, <1>3, <2>1, <2>2, <2>3, <2>5, NoEntryAssumption
<1>8. CASE Rollback
  <2>1. UNCHANGED <<store, minted>> /\ changer.got = NoEntry
    BY <1>1, <1>8 DEF Rollback, ChangerTypeOK
  <2>2. CASE changer.fresh = <<>>
    BY <1>1, <1>3, <1>8, <2>1, <2>2, NoChangerProperties DEF Rollback
  <2>3. CASE changer.fresh # <<>>
    <3>1. /\ changer'.phase = "rollback" /\ changer'.got = NoEntry
          /\ changer'.fresh = Front(changer.fresh)
      BY <1>1, <1>8, <2>1, <2>3, UndoLastProperties DEF Rollback
    <3>2. \A i \in DOMAIN changer'.fresh :
            i \in DOMAIN changer.fresh /\ changer'.fresh[i] = changer.fresh[i]
      <4>1. /\ Front(changer.fresh) \in Seq(Entry)
            /\ Len(Front(changer.fresh)) = Len(changer.fresh) - 1
            /\ \A i \in 1..(Len(changer.fresh) - 1) :
                  Front(changer.fresh)[i] = changer.fresh[i]
            /\ Len(changer.fresh) \in Nat \ {0}
        BY <1>1, <2>3, FrontLastProperties
      <4>2. /\ DOMAIN Front(changer.fresh) = 1..(Len(changer.fresh) - 1)
            /\ DOMAIN changer.fresh = 1..Len(changer.fresh)
        BY <1>1, <4>1, LenProperties
      <4>. QED
        BY <3>1, <4>1, <4>2
    <3>. QED
      BY <1>3, <2>1, <3>1, <3>2
  <2>. QED
    BY <2>2, <2>3
<1>9. CASE Rollforward
  <2>1. UNCHANGED <<store, minted>> /\ changer.got = NoEntry
    BY <1>1, <1>9 DEF Rollforward, ChangerTypeOK
  <2>2. CASE changer.entries = <<>>
    BY <1>1, <1>3, <1>9, <2>1, <2>2, NoChangerProperties DEF Rollforward
  <2>3. CASE changer.entries # <<>>
    <3>1. /\ changer'.phase = "rollforward" /\ changer'.got = NoEntry
          /\ changer'.fresh = changer.fresh
      BY <1>1, <1>9, <2>1, <2>3, DropLastOldProperties DEF Rollforward
    <3>. QED
      BY <1>3, <2>1, <3>1
  <2>. QED
    BY <2>2, <2>3
<1>. QED
  BY <1>4, <1>5, <1>6, <1>7, <1>8, <1>9
  DEF ChangerStep, ChangerServed, ChangerHandles

\* What the user asks for condemns only entries of the list.
LEMMA UserLocks ==
    ASSUME WellFormed, CustodyInv, LocksInv, User
    PROVE  NewcomersNotDoomed' /\ OldKeysOpen'
<1> USE NoEntryAssumption DEF vaultVars
<1>1. /\ doomed \in SUBSET Entry /\ list \in Seq(Entry)
      /\ creator = NoCreator \/ creator \in CreatorType
      /\ \A i \in DOMAIN list : list[i] \in Entry /\ list[i].secret < minted
  <2>1. doomed \in SUBSET Entry /\ list \in Seq(Entry) /\ creator \in CreatorType
    BY DEF WellFormed, TypeOK, VaultTypeOK, CreatorTypeOK
  <2>2. \A i \in DOMAIN list : list[i] \in Entry
    BY <2>1, LenProperties, ElementOfSeq
  <2>. QED
    BY <2>1, <2>2 DEF CustodyInv, AllPast, Past
<1>2. CASE CreateKey \/ ImportKey
  <2>1. /\ changer = NoChanger /\ UNCHANGED <<changer, minted, doomed, store>>
    BY <1>2 DEF CreateKey, ImportKey, Idle, WellFormed, TypeOK, ChangerTypeOK
  <2>2. creator'.own = NoEntry /\ creator'.got = NoEntry
    BY <1>2 DEF CreateKey, ImportKey, StartCreator, NoCreator
  <2>. QED
    BY <1>1, <2>1, <2>2, NoChangerProperties DEF LocksInv, NewcomersNotDoomed, OldKeysOpen
<1>3. ASSUME NEW p \in Passwords, SaveKey(p)
      PROVE  NewcomersNotDoomed' /\ OldKeysOpen'
  <2>1. /\ creator.phase = "created" /\ creator \in CreatorType
        /\ UNCHANGED <<changer, minted, doomed, store>>
    BY <1>3 DEF SaveKey, Save, WellFormed, TypeOK, CreatorTypeOK
  <2>2. creator'.own = creator.own /\ creator'.got = creator.got
    BY <1>3, <2>1 DEF SaveKey, Save, Ask, CreatorType
  <2>3. changer = NoChanger
    BY <2>1 DEF WellFormed, Exclusive, TypeOK, ChangerTypeOK
  <2>. QED
    BY <2>1, <2>2, <2>3, NoChangerProperties DEF LocksInv, NewcomersNotDoomed, OldKeysOpen
<1>4. CASE DeleteAllKeys \/ \E k \in Keys : DeleteKey(k)
  <2>1. PICK index \in {0} \cup DOMAIN list : StartDestroyer(index)
    BY <1>4 DEF DeleteAllKeys, DeleteKey
  <2>2. /\ creator = NoCreator /\ changer = NoChanger
        /\ UNCHANGED <<creator, changer, minted>>
    BY <1>4 DEF DeleteAllKeys, DeleteKey, Idle, WellFormed, TypeOK,
                CreatorTypeOK, ChangerTypeOK
  <2>3. \A e \in doomed' : e \in doomed \/ \E i \in DOMAIN list : e = list[i]
    BY <2>1 DEF StartDestroyer, ToSet
  <2>4. doomed' \in SUBSET Entry
    BY <1>1, <2>3
  <2>. QED
    BY <1>1, <2>2, <2>3, <2>4, NoCreatorProperties, NoChangerProperties
    DEF LocksInv, NewcomersNotDoomed, OldKeysOpen
<1>5. ASSUME NEW old \in Passwords, NEW new \in Passwords, ChangePassword(old, new)
      PROVE  NewcomersNotDoomed' /\ OldKeysOpen'
  <2>1. /\ UNCHANGED <<store, minted, doomed, creator>>
        /\ changer'.old = old /\ changer'.fresh = <<>> /\ changer'.got = NoEntry
    BY <1>5 DEF ChangePassword, StartChanger, NoChanger
  <2>. QED
    BY <1>1, <2>1 DEF LocksInv, NewcomersNotDoomed, OldKeysOpen
<1>. QED
  BY <1>2, <1>3, <1>4, <1>5 DEF User

\* LocksInv is inductive, given CustodyInv.
LEMMA NextLocks ==
    WellFormed /\ CustodyInv /\ LocksInv /\ [Next]_vars => LocksInv'
<1> SUFFICES ASSUME WellFormed, CustodyInv, LocksInv, [Next]_vars
             PROVE  LocksInv'
  OBVIOUS
<1>1. FilesDistinct'
  BY FilesStayDistinct DEF LocksInv
<1>2. CASE Crash \/ Open
  <2>1. /\ UNCHANGED <<store, minted, doomed>>
        /\ creator' \in {creator, NoCreator} /\ changer' \in {changer, NoChanger}
    BY <1>2 DEF Crash, Open
  <2>2. doomed \in SUBSET Entry
    BY DEF WellFormed, TypeOK, VaultTypeOK
  <2>. QED
    BY <1>1, <2>1, <2>2, NoEntryAssumption, NoCreatorProperties, NoChangerProperties
    DEF LocksInv, NewcomersNotDoomed, OldKeysOpen, Usable, Opens, Current
<1>3. CASE UNCHANGED vars
  BY <1>3 DEF vars, vaultVars, LocksInv, FilesDistinct, NewcomersNotDoomed,
              OldKeysOpen, Usable, Opens, Current
<1>4. CASE User \/ CreatorStep \/ DestroyerStep \/ ChangerStep
  <2>1. NewcomersNotDoomed' /\ OldKeysOpen'
    BY <1>4, UserLocks, CreatorStepLocks, DestroyerStepLocks, ChangerStepLocks
  <2>. QED
    BY <1>1, <2>1 DEF LocksInv
<1>. QED
  BY <1>2, <1>3, <1>4 DEF Next

-----------------------------------------------------------------------------
\* The refinement of KeyCustody, with the saved list as a function of the key
\* files s, the list d and the condemned entries c.

LockIn(s, e) ==
    IF \E p \in Passwords : File(e, p) \in s
      THEN CHOOSE p \in Passwords : File(e, p) \in s ELSE NoEntry

Item(s, c, e) == [pub |-> e.pub, lock |-> LockIn(s, e), condemned |-> e \in c]

VaultOf(s, d, c) == [i \in DOMAIN d |-> Item(s, c, d[i])]

Distinct(s) == \A f, g \in s : f.pub = g.pub /\ f.secret = g.secret => f = g

\* Vault is the vault of now.
LEMMA VaultIs == Vault = VaultOf(store, db, doomed)
  BY DEF Vault, VaultOf, Item, Lock, LockIn, Usable, Opens

\* The password that opens a file is its lock.
LEMMA LockInIs ==
    ASSUME NEW s, Distinct(s), NEW e, NEW p \in Passwords, File(e, p) \in s
    PROVE  LockIn(s, e) = p
<1>1. \A q \in Passwords : File(e, q) \in s => q = p
  BY DEF File, Distinct
<1>. QED
  BY <1>1 DEF LockIn

\* Of a file that goes, or never opened for a user, there is none.
LEMMA LockInNone ==
    ASSUME NEW s, NEW e, \A p \in Passwords : File(e, p) \notin s
    PROVE  LockIn(s, e) = NoEntry
  BY DEF LockIn

\* What opens with the same passwords has the same lock.
LEMMA LockInSame ==
    ASSUME NEW s, NEW t, Distinct(s), Distinct(t), NEW e,
           \A p \in Passwords : File(e, p) \in s <=> File(e, p) \in t
    PROVE  LockIn(s, e) = LockIn(t, e)
<1>1. CASE \E p \in Passwords : File(e, p) \in s
  BY <1>1, LockInIs
<1>2. CASE \A p \in Passwords : File(e, p) \notin s
  BY <1>2, LockInNone
<1>. QED
  BY <1>1, <1>2

\* Files that are added or deleted for other entries change nothing.
LEMMA VaultSame ==
    ASSUME FilesDistinct, FilesDistinct', UNCHANGED <<db, doomed>>,
           \A i \in DOMAIN db : \A p \in Passwords :
              File(db[i], p) \in store <=> File(db[i], p) \in store'
    PROVE  UNCHANGED Vault
<1>1. Distinct(store) /\ Distinct(store')
  BY DEF FilesDistinct, Distinct
<1>2. VaultOf(store', db, doomed) = VaultOf(store, db, doomed)
  BY <1>1, LockInSame DEF VaultOf, Item
<1>3. Vault' = VaultOf(store', db', doomed')
  <2>1. (Vault = VaultOf(store, db, doomed))'
    BY VaultIs, PTL
  <2>. QED
    BY <2>1
<1>. QED
  BY <1>2, <1>3, VaultIs

Items(s, c) == {Item(s, c, e) : e \in Entry}

\* The vault has the length of the list.
LEMMA VaultSeq ==
    ASSUME NEW s, NEW c, NEW d \in Seq(Entry)
    PROVE  /\ VaultOf(s, d, c) \in Seq(Items(s, c))
           /\ Len(VaultOf(s, d, c)) = Len(d)
           /\ DOMAIN VaultOf(s, d, c) = 1..Len(d) /\ Len(d) \in Nat
           /\ \A i \in 1..Len(d) : VaultOf(s, d, c)[i] = Item(s, c, d[i])
<1>1. /\ Len(d) \in Nat /\ DOMAIN d = 1..Len(d)
      /\ \A i \in 1..Len(d) : d[i] \in Entry
  BY LenProperties, ElementOfSeq
<1>2. VaultOf(s, d, c) = [i \in 1..Len(d) |-> Item(s, c, d[i])]
  BY <1>1 DEF VaultOf
<1>3. \A i \in 1..Len(d) : Item(s, c, d[i]) \in Items(s, c)
  BY <1>1 DEF Items
<1> HIDE DEF Items, VaultOf
<1>4. VaultOf(s, d, c) \in Seq(Items(s, c))
  BY <1>1, <1>2, <1>3, SMT
<1>5. Len(VaultOf(s, d, c)) = Len(d)
  BY <1>1, <1>2, <1>4, LenProperties
<1>. QED
  BY <1>1, <1>2, <1>4, <1>5

\* A saved key enters at the end of the vault.
LEMMA VaultAppend ==
    ASSUME NEW s, NEW c, NEW d \in Seq(Entry), NEW e \in Entry
    PROVE  VaultOf(s, Append(d, e), c) = Append(VaultOf(s, d, c), Item(s, c, e))
<1> DEFINE v == VaultOf(s, d, c)
           x == Item(s, c, e)
           a == Append(d, e)
<1>1. /\ v \in Seq(Items(s, c)) /\ Len(v) = Len(d) /\ Len(d) \in Nat
      /\ \A i \in 1..Len(d) : v[i] = Item(s, c, d[i])
  BY VaultSeq
<1>2. x \in Items(s, c)
  BY DEF Items
<1>3. /\ a \in Seq(Entry) /\ Len(a) = Len(d) + 1
      /\ \A i \in 1..Len(d) : a[i] = d[i]
      /\ a[Len(d) + 1] = e
  BY AppendProperties
<1> HIDE DEF v, x, a
<1>4. /\ VaultOf(s, a, c) \in Seq(Items(s, c))
      /\ Len(VaultOf(s, a, c)) = Len(d) + 1
      /\ \A i \in 1..(Len(d) + 1) :
           VaultOf(s, a, c)[i] = Item(s, c, a[i])
  BY <1>3, VaultSeq
<1>5. /\ Append(v, x) \in Seq(Items(s, c)) /\ Len(Append(v, x)) = Len(d) + 1
      /\ \A i \in 1..Len(d) : Append(v, x)[i] = v[i]
      /\ Append(v, x)[Len(d) + 1] = x
  BY <1>1, <1>2, AppendProperties
<1>6. \A i \in 1..(Len(d) + 1) : VaultOf(s, a, c)[i] = Append(v, x)[i]
  <2>1. \A n \in Nat : \A i \in 1..(n + 1) : i = n + 1 \/ i \in 1..n
    OBVIOUS
  <2>2. VaultOf(s, a, c)[Len(d) + 1] = x
    BY <1>1, <1>3, <1>4 DEF x
  <2>3. \A i \in 1..Len(d) : VaultOf(s, a, c)[i] = v[i]
    BY <1>1, <1>3, <1>4
  <2>. QED
    BY <1>1, <1>5, <2>1, <2>2, <2>3, Zenon
<1>7. VaultOf(s, a, c) = Append(v, x)
  BY <1>4, <1>5, <1>6, SeqEqual
<1>. QED
  BY <1>7 DEF v, x, a

\* A deleted key leaves the vault.
LEMMA VaultRemoveAt ==
    ASSUME NEW s, NEW c, NEW d \in Seq(Entry), NEW n \in DOMAIN d
    PROVE  VaultOf(s, RemoveAt(d, n), c) = RemoveAt(VaultOf(s, d, c), n)
<1> DEFINE v == VaultOf(s, d, c)
<1>1. /\ v \in Seq(Items(s, c)) /\ Len(v) = Len(d) /\ Len(d) \in Nat
      /\ \A i \in 1..Len(d) : v[i] = Item(s, c, d[i])
      /\ n \in 1..Len(d)
  BY VaultSeq, LenProperties
<1>2. /\ RemoveAt(d, n) \in Seq(Entry) /\ Len(RemoveAt(d, n)) = Len(d) - 1
      /\ \A j \in 1..(Len(d) - 1) :
            RemoveAt(d, n)[j] = IF j < n THEN d[j] ELSE d[j + 1]
  BY <1>1, RemoveAtProperties
<1>3. /\ VaultOf(s, RemoveAt(d, n), c) \in Seq(Items(s, c))
      /\ Len(VaultOf(s, RemoveAt(d, n), c)) = Len(d) - 1
      /\ \A i \in 1..(Len(d) - 1) :
           VaultOf(s, RemoveAt(d, n), c)[i] = Item(s, c, RemoveAt(d, n)[i])
  BY <1>2, VaultSeq
<1> HIDE DEF v
<1>4. /\ RemoveAt(v, n) \in Seq(Items(s, c)) /\ Len(RemoveAt(v, n)) = Len(d) - 1
      /\ \A j \in 1..(Len(d) - 1) :
            RemoveAt(v, n)[j] = IF j < n THEN v[j] ELSE v[j + 1]
  BY <1>1, RemoveAtProperties
<1>5. ASSUME NEW j \in 1..(Len(d) - 1)
      PROVE  VaultOf(s, RemoveAt(d, n), c)[j] = RemoveAt(v, n)[j]
  <2>1. j \in 1..Len(d) /\ j + 1 \in 1..Len(d)
    BY <1>1
  <2>2. v[j] = Item(s, c, d[j]) /\ v[j + 1] = Item(s, c, d[j + 1])
    BY <1>1, <2>1
  <2>. QED
    BY <1>2, <1>3, <1>4, <2>2
<1>6. VaultOf(s, RemoveAt(d, n), c) = RemoveAt(v, n)
  BY <1>3, <1>4, <1>5, SeqEqual
<1>. QED
  BY <1>6 DEF v

\* Before and after a step the vault is that of the files, list and condemned.
LEMMA VaultSteps ==
    ASSUME WellFormed, WellFormed'
    PROVE  /\ Vault = VaultOf(store, db, doomed)
           /\ Vault' = VaultOf(store', db', doomed')
           /\ db \in Seq(Entry) /\ db' \in Seq(Entry)
           /\ DOMAIN db = 1..Len(db) /\ Len(db) \in Nat
           /\ \A i \in 1..Len(db) : db[i] \in Entry
           /\ DOMAIN Vault = 1..Len(db)
           /\ \A i \in 1..Len(db) : Vault[i] = Item(store, doomed, db[i])
<1>1. db \in Seq(Entry) /\ db' \in Seq(Entry)
  BY DEF WellFormed, TypeOK, VaultTypeOK
<1>2. (Vault = VaultOf(store, db, doomed))'
  BY VaultIs, PTL
<1>. QED
  BY <1>1, <1>2, VaultIs, VaultSeq, LenProperties, ElementOfSeq

\* An item is condemned as its entry is.
LEMMA ItemCondemned ==
    ASSUME NEW s, NEW c, NEW e
    PROVE  Item(s, c, e).condemned = (e \in c)
  BY DEF Item

\* So what is condemned can be dropped.
LEMMA ItemIsCondemned ==
    ASSUME NEW s, NEW c, NEW e, e \in c
    PROVE  Item(s, c, e).condemned
  BY ItemCondemned, Zenon

\* The item of an entry that nobody condemned.
LEMMA ItemNotCondemned ==
    ASSUME NEW s, NEW c, NEW e, e \notin c
    PROVE  Item(s, c, e)
             = [pub |-> e.pub, lock |-> LockIn(s, e), condemned |-> FALSE]
<1>1. (e \in c) = FALSE
  OBVIOUS
<1>. QED
  BY <1>1, Zenon DEF Item

\* Nothing else of it changes when it is.
LEMMA ItemRecondemned ==
    ASSUME NEW s, NEW c, NEW d, NEW e
    PROVE  [Item(s, c, e) EXCEPT !.condemned = (e \in d)] = Item(s, d, e)
  BY DEF Item

\* The same of what is condemned already or now.
LEMMA ItemCondemnedToo ==
    ASSUME NEW s, NEW c, NEW d, NEW e, NEW v, v = Item(s, c, e),
           NEW b, (v.condemned \/ b) = (e \in d)
    PROVE  [v EXCEPT !.condemned = @ \/ b] = Item(s, d, e)
  BY ItemRecondemned

\* Files of condemned keys go: KeyCustody loses them.
LEMMA FilesGo ==
    ASSUME WellFormed, WellFormed', LocksInv, LocksInv',
           UNCHANGED <<db, doomed>>, store' \subseteq store,
           \A i \in DOMAIN db : db[i] \notin doomed =>
              \A p \in Passwords : File(db[i], p) \in store => File(db[i], p) \in store'
    PROVE  \E S \in SUBSET DOMAIN Vault : Custody!Lose(S)
<1> DEFINE S == {i \in DOMAIN db : /\ db[i] \in doomed
                                   /\ \A p \in Passwords : File(db[i], p) \notin store'}
<1>1. Distinct(store) /\ Distinct(store')
  BY DEF LocksInv, FilesDistinct, Distinct
<1>2. S \in SUBSET DOMAIN Vault
  BY VaultSteps
<1>3. ASSUME NEW i \in S
      PROVE  Vault[i].condemned
  <2>1. Vault[i] = Item(store, doomed, db[i]) /\ db[i] \in doomed
    BY VaultSteps
  <2>2. Item(store, doomed, db[i]).condemned
    BY <2>1, ItemIsCondemned
  <2>. QED
    BY <2>1, <2>2, Zenon
<1>4. ASSUME NEW i \in DOMAIN Vault
      PROVE  Vault'[i] = IF i \in S THEN [Vault[i] EXCEPT !.lock = NoEntry]
                                    ELSE Vault[i]
  <2>1. /\ i \in DOMAIN db /\ Vault[i] = Item(store, doomed, db[i])
        /\ Vault'[i] = Item(store', doomed, db[i])
    BY VaultSteps DEF VaultOf
  <2>2. CASE i \in S
    <3>1. LockIn(store', db[i]) = NoEntry
      BY <2>2, LockInNone
    <3>. QED
      BY <2>1, <2>2, <3>1 DEF Item
  <2>3. CASE i \notin S
    <3>1. LockIn(store', db[i]) = LockIn(store, db[i])
      <4>1. CASE \E p \in Passwords : File(db[i], p) \in store'
        BY <1>1, <4>1, LockInIs
      <4>2. CASE \A p \in Passwords : File(db[i], p) \notin store'
        <5>1. \A p \in Passwords : File(db[i], p) \notin store
          BY <2>1, <2>3, <4>2
        <5>. QED
          BY <4>2, <5>1, LockInNone
      <4>. QED
        BY <4>1, <4>2
    <3>. QED
      BY <2>1, <2>3, <3>1 DEF Item
  <2>. QED
    BY <2>2, <2>3
<1>5. Vault' = [i \in DOMAIN Vault |->
                  IF i \in S THEN [Vault[i] EXCEPT !.lock = NoEntry] ELSE Vault[i]]
  <2>1. DOMAIN Vault' = DOMAIN Vault
    BY VaultSteps DEF VaultOf
  <2>2. Vault' = [i \in DOMAIN Vault' |-> Vault'[i]]
    BY VaultSteps DEF VaultOf
  <2>. QED
    BY <1>4, <2>1, <2>2
<1> HIDE DEF S
<1>. QED
  BY <1>2, <1>3, <1>5 DEF Custody!Lose

\* The user condemns keys.
LEMMA KeysCondemned ==
    ASSUME WellFormed, WellFormed', UNCHANGED <<store, db>>, doomed \subseteq doomed'
    PROVE  \E S \in SUBSET DOMAIN Vault : Custody!Condemn(S)
<1> DEFINE S == {i \in DOMAIN db : db[i] \in doomed'}
<1>1. S \in SUBSET DOMAIN Vault
  BY VaultSteps
<1>2. ASSUME NEW i \in DOMAIN Vault
      PROVE  Vault'[i] = [Vault[i] EXCEPT !.condemned = @ \/ i \in S]
  <2>1. /\ i \in DOMAIN db /\ Vault[i] = Item(store, doomed, db[i])
        /\ Vault'[i] = Item(store, doomed', db[i])
    BY VaultSteps DEF VaultOf
  <2>2. (db[i] \in doomed \/ i \in S) = (db[i] \in doomed')
    BY <2>1
  <2>3. (Vault[i].condemned \/ i \in S) = (db[i] \in doomed')
    <3>1. Vault[i].condemned = (db[i] \in doomed)
      BY <2>1, ItemCondemned
    <3>. QED
      BY <2>2, <3>1, Zenon
  <2>4. [Vault[i] EXCEPT !.condemned = @ \/ i \in S] = Item(store, doomed', db[i])
    BY <2>1, <2>3, ItemCondemnedToo
  <2>. QED
    BY <2>1, <2>4
<1>3. Vault' = [i \in DOMAIN Vault |->
                  [Vault[i] EXCEPT !.condemned = @ \/ i \in S]]
  <2>1. DOMAIN Vault' = DOMAIN Vault
    BY VaultSteps DEF VaultOf
  <2>2. Vault' = [i \in DOMAIN Vault' |-> Vault'[i]]
    BY VaultSteps DEF VaultOf
  <2>. QED
    BY <1>2, <2>1, <2>2
<1> HIDE DEF S
<1>. QED
  BY <1>1, <1>3 DEF Custody!Condemn

\* No file of a saved key is touched.
LEMMA FilesStay ==
    ASSUME WellFormed, WellFormed', LocksInv, LocksInv', UNCHANGED <<db, doomed>>,
           \A e \in Entry : \A p \in Passwords :
              (\E i \in DOMAIN db : db[i] = e) =>
                (File(e, p) \in store <=> File(e, p) \in store')
    PROVE  UNCHANGED Vault
<1>1. \A i \in DOMAIN db : db[i] \in Entry
  BY VaultSteps
<1>. QED
  BY <1>1, VaultSame DEF LocksInv

\* A new file is no saved key's.
LEMMA MintElsewhere ==
    ASSUME WellFormed, CustodyInv, NEW k, NEW q, Mint(k, q)
    PROVE  \A e \in Entry : \A p \in Passwords :
              (\E i \in DOMAIN db : db[i] = e) =>
                (File(e, p) \in store <=> File(e, p) \in store')
<1>1. \A i \in DOMAIN db : db[i] \in Entry => db[i].secret < minted
  BY NoEntryAssumption DEF CustodyInv, AllPast, Past
<1>2. minted \in Nat /\ \A e \in Entry : e.secret \in Nat
  BY DEF WellFormed, TypeOK, VaultTypeOK, Entry
<1>3. /\ store' = store \cup {File(NextEntry(k), q)}
      /\ File(NextEntry(k), q).secret = minted
      /\ \A e, p : File(e, p).secret = e.secret
  BY DEF Mint, File, NextEntry
<1>. QED
  BY <1>1, <1>2, <1>3

\* Nor is one that is deleted for another entry.
LEMMA DeleteElsewhere ==
    ASSUME NEW v \in Entry, DeletePublicKey(v), \A i \in DOMAIN db : db[i] # v
    PROVE  \A e \in Entry : \A p \in Passwords :
              (\E i \in DOMAIN db : db[i] = e) =>
                (File(e, p) \in store <=> File(e, p) \in store')
<1>1. store' \subseteq store
  BY DEF DeletePublicKey
<1>. QED
  BY <1>1, DeleteKeeps

\* KeyCreator's steps: the save adds a key to the vault, the others leave it.
LEMMA CreatorStepRefines ==
    ASSUME WellFormed, CustodyInv, LocksInv, WellFormed', LocksInv', CreatorStep
    PROVE  [Custody!Next]_Vault
<1> USE DEF OwningPhases, CreatorPhases, Waiting, Answered, vaultVars
<1>1. /\ CreatorTypeOK /\ creator \in CreatorType /\ VaultTypeOK
      /\ UNCHANGED doomed
  BY CreatorGets DEF WellFormed, TypeOK, CreatorTypeOK
<1>2. CASE UNCHANGED <<store, db>>
  BY <1>1, <1>2, FilesStay
<1>3. ASSUME NEW k, NEW q, Mint(k, q), UNCHANGED db
      PROVE  UNCHANGED Vault
  BY <1>1, <1>3, MintElsewhere, FilesStay
<1>4. CASE LibDropsKey
  <2>1. /\ creator.phase \in {"discarding", "dropping"} /\ creator.own \in Entry
        /\ DeletePublicKey(creator.own) /\ UNCHANGED db
    BY <1>1, <1>4 DEF LibDropsKey, CreatorTypeOK, CreatorType
  <2>2. \A i \in DOMAIN db : db[i] # creator.own
    BY <2>1 DEF CustodyInv, CreatorHoldsKey, CreatorSaved
  <2>. QED
    BY <1>1, <2>1, <2>2, DeleteElsewhere, FilesStay
<1>5. CASE DbSavesNewKey
  <2>1. PICK answer \in {"ok", "error"} :
          /\ SaveWalletList(Append(creator.base, creator.own), answer)
          /\ creator' = CreatorHears(answer)
    BY <1>5 DEF DbSavesNewKey
  <2>2. /\ creator.phase = "saving" /\ creator.answer = "pending"
        /\ creator.base = list /\ creator.own \in Entry /\ creator.pw \in Passwords
        /\ opened /\ UNCHANGED store
    BY <1>1, <1>5
    DEF DbSavesNewKey, WellFormed, Captured, Exclusive, Idle, CreatorTypeOK, CreatorType
  <2>3. db = list /\ Opens(creator.own, creator.pw) /\ creator.own \notin doomed
    BY <2>2
    DEF CustodyInv, DiskAgrees, CreatorSaved, DestroyerSaved, ChangerSaved,
        CreatorHoldsKey, WellFormed, Exclusive, LocksInv, NewcomersNotDoomed
  <2>4. CASE db' = db
    BY <1>2, <2>2, <2>4
  <2>5. CASE db' = Append(db, creator.own)
    <3>1. Vault' = Append(Vault, Item(store, doomed, creator.own))
      BY <1>1, <2>2, <2>5, VaultAppend, VaultSteps
    <3>2. LockIn(store, creator.own) = creator.pw
      BY <2>2, <2>3, LockInIs DEF LocksInv, FilesDistinct, Distinct, Opens
    <3>3. Item(store, doomed, creator.own)
            = [pub |-> creator.own.pub, lock |-> creator.pw, condemned |-> FALSE]
      BY <2>3, <3>2, ItemNotCondemned
    <3>4. creator.own.pub \in Keys
      BY <2>2 DEF Entry
    <3>5. Custody!Add(creator.own.pub, creator.pw)
      BY <3>1, <3>3 DEF Custody!Add
    <3>. QED
      BY <2>2, <3>4, <3>5 DEF Custody!Next
  <2>. QED
    BY <2>1, <2>2, <2>3, <2>4, <2>5 DEF SaveWalletList
<1>6. CASE LibMintsKey \/ LibRekeys
  BY <1>2, <1>3, <1>6 DEF LibMintsKey, LibRekeys
<1>7. CASE LibExportsKey \/ CreatorHandles
  BY <1>2, <1>7
  DEF LibExportsKey, CreatorHandles, OnKeyCreated, OnKeyImported, OnKeyFailed,
      OnWordsExported, OnDiscarded, OnRekeyed, OnOldDropped, OnNewKeySaved
<1>. QED
  BY <1>4, <1>5, <1>6, <1>7 DEF CreatorStep, CreatorServed

\* KeyDestroyer's steps: files of condemned keys go, then the keys leave.
LEMMA DestroyerStepRefines ==
    ASSUME WellFormed, CustodyInv, LocksInv, WellFormed', LocksInv', DestroyerStep
    PROVE  [Custody!Next]_Vault
<1> USE DEF vaultVars
<1>1. /\ destroyer \in DestroyerType /\ VaultTypeOK /\ list \in Seq(Entry)
      /\ destroyer.phase # "none" =>
           /\ destroyer.base = list /\ opened
           /\ destroyer.index \in {0} \cup DOMAIN list
           /\ IF destroyer.index = 0
                THEN \A i \in DOMAIN list : list[i] \in doomed
                ELSE list[destroyer.index] \in doomed
      /\ \A i \in DOMAIN list : list[i] \in Entry
  <2>1. list \in Seq(Entry)
    BY DEF WellFormed, TypeOK, VaultTypeOK
  <2>. QED
    BY <2>1, ElementOfSeq, LenProperties
    DEF WellFormed, TypeOK, DestroyerTypeOK, VaultTypeOK, Captured, Exclusive,
        Idle, CustodyInv, DestroyerHasLeave
<1>2. CASE UNCHANGED <<store, db, doomed>>
  BY <1>2, FilesStay
<1>3. destroyer.phase # "none" /\ ~ DestroyerSaved => db = list
  BY <1>1 DEF CustodyInv, DiskAgrees, CreatorSaved, ChangerSaved, Answered,
              WellFormed, Exclusive
<1>4. CASE LibDeletes
  <2>1. /\ destroyer.phase = "deleting" /\ db = list /\ UNCHANGED <<db, doomed>>
    BY <1>3, <1>4 DEF LibDeletes, DestroyerSaved
  <2>2. store' \subseteq store
    BY <1>4 DEF LibDeletes, DeleteEveryFile, DeletePublicKey
  <2>3. \A i \in DOMAIN db : db[i] \notin doomed =>
          \A p \in Passwords : File(db[i], p) \in store => File(db[i], p) \in store'
    <3>1. CASE destroyer.index = 0
      BY <1>1, <2>1, <3>1
    <3>2. CASE destroyer.index # 0
      <4>1. /\ list[destroyer.index] \in Entry /\ list[destroyer.index] \in doomed
            /\ DeletePublicKey(list[destroyer.index])
        BY <1>1, <1>4, <2>1, <3>2 DEF LibDeletes
      <4>. QED
        BY <1>1, <2>1, <4>1, DeleteKeeps
    <3>. QED
      BY <3>1, <3>2
  <2>4. \E S \in SUBSET DOMAIN Vault : Custody!Lose(S)
    BY <2>1, <2>2, <2>3, FilesGo
  <2>. QED
    BY <2>4 DEF Custody!Next
<1>5. CASE DbSavesSpared
  <2>1. PICK answer \in {"ok", "error"} :
          SaveWalletList(Spared(destroyer.base), answer)
    BY <1>5 DEF DbSavesSpared
  <2>2. /\ destroyer.phase = "saving" /\ destroyer.base = list /\ db = list
        /\ UNCHANGED <<store, doomed>>
    BY <1>1, <1>3, <1>5 DEF DbSavesSpared, DestroyerSaved
  <2>3. CASE db' = db
    BY <1>2, <2>2, <2>3
  <2>4. CASE db' = <<>> /\ destroyer.index = 0
    <3>1. Vault' = <<>>
      <4>1. Vault' = VaultOf(store', db', doomed')
        BY VaultSteps
      <4>. QED
        BY <2>4, <4>1 DEF VaultOf
    <3>2. ASSUME NEW i \in DOMAIN Vault
          PROVE  Vault[i].condemned
      <4>1. Vault[i] = Item(store, doomed, db[i]) /\ db[i] \in doomed
        BY <1>1, <2>2, <2>4, VaultSteps
      <4>2. Item(store, doomed, db[i]).condemned
        BY <4>1, ItemIsCondemned
      <4>. QED
        BY <4>1, <4>2, Zenon
    <3>. QED
      BY <3>1, <3>2 DEF Custody!Next, Custody!Clear
  <2>5. CASE db' = RemoveAt(list, destroyer.index) /\ destroyer.index # 0
    <3> DEFINE n == destroyer.index
    <3>1. n \in DOMAIN db /\ db[n] \in doomed
      BY <1>1, <2>2, <2>5
    <3> HIDE DEF n
    <3>2. Vault' = RemoveAt(Vault, n)
      <4>1. VaultOf(store, RemoveAt(db, n), doomed) = RemoveAt(VaultOf(store, db, doomed), n)
        BY <3>1, VaultSteps, VaultRemoveAt
      <4>. QED
        BY <2>2, <2>5, <4>1, VaultSteps DEF n
    <3>3. n \in DOMAIN Vault /\ Vault[n] = Item(store, doomed, db[n])
      BY <3>1, VaultSteps
    <3>4. Vault[n].condemned
      <4>1. Item(store, doomed, db[n]).condemned
        BY <3>1, ItemIsCondemned
      <4>. QED
        BY <3>3, <4>1, Zenon
    <3>5. Custody!Drop(n)
      <4>1. Custody!RemoveAt(Vault, n) = RemoveAt(Vault, n)
        BY Zenon DEF Custody!RemoveAt, RemoveAt
      <4>2. Vault' = Custody!RemoveAt(Vault, n)
        BY <3>2, <4>1, Zenon
      <4>. QED
        BY <3>4, <4>2, Zenon DEF Custody!Drop
    <3>. QED
      BY <3>3, <3>5 DEF Custody!Next
  <2>. QED
    BY <2>1, <2>2, <2>3, <2>4, <2>5 DEF SaveWalletList, Spared
<1>6. CASE OnDeleted \/ OnSparedSaved
  BY <1>2, <1>6 DEF OnDeleted, OnSparedSaved
<1>. QED
  BY <1>4, <1>5, <1>6 DEF DestroyerStep, DestroyerServed, DestroyerHandles

\* PasswordChanger's steps: all keys change their password in the save.
LEMMA ChangerStepRefines ==
    ASSUME WellFormed, CustodyInv, LocksInv, WellFormed', LocksInv', ChangerStep
    PROVE  [Custody!Next]_Vault
<1> USE DEF vaultVars
<1>1. /\ ChangerTypeOK /\ changer \in ChangerType /\ VaultTypeOK
      /\ UNCHANGED doomed
      /\ db \in Seq(Entry) /\ list \in Seq(Entry) /\ changer.fresh \in Seq(Entry)
  BY DEF WellFormed, TypeOK, VaultTypeOK, ChangerTypeOK, ChangerType,
         ChangerStep, ChangerServed, ChangerHandles, LibChangesPassword,
         DbSavesNewSecrets, LibDeletesVictim, SavedNext, Rollback, Rollforward
<1>2. CASE UNCHANGED <<store, db>>
  BY <1>1, <1>2, FilesStay
<1>3. changer.phase # "none" => /\ opened /\ CapturedByChanger
                                /\ ~ CreatorSaved /\ ~ DestroyerSaved
  BY DEF WellFormed, Captured, Exclusive, Idle, CreatorSaved, DestroyerSaved, Answered
<1>4. CASE LibChangesPassword
  <2>1. CASE UNCHANGED store
    BY <1>2, <1>4, <2>1 DEF LibChangesPassword
  <2>2. CASE Mint(Current.pub, changer.new)
    BY <1>1, <1>4, <2>2, MintElsewhere, FilesStay DEF LibChangesPassword
  <2>. QED
    BY <1>4, <2>1, <2>2 DEF LibChangesPassword
<1>5. CASE LibDeletesVictim
  <2>1. /\ changer.phase \in {"rollback", "rollforward"} /\ changer.victim \in Entry
        /\ DeletePublicKey(changer.victim) /\ UNCHANGED db
    BY <1>1, <1>5 DEF LibDeletesVictim, ChangerTypeOK, ChangerType
  <2>2. \A i \in DOMAIN db : db[i] # changer.victim
    BY <1>3, <2>1
    DEF CustodyInv, ChangerHoldsKeys, DiskAgrees, ChangerSaved, CapturedByChanger
  <2>. QED
    BY <1>1, <2>1, <2>2, DeleteElsewhere, FilesStay
<1>6. CASE DbSavesNewSecrets
  <2>1. PICK answer \in {"ok", "error"} : SaveWalletList(changer.fresh, answer)
    BY <1>6 DEF DbSavesNewSecrets
  <2>2. /\ changer.phase = "saving" /\ changer.answer = "pending"
        /\ changer.entries = list /\ db = list /\ changer.new \in Passwords
        /\ Len(changer.fresh) = Len(db)
        /\ \A i \in DOMAIN changer.fresh : changer.fresh[i].pub = list[i].pub
        /\ UNCHANGED store
    BY <1>1, <1>3, <1>6
    DEF DbSavesNewSecrets, ChangerTypeOK, CapturedByChanger, CustodyInv,
        DiskAgrees, ChangerSaved
  <2>3. CASE db' = db
    BY <1>2, <2>2, <2>3
  <2>4. CASE db' = changer.fresh
    <3>1. /\ Distinct(store)
          /\ \A i \in 1..Len(db) :
               /\ Usable(db[i]) /\ Opens(changer.fresh[i], changer.new)
               /\ changer.fresh[i] \notin doomed
               /\ changer.fresh[i].pub = db[i].pub
      <4>1. DOMAIN changer.fresh = 1..Len(db)
        BY <1>1, <2>2, LenProperties
      <4>. QED
        BY <2>2, <4>1
        DEF LocksInv, OldKeysOpen, NewcomersNotDoomed, FilesDistinct, Distinct,
            CustodyInv, ChangerHoldsKeys
    <3>2. ASSUME NEW i \in DOMAIN Vault
          PROVE  Vault[i].lock # NoEntry
      <4>1. i \in 1..Len(db) /\ Vault[i].lock = LockIn(store, db[i])
        BY VaultSteps DEF Item
      <4>2. PICK p \in Passwords : File(db[i], p) \in store
        BY <3>1, <4>1 DEF Usable, Opens
      <4>3. LockIn(store, db[i]) = p
        BY <3>1, <4>2, LockInIs
      <4>. QED
        BY <4>1, <4>3, NoEntryAssumption
    <3>3. ASSUME NEW i \in DOMAIN Vault
          PROVE  Vault'[i] = [pub |-> Vault[i].pub, lock |-> changer.new,
                              condemned |-> FALSE]
      <4>1. /\ i \in 1..Len(db) /\ Vault[i].pub = db[i].pub
        BY VaultSteps DEF Item
      <4>2. Vault'[i] = Item(store, doomed, changer.fresh[i])
        <5>1. DOMAIN changer.fresh = 1..Len(db)
          BY <1>1, <2>2, LenProperties
        <5>. QED
          BY <1>1, <2>2, <2>4, <4>1, <5>1, VaultSteps DEF VaultOf
      <4>3. LockIn(store, changer.fresh[i]) = changer.new
        BY <2>2, <3>1, <4>1, LockInIs DEF Opens
      <4>4. Item(store, doomed, changer.fresh[i])
              = [pub |-> changer.fresh[i].pub, lock |-> LockIn(store, changer.fresh[i]),
                 condemned |-> FALSE]
        BY <3>1, <4>1, ItemNotCondemned
      <4>. QED
        BY <3>1, <4>1, <4>2, <4>3, <4>4
    <3>4. Vault' = [i \in DOMAIN Vault |->
                      [pub |-> Vault[i].pub, lock |-> changer.new,
                       condemned |-> FALSE]]
      <4>1. DOMAIN Vault' = DOMAIN Vault
        BY <1>1, <2>2, <2>4, VaultSteps, LenProperties DEF VaultOf
      <4>2. Vault' = [i \in DOMAIN Vault' |-> Vault'[i]]
        BY VaultSteps DEF VaultOf
      <4>. QED
        BY <3>3, <4>1, <4>2
    <3>5. Custody!Repassword(changer.new)
      BY <3>2, <3>4 DEF Custody!Repassword
    <3>. QED
      BY <2>2, <3>5 DEF Custody!Next
  <2>. QED
    BY <2>1, <2>3, <2>4 DEF SaveWalletList
<1>7. CASE ChangerHandles
  BY <1>2, <1>7 DEF ChangerHandles, SavedNext, Rollback, Rollforward
<1>. QED
  BY <1>4, <1>5, <1>6, <1>7 DEF ChangerStep, ChangerServed

\* The user condemns keys; a crash and a start leave the disk as it is.
LEMMA OthersRefine ==
    ASSUME WellFormed, WellFormed', LocksInv, LocksInv',
           User \/ Crash \/ Open \/ UNCHANGED vars
    PROVE  [Custody!Next]_Vault
<1>1. UNCHANGED <<store, db>> /\ doomed \subseteq doomed'
  BY DEF User, CreateKey, ImportKey, SaveKey, DeleteKey, DeleteAllKeys,
         ChangePassword, StartDestroyer, Crash, Open, vars, vaultVars
<1>2. \E S \in SUBSET DOMAIN Vault : Custody!Condemn(S)
  BY <1>1, KeysCondemned
<1>. QED
  BY <1>2 DEF Custody!Next

\* Wallet keeps the custody of keys that KeyCustody describes: whatever fails
\* and wherever the process stops, the saved list goes only through its steps.
THEOREM WalletKeepsCustody == Spec => KeepsCustody
<1>1. Init => WellFormed /\ CustodyInv /\ LocksInv /\ Custody!Init
  <2>1. ASSUME Init PROVE LocksInv /\ Custody!Init
    <3>1. /\ creator = NoCreator /\ changer = NoChanger
          /\ db = <<>> /\ store = {} /\ doomed = {}
      BY <2>1 DEF Init, VaultInit, CreatorInit, ChangerInit
    <3>2. LocksInv
      BY <3>1, NoChangerProperties
      DEF LocksInv, FilesDistinct, NewcomersNotDoomed, OldKeysOpen
    <3>3. Vault = <<>>
      BY <3>1 DEF Vault
    <3>. QED
      BY <3>2, <3>3 DEF Custody!Init
  <2>. QED
    BY <2>1, InitWellFormed, InitCustody
<1>2. WellFormed /\ CustodyInv /\ LocksInv /\ [Next]_vars
        => (WellFormed /\ CustodyInv /\ LocksInv)'
  BY NextWellFormed, NextCustody, NextLocks
<1>3. WellFormed /\ CustodyInv /\ LocksInv /\ [Next]_vars => [Custody!Next]_Vault
  <2>1. SUFFICES ASSUME WellFormed, CustodyInv, LocksInv, [Next]_vars
                 PROVE  [Custody!Next]_Vault
    OBVIOUS
  <2>2. WellFormed' /\ LocksInv'
    BY <1>2, <2>1
  <2>. QED
    BY <2>1, <2>2, CreatorStepRefines, DestroyerStepRefines, ChangerStepRefines,
       OthersRefine DEF Next
<1>. QED
  BY <1>1, <1>2, <1>3, PTL DEF Spec, KeepsCustody, Custody!Spec

=============================================================================
