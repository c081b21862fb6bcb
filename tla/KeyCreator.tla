----------------------------- MODULE KeyCreator -----------------------------
(***************************************************************************)
(* details/ton_key_creator.cpp: a key is created (or imported) under a     *)
(* random local password, its words are shown, and once the user gives a   *)
(* password it is re-encrypted and appended to the wallet list.            *)
(*                                                                         *)
(* The phase names the one request that is outstanding ("created": none).  *)
(* A request takes two steps: the library or the database performs it,     *)
(* then the handler runs in the main thread.                               *)
(***************************************************************************)
EXTENDS KeyVault

VARIABLE creator    \* Wallet::_keyCreator

NoCreator ==
    [phase |-> "none", own |-> NoEntry, pw |-> LocalPassword,
     target |-> LocalPassword, base |-> <<>>, answer |-> "none",
     got |-> NoEntry]

CreatorPhases ==
    {"none", "creating", "importing", "exporting", "discarding", "created",
     "rekeying", "dropping", "saving"}

CreatorType ==
    [phase : CreatorPhases,
     own : Entry \cup {NoEntry},                \* _key, _secret
     pw : Passwords \cup {LocalPassword},       \* _password
     target : Passwords \cup {LocalPassword},   \* the password save() got
     base : Seq(Entry),                         \* the list save() got
     answer : Answers,
     got : Entry \cup {NoEntry}]                \* the key an "ok" carries

\* Phases of a creator that has a key of its own.
OwningPhases ==
    {"exporting", "discarding", "created", "rekeying", "dropping", "saving"}

CreatorTypeOK ==
    /\ creator \in CreatorType
    /\ creator.phase = "none" => creator = NoCreator
    /\ creator.phase \in OwningPhases <=> creator.own # NoEntry
    /\ creator.phase \in {"none", "created"} <=> creator.answer = "none"
    /\ creator.phase \in {"rekeying", "dropping"} => creator.pw # creator.target
    /\ creator.phase = "saving" => creator.pw \in Passwords
    /\ creator.phase \in {"rekeying", "dropping"} => creator.target \in Passwords
    /\ creator.got # NoEntry <=>
          \/ creator.phase = "dropping"
          \/ /\ creator.phase \in {"creating", "importing", "rekeying"}
             /\ creator.answer = "ok"

Waiting(phase) == creator.phase = phase /\ creator.answer = "pending"
Answered(phase, answer) == creator.phase = phase /\ creator.answer = answer

\* The outstanding request is answered, some with a key.
CreatorHears(answer) == [creator EXCEPT !.answer = answer]
CreatorHearsKey(e) == [creator EXCEPT !.answer = "ok", !.got = e]

\* The creator goes on to phase, with a new request outstanding.
Ask(phase) == [creator EXCEPT !.phase = phase, !.answer = "pending"]
\* The creator waits for the user.
Rest == [creator EXCEPT !.phase = "created", !.answer = "none",
                        !.target = LocalPassword, !.base = <<>>,
                        !.got = NoEntry]

-----------------------------------------------------------------------------
\* Requests of the wallet.

StartCreator(phase) ==
    creator' = [NoCreator EXCEPT !.phase = phase, !.answer = "pending"]

Save(password) ==
    /\ creator.phase = "created"
    /\ creator' =
         IF creator.pw # password
           THEN [Ask("rekeying") EXCEPT !.target = password, !.base = list]
           ELSE [Ask("saving") EXCEPT !.base = list]

-----------------------------------------------------------------------------
\* The library and the database perform what was asked.

UnusedKeys ==
    {k \in Keys : \A f \in store : f.pub # k} \ {db[i].pub : i \in DOMAIN db}

LibMintsKey ==
    /\ \/ \E k \in Keys :
            /\ \/ Waiting("importing")
               \/ Waiting("creating") /\ k \in UnusedKeys
            /\ Mint(k, creator.pw)
            /\ creator' = CreatorHearsKey(NextEntry(k))
       \/ /\ Waiting("creating") \/ Waiting("importing")
          /\ creator' = CreatorHears("error")
          /\ UNCHANGED <<store, minted>>
    /\ UNCHANGED <<db, list, doomed, leaked>>

LibExportsKey ==
    /\ Waiting("exporting")
    /\ \E answer \in {"ok", "error"} :
         /\ answer = "ok" => Opens(creator.own, creator.pw)
         /\ creator' = CreatorHears(answer)
    /\ UNCHANGED vaultVars

LibDropsKey ==
    /\ Waiting("discarding") \/ Waiting("dropping")
    /\ DeletePublicKey(creator.own)
    /\ creator' = CreatorHears("ok")
    /\ UNCHANGED <<minted, db, list, doomed>>

LibRekeys ==
    /\ Waiting("rekeying")
    /\ \/ /\ Opens(creator.own, creator.pw)
          /\ Mint(creator.own.pub, creator.target)
          /\ creator' = CreatorHearsKey(NextEntry(creator.own.pub))
       \/ /\ creator' = CreatorHears("error")
          /\ UNCHANGED <<store, minted>>
    /\ UNCHANGED <<db, list, doomed, leaked>>

\* Mutant of DbSavesNewKey: the entries of before are not written again.
DbSavesNewKeyAlone ==
    /\ Waiting("saving")
    /\ \E answer \in {"ok", "error"} :
         /\ SaveWalletList(<<creator.own>>, answer)
         /\ creator' = CreatorHears(answer)
    /\ UNCHANGED <<store, minted, list, doomed, leaked>>

DbSavesNewKey ==
    /\ Waiting("saving")
    /\ \E answer \in {"ok", "error"} :
         /\ SaveWalletList(Append(creator.base, creator.own), answer)
         /\ creator' = CreatorHears(answer)
    /\ UNCHANGED <<store, minted, list, doomed, leaked>>

-----------------------------------------------------------------------------
\* Handlers, in the main thread.  A failed creation or import makes the
\* wallet drop the creator (Wallet::createKey, Wallet::importKey).

OnKeyCreated ==
    /\ Answered("creating", "ok")
    /\ creator' = [Ask("exporting") EXCEPT !.own = creator.got,
                                           !.got = NoEntry]
    /\ UNCHANGED vaultVars

OnKeyImported ==
    /\ Answered("importing", "ok")
    /\ creator' = [Rest EXCEPT !.own = creator.got]
    /\ UNCHANGED vaultVars

OnKeyFailed ==
    /\ Answered("creating", "error") \/ Answered("importing", "error")
    /\ creator' = NoCreator
    /\ UNCHANGED vaultVars

OnWordsExported ==
    /\ creator.phase = "exporting"
    /\ \/ creator.answer = "ok" /\ creator' = Rest
       \/ creator.answer = "error" /\ creator' = Ask("discarding")
    /\ UNCHANGED vaultVars

OnDiscarded ==
    /\ Answered("discarding", "ok")
    /\ creator' = NoCreator
    /\ UNCHANGED vaultVars

\* Mutant of OnRekeyed: the file under the random password is not deleted.
OnRekeyedKeepsOld ==
    /\ creator.phase = "rekeying"
    /\ \/ /\ creator.answer = "ok"
          /\ creator' = [Ask("saving") EXCEPT !.own = creator.got,
                                              !.pw = creator.target,
                                              !.got = NoEntry]
       \/ creator.answer = "error" /\ creator' = Rest
    /\ UNCHANGED vaultVars

OnRekeyed ==
    /\ creator.phase = "rekeying"
    /\ \/ creator.answer = "ok" /\ creator' = Ask("dropping")
       \/ creator.answer = "error" /\ creator' = Rest
    /\ UNCHANGED vaultVars

\* The old file is gone, or not: the new secret and password are taken over
\* and the key goes to the database.
OnOldDropped ==
    /\ Answered("dropping", "ok")
    /\ creator' = [Ask("saving") EXCEPT !.own = creator.got,
                                        !.pw = creator.target,
                                        !.got = NoEntry]
    /\ UNCHANGED vaultVars

\* KeyCreator::saveToDatabase's saved, with Wallet::saveKey's on top.
OnNewKeySaved ==
    /\ creator.phase = "saving"
    /\ \/ /\ creator.answer = "ok"
          /\ creator' = NoCreator
          /\ list' = Append(list, creator.own)
       \/ /\ creator.answer = "error"
          /\ creator' = Rest
          /\ UNCHANGED list
    /\ UNCHANGED <<store, minted, db, doomed, leaked>>

CreatorInit == creator = NoCreator

CreatorServed ==
    LibMintsKey \/ LibExportsKey \/ LibDropsKey \/ LibRekeys \/ DbSavesNewKey

CreatorHandles ==
    \/ OnKeyCreated \/ OnKeyImported \/ OnKeyFailed \/ OnWordsExported
    \/ OnDiscarded \/ OnRekeyed \/ OnOldDropped \/ OnNewKeySaved

=============================================================================
