-------------------------- MODULE PasswordChanger --------------------------
(***************************************************************************)
(* details/ton_password_changer.cpp: every key of the list is re-encrypted *)
(* into a file of its own, then the list of new secrets is saved, then the *)
(* old files are deleted.  A failure before the save deletes the new files *)
(* instead.                                                                *)
(***************************************************************************)
EXTENDS KeyVault

VARIABLE changer    \* Wallet::_passwordChanger

NoChanger ==
    [phase |-> "none", old |-> LocalPassword, new |-> LocalPassword,
     entries |-> <<>>, fresh |-> <<>>, victim |-> NoEntry,
     answer |-> "none", got |-> NoEntry]

ChangerPhases == {"none", "changing", "saving", "rollback", "rollforward"}

ChangerType ==
    [phase : ChangerPhases,
     old : Passwords \cup {LocalPassword},
     new : Passwords \cup {LocalPassword},
     entries : Seq(Entry),              \* _list
     fresh : Seq(Entry),                \* _newSecrets, each with its key
     victim : Entry \cup {NoEntry},     \* the entry being deleted
     answer : Answers,
     got : Entry \cup {NoEntry}]        \* the key an "ok" carries

ChangerTypeOK ==
    /\ changer \in ChangerType
    /\ changer.phase = "none" => changer = NoChanger
    /\ changer.phase = "none" <=> changer.answer = "none"
    /\ changer.phase # "none" => changer.new \in Passwords
    /\ changer.phase \in {"changing", "rollback"} =>
          Len(changer.fresh) < Len(changer.entries)
    /\ changer.phase = "saving" => Len(changer.fresh) = Len(changer.entries)
    /\ changer.phase = "rollforward" =>
          Len(changer.fresh) > Len(changer.entries)
    /\ changer.phase \in {"rollback", "rollforward"} <=> changer.victim # NoEntry
    /\ changer.got # NoEntry <=>
          changer.phase = "changing" /\ changer.answer = "ok"

StartChanger(old, new) ==
    changer' = [NoChanger EXCEPT !.phase = "changing", !.answer = "pending",
                                 !.old = old, !.new = new, !.entries = list]

\* The entry changeNext sends.
Current == changer.entries[Len(changer.fresh) + 1]

ChangerHears(answer) == [changer EXCEPT !.answer = answer]
ChangerHearsKey(e) == [changer EXCEPT !.answer = "ok", !.got = e]

-----------------------------------------------------------------------------

LibChangesPassword ==
    /\ changer.phase = "changing" /\ changer.answer = "pending"
    /\ \/ /\ Opens(Current, changer.old)
          /\ Mint(Current.pub, changer.new)
          /\ changer' = ChangerHearsKey(NextEntry(Current.pub))
       \/ /\ changer' = ChangerHears("error")
          /\ UNCHANGED <<store, minted>>
    /\ UNCHANGED <<db, list, doomed, leaked>>

DbSavesNewSecrets ==
    /\ changer.phase = "saving" /\ changer.answer = "pending"
    /\ \E answer \in {"ok", "error"} :
         /\ SaveWalletList(changer.fresh, answer)
         /\ changer' = ChangerHears(answer)
    /\ UNCHANGED <<store, minted, list, doomed, leaked>>

LibDeletesVictim ==
    /\ changer.phase \in {"rollback", "rollforward"}
    /\ changer.answer = "pending"
    /\ DeletePublicKey(changer.victim)
    /\ changer' = ChangerHears("ok")
    /\ UNCHANGED <<minted, db, list, doomed>>

-----------------------------------------------------------------------------

Collect(phase) ==
    [changer EXCEPT !.fresh = Append(@, changer.got), !.phase = phase,
                    !.answer = "pending", !.got = NoEntry]

\* savedNext: on to the next key, or to the database.
SavedNext ==
    /\ changer.phase = "changing" /\ changer.answer = "ok"
    /\ changer' = Collect(IF Len(changer.fresh) + 1 < Len(changer.entries)
                            THEN "changing" ELSE "saving")
    /\ UNCHANGED vaultVars

\* Mutant of UndoLast: the old file of the key goes instead of the new one.
UndoLastOld ==
    [changer EXCEPT !.phase = "rollback", !.answer = "pending",
                    !.victim = changer.entries[Len(changer.fresh)],
                    !.fresh = Front(@)]

UndoLast ==
    [changer EXCEPT !.phase = "rollback", !.answer = "pending",
                    !.victim = Last(changer.fresh), !.fresh = Front(@)]

\* rollback: one step of it, after a failure or after the previous step.
Rollback ==
    /\ \/ changer.phase \in {"changing", "saving"} /\ changer.answer = "error"
       \/ changer.phase = "rollback" /\ changer.answer = "ok"
    /\ changer' =
         IF changer.fresh = <<>> THEN NoChanger ELSE UndoLast
    /\ UNCHANGED vaultVars

\* Mutant of DropLastOld: the new file goes instead of the old one.
DropLastNew ==
    [changer EXCEPT !.phase = "rollforward", !.answer = "pending",
                    !.victim = changer.fresh[Len(changer.entries)],
                    !.entries = Front(@)]

DropLastOld ==
    [changer EXCEPT !.phase = "rollforward", !.answer = "pending",
                    !.victim = Last(changer.entries), !.entries = Front(@)]

\* Mutant of Rollforward: the list in memory keeps the old secrets.
RollforwardOnDisk ==
    /\ \/ changer.phase = "saving" /\ changer.answer = "ok"
       \/ changer.phase = "rollforward" /\ changer.answer = "ok"
    /\ changer' = IF changer.entries = <<>> THEN NoChanger ELSE DropLastOld
    /\ UNCHANGED vaultVars

\* rollforward: one step of it.  After the last one Wallet::changePassword's
\* changed puts the new secrets in the list.
Rollforward ==
    /\ \/ changer.phase = "saving" /\ changer.answer = "ok"
       \/ changer.phase = "rollforward" /\ changer.answer = "ok"
    /\ IF changer.entries = <<>>
         THEN /\ changer' = NoChanger
              /\ list' = [i \in DOMAIN list |->
                            [list[i] EXCEPT !.secret = changer.fresh[i].secret]]
         ELSE /\ changer' = DropLastOld
              /\ UNCHANGED list
    /\ UNCHANGED <<store, minted, db, doomed, leaked>>

ChangerInit == changer = NoChanger
ChangerServed == LibChangesPassword \/ DbSavesNewSecrets \/ LibDeletesVictim
ChangerHandles == SavedNext \/ Rollback \/ Rollforward

=============================================================================
