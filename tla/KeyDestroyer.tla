---------------------------- MODULE KeyDestroyer ----------------------------
(***************************************************************************)
(* details/ton_key_destroyer.cpp: tonlib deletes the key file of one entry *)
(* (or all of them), then the list without it goes to the database.  The   *)
(* outcome of the first step is ignored.                                   *)
(***************************************************************************)
EXTENDS KeyVault

VARIABLE destroyer    \* Wallet::_keyDestroyer

NoDestroyer ==
    [phase |-> "none", index |-> 0, base |-> <<>>, answer |-> "none"]

DestroyerType ==
    [phase : {"none", "deleting", "saving"},
     index : Nat,         \* entry to delete, 0 for all of them
     base : Seq(Entry),   \* the list it was given
     answer : Answers]

DestroyerTypeOK ==
    /\ destroyer \in DestroyerType
    /\ destroyer.phase = "none" => destroyer = NoDestroyer
    /\ destroyer.phase = "none" <=> destroyer.answer = "none"
    /\ destroyer.phase # "none" =>
          destroyer.index \in {0} \cup DOMAIN destroyer.base

\* l without the entries the destroyer is after.
Spared(l) == IF destroyer.index = 0 THEN <<>> ELSE RemoveAt(l, destroyer.index)

DestroyerHears(answer) == [destroyer EXCEPT !.answer = answer]

\* The wallet has asked for the deletion of the entry at index, or of all.
StartDestroyer(index) ==
    /\ destroyer' = [phase |-> "deleting", index |-> index, base |-> list,
                     answer |-> "pending"]
    /\ doomed' = doomed \cup (IF index = 0 THEN ToSet(list) ELSE {list[index]})

LibDeletes ==
    /\ destroyer.phase = "deleting" /\ destroyer.answer = "pending"
    /\ IF destroyer.index = 0
         THEN DeleteEveryFile
         ELSE DeletePublicKey(destroyer.base[destroyer.index])
    /\ destroyer' = DestroyerHears("ok")
    /\ UNCHANGED <<minted, db, list, doomed>>

DbSavesSpared ==
    /\ destroyer.phase = "saving" /\ destroyer.answer = "pending"
    /\ \E answer \in {"ok", "error"} :
         /\ SaveWalletList(Spared(destroyer.base), answer)
         /\ destroyer' = DestroyerHears(answer)
    /\ UNCHANGED <<store, minted, list, doomed, leaked>>

\* removeFromDatabase
OnDeleted ==
    /\ destroyer.phase = "deleting" /\ destroyer.answer = "ok"
    /\ destroyer' = [destroyer EXCEPT !.phase = "saving", !.answer = "pending"]
    /\ UNCHANGED vaultVars

\* Mutants of OnSparedSaved: the list forgets the entry though the database
\* did not; a failure of the database is not handled.
OnSparedSavedAnyhow ==
    /\ destroyer.phase = "saving" /\ destroyer.answer \in {"ok", "error"}
    /\ list' = Spared(list)
    /\ destroyer' = NoDestroyer
    /\ UNCHANGED <<store, minted, db, doomed, leaked>>

OnSparedSavedOnly ==
    /\ destroyer.phase = "saving" /\ destroyer.answer = "ok"
    /\ list' = Spared(list)
    /\ destroyer' = NoDestroyer
    /\ UNCHANGED <<store, minted, db, doomed, leaked>>

\* removed, of Wallet::deleteKey and Wallet::deleteAllKeys: the index found
\* when the deletion began is applied to the list of now.
OnSparedSaved ==
    /\ destroyer.phase = "saving" /\ destroyer.answer \in {"ok", "error"}
    /\ list' = IF destroyer.answer = "ok" THEN Spared(list) ELSE list
    /\ destroyer' = NoDestroyer
    /\ UNCHANGED <<store, minted, db, doomed, leaked>>

DestroyerInit == destroyer = NoDestroyer
DestroyerServed == LibDeletes \/ DbSavesSpared
DestroyerHandles == OnDeleted \/ OnSparedSaved

=============================================================================
