----------------------------- MODULE KeyCustody -----------------------------
(***************************************************************************)
(* What the wallet promises of the keys it has saved: the saved list, each *)
(* key with the one password that opens it.  A key enters at the end of    *)
(* the list, all keys change their password together, and only a key the   *)
(* user condemned can be lost or leave the list.                           *)
(***************************************************************************)
EXTENDS Naturals, Sequences, SequencesExt

CONSTANTS Keys, Passwords, Lost

VARIABLE vault

Item == [pub : Keys, lock : Passwords \cup {Lost}, condemned : BOOLEAN]

Init == vault = <<>>

Add(k, p) ==
    vault' = Append(vault, [pub |-> k, lock |-> p, condemned |-> FALSE])

\* The user wants the keys at the indexes of S gone.
Condemn(S) ==
    vault' = [i \in DOMAIN vault |->
                [vault[i] EXCEPT !.condemned = @ \/ i \in S]]

\* They cannot be opened any more, though still listed.
Lose(S) ==
    /\ \A i \in S : vault[i].condemned
    /\ vault' = [i \in DOMAIN vault |->
                   IF i \in S THEN [vault[i] EXCEPT !.lock = Lost]
                              ELSE vault[i]]

Drop(i) ==
    /\ vault[i].condemned
    /\ vault' = RemoveAt(vault, i)

Clear ==
    /\ \A i \in DOMAIN vault : vault[i].condemned
    /\ vault' = <<>>

\* All keys at once; a key condemned and still there is a wanted one again.
Repassword(p) ==
    /\ \A i \in DOMAIN vault : vault[i].lock # Lost
    /\ vault' = [i \in DOMAIN vault |->
                   [pub |-> vault[i].pub, lock |-> p, condemned |-> FALSE]]

Next ==
    \/ \E k \in Keys, p \in Passwords : Add(k, p)
    \/ \E S \in SUBSET DOMAIN vault : Condemn(S) \/ Lose(S)
    \/ \E i \in DOMAIN vault : Drop(i)
    \/ Clear
    \/ \E p \in Passwords : Repassword(p)

Spec == Init /\ [][Next]_vault

\* A saved key is never lost unless the user condemned it.
NeverLost == \A i \in DOMAIN vault : vault[i].lock = Lost => vault[i].condemned

=============================================================================
