------------------------------- MODULE Utility -------------------------------
(***************************************************************************)
(* ton_utility.cpp, for programs without a Wallet: one sender for all,     *)
(* whose library keeps keys in memory.  A key is made, or imported to be   *)
(* checked, and deleted again before its words, or its public key, are     *)
(* told.  Each request follows from the answer to the one before; Finish   *)
(* may come in between, and Start again after it.                          *)
(***************************************************************************)
EXTENDS Naturals, Sequences

CONSTANTS
    NewKeys,    \* bound: the calls of CreateKey
    WordChecks, \* bound: the calls of CheckKey
    MaxStarts   \* bound: the calls of Start

VARIABLES
    sender,     \* GlobalSender: "none", "starting", "there" or "failed"
    starts,     \* the calls of Start
    keys,       \* how far each call is
    store,      \* the library: calls whose key it has
    kept,       \* history: calls whose key could not be exported or deleted
    said        \* history: the answers to each call

utilityVars == <<sender, starts, keys, store, kept, said>>

KeyCalls == NewKeys \cup WordChecks

UtilityInit ==
    /\ sender = "none" /\ starts = 0
    /\ keys = [c \in KeyCalls |-> "none"]
    /\ store = {} /\ kept = {}
    /\ said = [c \in KeyCalls |-> <<>>]

Turns(c, from, to) == keys[c] = from /\ keys' = [keys EXCEPT ![c] = to]
Says(c, what) == said' = [said EXCEPT ![c] = Append(@, what)]

-----------------------------------------------------------------------------

StartSender ==
    /\ sender = "none" /\ starts < MaxStarts
    /\ sender' = "starting" /\ starts' = starts + 1
    /\ UNCHANGED <<keys, store, kept, said>>

\* An answer to TLInit: after an error the sender stays.
OnInit ==
    /\ sender = "starting"
    /\ sender' \in {"there", "failed"}
    /\ UNCHANGED <<starts, keys, store, kept, said>>

\* CreateKey and CheckKey; a program waits for the answer to Start.
AskKey(c) ==
    /\ sender = "there" /\ Turns(c, "none", "create")
    /\ UNCHANGED <<sender, starts, store, kept, said>>

\* Finish: the library and its keys go, and no answer is heard any more.
FinishSender ==
    /\ sender # "none"
    /\ sender' = "none" /\ store' = {}
    /\ keys' = [c \in KeyCalls |-> IF keys[c] \in {"none", "end"} THEN keys[c]
                                                                 ELSE "dropped"]
    /\ UNCHANGED <<starts, kept, said>>

\* The library.
LibKeys(c) ==
    /\ \/ Turns(c, "create", "created") /\ store' = store \cup {c} /\ UNCHANGED kept
       \/ Turns(c, "create", "error") /\ UNCHANGED <<store, kept>>
       \/ Turns(c, "export", "exported") /\ UNCHANGED <<store, kept>>
       \/ Turns(c, "export", "error") /\ kept' = kept \cup {c} /\ UNCHANGED store
       \/ Turns(c, "delete", "deleted") /\ store' = store \ {c} /\ UNCHANGED kept
       \/ Turns(c, "delete", "deleted") /\ kept' = kept \cup {c} /\ UNCHANGED store
    /\ UNCHANGED <<sender, starts, said>>

\* Callbacks: the words are asked for, or the key is deleted at once.
OnKey(c) ==
    /\ Turns(c, "created", IF c \in NewKeys THEN "export" ELSE "delete")
    /\ UNCHANGED <<sender, starts, store, kept, said>>

\* Mutant of OnExported: the words are told, and the key stays.
OnExportedTell(c) ==
    /\ Turns(c, "exported", "end") /\ Says(c, "key")
    /\ UNCHANGED <<sender, starts, store, kept>>

\* deleteAfterCreate
OnExported(c) ==
    /\ Turns(c, "exported", "delete")
    /\ UNCHANGED <<sender, starts, store, kept, said>>

\* A key that could not be deleted is told all the same.
OnDeleted(c) ==
    /\ Turns(c, "deleted", "end") /\ Says(c, "key")
    /\ UNCHANGED <<sender, starts, store, kept>>

OnKeyError(c) ==
    /\ Turns(c, "error", "end") /\ Says(c, "error")
    /\ UNCHANGED <<sender, starts, store, kept>>

KeyGoesOn(c) ==
    LibKeys(c) \/ OnKey(c) \/ OnExported(c) \/ OnDeleted(c) \/ OnKeyError(c)

UtilityNext ==
    \/ StartSender \/ OnInit \/ FinishSender
    \/ \E c \in KeyCalls : AskKey(c) \/ KeyGoesOn(c)

UtilitySpec == UtilityInit /\ [][UtilityNext]_utilityVars

\* The library answers and the main thread goes on.
UtilityFairness == \A c \in KeyCalls : WF_utilityVars(KeyGoesOn(c))

-----------------------------------------------------------------------------
(* Safety *)

\* A call that is answered is answered once, and leaves no key in the library
\* but one that could not be exported or deleted: of the first kind nothing is
\* told, and nothing deletes it.
LeavesNoKey(c) ==
    said[c] # <<>> => Len(said[c]) = 1 /\ (c \in store => c \in kept)

(* Liveness *)

\* Each call is answered, unless Finish comes, and leaves no key.
KeysAreAnsweredAndGone ==
    /\ \A c \in KeyCalls : keys[c] = "create" ~> said[c] # <<>> \/ keys[c] = "dropped"
    /\ [](\A c \in KeyCalls : LeavesNoKey(c))

=============================================================================
