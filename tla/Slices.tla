------------------------------- MODULE Slices -------------------------------
(***************************************************************************)
(* ton_account_viewer.cpp, preloadSlice, with Wallet::requestTransactions  *)
(* and trySilentDecrypt of ton_wallet.cpp: older transactions of an        *)
(* account, each slice named by the transaction it goes back from.  Two    *)
(* requests follow one another, and the owner may destroy the viewer       *)
(* before, between and after them.                                         *)
(***************************************************************************)
EXTENDS EncryptedTexts, FiniteSets

CONSTANTS
    Ids,        \* transactions a slice may be asked for
    Contents,   \* the slices the network may have: functions from Ids
    Calls       \* calls of preloadSlice

ASSUME ContentsAssumption ==
    \A content \in Contents, id \in Ids :
       /\ IsList(content[id])
       /\ \A t \in ToSet(content[id]) :
             {"incoming", "outgoing"} \subseteq DOMAIN t /\ IsList(t.outgoing)

VARIABLES
    slices,     \* the slices of the network
    viewer,     \* the AccountViewer is there
    preloadIds, \* AccountViewer::_preloadIds
    calls,      \* the calls of preloadSlice, each with its id and request
    password,   \* Wallet has a password for the key
    fired,      \* history: the last event of _loadedResults
    failed,     \* history: ids whose request has failed
    touched     \* history: a callback has used a viewer that is gone

slicesVars == <<slices, viewer, preloadIds, calls, password, fired, failed, touched>>

NoEvent == [kind |-> "none"]

Asking(c) == calls[c].at \in {"transactions", "decrypt"}

SlicesInit ==
    /\ slices \in Contents
    /\ viewer = TRUE
    /\ preloadIds = {}
    /\ calls \in [Calls -> {[at |-> "none", id |-> i] : i \in Ids}]
    /\ password \in BOOLEAN
    /\ fired = NoEvent
    /\ failed = {}
    /\ touched = FALSE

-----------------------------------------------------------------------------

Goes(c, at) == calls' = [calls EXCEPT ![c].at = at]

PreloadSlice(c) ==
    LET id == calls[c].id IN
      /\ viewer /\ calls[c].at = "none"
      /\ IF id \in preloadIds
           THEN /\ Goes(c, "done")
                /\ UNCHANGED preloadIds
           ELSE /\ Goes(c, "transactions")
                /\ preloadIds' = preloadIds \cup {id}
      /\ UNCHANGED <<slices, viewer, password, fired, failed, touched>>

\* The end of preloadSlice: a slice is there.
Loaded(c, list) ==
    LET id == calls[c].id IN
      /\ Goes(c, "done")
      /\ preloadIds' = preloadIds \ {id}
      /\ fired' = [kind |-> "slice", after |-> id, list |-> list]

\* The viewer is gone: its guard drops the answer.
OnTransactionsTooLate(c) ==
    /\ calls[c].at = "transactions" /\ ~ viewer
    /\ Goes(c, "done")
    /\ UNCHANGED <<slices, viewer, preloadIds, password, fired, failed, touched>>

\* Mutant of OnTransactionsFailed: nobody hears of the error.
OnTransactionsLost(c) ==
    /\ calls[c].at = "transactions" /\ viewer
    /\ Goes(c, "done")
    /\ UNCHANGED <<slices, viewer, preloadIds, password, fired, failed, touched>>

\* The id stays among those being loaded.
OnTransactionsFailed(c) ==
    /\ calls[c].at = "transactions" /\ viewer
    /\ Goes(c, "done")
    /\ fired' = [kind |-> "error"]
    /\ failed' = failed \cup {calls[c].id}
    /\ UNCHANGED <<slices, viewer, preloadIds, password, touched>>

\* Wallet::trySilentDecrypt: a request if there are texts and a password.
OnTransactions(c) ==
    LET list == slices[calls[c].id] IN
      /\ calls[c].at = "transactions" /\ viewer
      /\ IF CollectEncryptedTexts(list) = <<>> \/ ~ password
           THEN Loaded(c, list)
           ELSE /\ Goes(c, "decrypt")
                /\ UNCHANGED <<preloadIds, fired>>
      /\ UNCHANGED <<slices, viewer, password, failed, touched>>

\* Its answer, or an error, which leaves the texts as they are.
OnDecrypted(c) ==
    LET list == slices[calls[c].id]
        encrypted == CollectEncryptedTexts(list)
    IN /\ calls[c].at = "decrypt" /\ viewer
       /\ \/ Loaded(c, AddDecryptedTexts(list, encrypted, Texts(encrypted)))
          \/ Loaded(c, list)
       /\ UNCHANGED <<slices, viewer, password, failed, touched>>

\* This callback has no guard: it uses a viewer that is not there.
OnDecryptedTooLate(c) ==
    /\ calls[c].at = "decrypt" /\ ~ viewer
    /\ Goes(c, "done")
    /\ touched' = TRUE
    /\ UNCHANGED <<slices, viewer, preloadIds, password, fired, failed>>

DestroyViewer ==
    /\ viewer
    /\ viewer' = FALSE
    /\ UNCHANGED <<slices, preloadIds, calls, password, fired, failed, touched>>

\* A password is typed, or expires.
PasswordComesOrGoes ==
    /\ password' = ~ password
    /\ UNCHANGED <<slices, viewer, preloadIds, calls, fired, failed, touched>>

-----------------------------------------------------------------------------

Answer(c) ==
    \/ OnTransactionsTooLate(c) \/ OnTransactionsFailed(c) \/ OnTransactions(c)
    \/ OnDecrypted(c) \/ OnDecryptedTooLate(c)

SlicesNext ==
    \/ \E c \in Calls : PreloadSlice(c) \/ Answer(c)
    \/ DestroyViewer
    \/ PasswordComesOrGoes

SlicesSpec == SlicesInit /\ [][SlicesNext]_slicesVars

-----------------------------------------------------------------------------
(* Safety *)

\* The text of a message that was encrypted, as its own bytes and source tell
\* it, or of the first message of the slice with the same bytes: two messages
\* with the same bytes from two sources are given the text of the first.
TextOf(message, list) ==
    LET all == AllMessages(list)
        i == CHOOSE j \in DOMAIN all :
               /\ all[j].encrypted = message.encrypted
               /\ \A k \in 1..(j - 1) : all[k].encrypted # message.encrypted
    IN <<message.encrypted, all[i].source>>

\* A slice that is shown is the one of its transaction, with all its texts
\* decrypted, each its own, or with none; what was not encrypted is as it was.
SliceIsRight ==
    fired.kind = "slice" =>
        LET raw == slices[fired.after]
            was == AllMessages(raw)
            now == AllMessages(fired.list)
            Plain == {i \in DOMAIN was : was[i].encrypted = <<>>}
        IN /\ Len(fired.list) = Len(raw) /\ Len(now) = Len(was)
           /\ \A i \in Plain : now[i] = was[i]
           /\ \/ now = was
              \/ \A i \in DOMAIN was \ Plain :
                    now[i] = [was[i] EXCEPT !.text = TextOf(was[i], raw),
                                            !.decrypted = TRUE]

\* _preloadIds are the ids of the slices on their way, and of those whose
\* request has failed, which the owner was told: no other id is kept from being
\* asked for, and none on its way is missing or asked for twice, between its two
\* requests included.
KeptOnlyAfterError ==
    viewer =>
        /\ \A c, d \in Calls :
              Asking(c) /\ Asking(d) => c = d \/ calls[c].id # calls[d].id
        /\ \A c \in Calls : Asking(c) => calls[c].id \in preloadIds
        /\ \A id \in preloadIds :
              id \in failed \/ \E c \in Calls : calls[c].id = id /\ Asking(c)

\* crl::guard(this, done): a callback of preloadSlice runs only while its
\* viewer lives.
CallbackFindsViewer == ~ touched

=============================================================================
