------------------------------- MODULE Sending -------------------------------
(***************************************************************************)
(* Wallet::checkSendGrams and sendGrams: the library makes a query, which  *)
(* it keeps; a check estimates its fees and forgets it, a transaction is   *)
(* shown as pending, reported ready and only then sent.  The owner hears   *)
(* of a pending transaction twice in the middle of one callback, through   *)
(* its viewers and by ready, and may destroy the wallet either time.       *)
(***************************************************************************)
EXTENDS Naturals, Sequences

CONSTANTS
    Checks,     \* bound: the calls of checkSendGrams
    Sends       \* bound: the calls of sendGrams

VARIABLES
    alive,      \* the Wallet, and its library, are there
    calls,      \* how far each call is
    inside,     \* the calls whose callback has not returned: none or one
    queries,    \* the library: the queries it keeps
    pending,    \* transactions given to AccountViewers
    network,    \* transactions the network may have got
    told        \* history: what the callbacks of each call have said

sendVars == <<alive, calls, inside, queries, pending, network, told>>

Calls == Checks \cup Sends

SendInit ==
    /\ alive = TRUE
    /\ calls = [c \in Calls |-> "none"]
    /\ inside = {}
    /\ queries = {} /\ pending = {} /\ network = {}
    /\ told = [c \in Calls |-> <<>>]

Moves(c, from, to) == calls[c] = from /\ calls' = [calls EXCEPT ![c] = to]
Tell(c, what) == told' = [told EXCEPT ![c] = Append(@, what)]

-----------------------------------------------------------------------------
\* The owner, from a callback or not.

\* checkSendGrams and sendGrams: TLCreateQuery
Call(c) ==
    /\ alive /\ Moves(c, "none", "create")
    /\ UNCHANGED <<alive, inside, queries, pending, network, told>>

Leave ==
    /\ alive
    /\ alive' = FALSE /\ queries' = {}
    /\ UNCHANGED <<calls, inside, pending, network, told>>

-----------------------------------------------------------------------------
\* The library.

CreateQuery(c) ==
    /\ alive
    /\ \/ Moves(c, "create", "created") /\ queries' = queries \cup {c}
       \/ Moves(c, "create", "not created") /\ UNCHANGED queries
    /\ UNCHANGED <<alive, inside, pending, network, told>>

EstimateFees(c) ==
    /\ alive
    /\ Moves(c, "estimate", "estimated") \/ Moves(c, "estimate", "not estimated")
    /\ UNCHANGED <<alive, inside, queries, pending, network, told>>

ForgetQuery(c) ==
    /\ alive /\ Moves(c, "forget", "done")
    /\ queries' = queries \ {c}
    /\ UNCHANGED <<alive, inside, pending, network, told>>

\* An error does not say that the network has not got it.
SendQuery(c) ==
    /\ alive
    /\ \/ /\ Moves(c, "send", "sent")
          /\ network' = network \cup {c}
       \/ /\ Moves(c, "send", "not sent")
          /\ network' \in {network, network \cup {c}}
    /\ UNCHANGED <<alive, inside, queries, pending, told>>

-----------------------------------------------------------------------------
\* The callbacks.

Hears(c) == alive /\ inside = {} /\ c \in Calls

\* An error is the only answer to be given.
OnError(c) ==
    /\ Hears(c)
    /\ \E what \in {"not created", "not estimated", "not sent"} :
          Moves(c, what, "done")
    /\ Tell(c, "error")
    /\ UNCHANGED <<alive, inside, queries, pending, network>>

OnCheckCreated(c) ==
    /\ Hears(c) /\ c \in Checks /\ Moves(c, "created", "estimate")
    /\ UNCHANGED <<alive, inside, queries, pending, network, told>>

\* Mutant of OnEstimated: the query is left in the library.
OnEstimatedKeep(c) ==
    /\ Hears(c) /\ Moves(c, "estimated", "done")
    /\ Tell(c, "done")
    /\ UNCHANGED <<alive, inside, queries, pending, network>>

OnEstimated(c) ==
    /\ Hears(c) /\ Moves(c, "estimated", "forget")
    /\ Tell(c, "done")
    /\ UNCHANGED <<alive, inside, queries, pending, network>>

\* addPendingTransaction, which tells the viewers.
OnSendCreated(c) ==
    /\ Hears(c) /\ c \in Sends /\ Moves(c, "created", "pending")
    /\ inside' = {c}
    /\ pending' = pending \cup {c}
    /\ UNCHANGED <<alive, queries, network, told>>

\* Mutant of Ready: whether the wallet is still there is not looked at.
ReadyAnyhow(c) ==
    /\ c \in inside /\ Moves(c, "pending", "ready")
    /\ Tell(c, "ready")
    /\ UNCHANGED <<alive, inside, queries, pending, network>>

Ready(c) ==
    /\ alive /\ c \in inside /\ Moves(c, "pending", "ready")
    /\ Tell(c, "ready")
    /\ UNCHANGED <<alive, inside, queries, pending, network>>

\* Mutant of Send: ready is left for later.
SendAtOnce(c) ==
    /\ alive /\ c \in inside /\ Moves(c, "pending", "send")
    /\ inside' = {}
    /\ UNCHANGED <<alive, queries, pending, network, told>>

Send(c) ==
    /\ alive /\ c \in inside /\ Moves(c, "ready", "send")
    /\ inside' = {}
    /\ UNCHANGED <<alive, queries, pending, network, told>>

\* The owner has destroyed the wallet: if (!weak) return.
Return(c) ==
    /\ ~ alive /\ c \in inside
    /\ inside' = {}
    /\ UNCHANGED <<alive, calls, queries, pending, network, told>>

OnSent(c) ==
    /\ Hears(c) /\ Moves(c, "sent", "done")
    /\ Tell(c, "done")
    /\ UNCHANGED <<alive, inside, queries, pending, network>>

-----------------------------------------------------------------------------

Library(c) == CreateQuery(c) \/ EstimateFees(c) \/ ForgetQuery(c) \/ SendQuery(c)

Main(c) ==
    \/ OnError(c) \/ OnCheckCreated(c) \/ OnEstimated(c) \/ OnSendCreated(c)
    \/ Ready(c) \/ Send(c) \/ Return(c) \/ OnSent(c)

SendNext ==
    \/ \E c \in Calls : Call(c) \/ Library(c) \/ Main(c)
    \/ Leave

SendSpec == SendInit /\ [][SendNext]_sendVars

\* The library answers and the main thread goes on.
SendFairness == \A c \in Calls : WF_sendVars(Library(c)) /\ WF_sendVars(Main(c))

-----------------------------------------------------------------------------
(* Safety *)

\* What the network may have got is pending, and was reported ready before: the
\* refresh that will find it, or not, has it to look for.  A transaction whose
\* first report is an error was not sent and is not shown, so that it can be
\* sent again.
SentIsPending ==
    \A c \in Sends :
        /\ c \in network => c \in pending /\ told[c] # <<>> /\ told[c][1] = "ready"
        /\ told[c] # <<>> /\ told[c][1] = "error" => c \notin pending \cup network

\* A wallet that a callback has destroyed adds, reports and sends nothing more.
NothingAfterDestructor ==
    [][~ alive => UNCHANGED <<queries, pending, network, told>>]_sendVars

(* Liveness *)

Answered(c) ==
    told[c] # <<>> /\ (c \in Checks \/ told[c][1] = "error" \/ Len(told[c]) = 2)

\* Every call is answered unless the wallet is destroyed, and a check that was
\* answered well leaves no query in the library.  A check whose estimate failed
\* leaves one, and a transaction always does.
SendingEnds ==
    \A c \in Calls :
        /\ calls[c] = "create" ~> Answered(c) \/ ~ alive
        /\ c \in Checks /\ told[c] = <<"done">> ~> c \notin queries

=============================================================================
