--------------------------- MODULE AccountViewers ---------------------------
(***************************************************************************)
(* details/ton_account_viewers.cpp, seen from one address of any number:   *)
(* the viewers of an account share one entry of _map, shown from the       *)
(* database first and then refreshed from the network, by a timer or on    *)
(* demand.  Transactions that were sent and have not been seen yet are     *)
(* shown as pending, until a refresh finds them in the account or past the *)
(* time they could enter it.  RefreshTimer has the timer.                  *)
(*                                                                         *)
(* Everything runs in the main thread; what interleaves are the callbacks  *)
(* of the database, of the library and of the owner of the viewers.        *)
(***************************************************************************)
EXTENDS Naturals, Sequences, SequencesExt

CONSTANTS
    Txs,         \* outgoing transactions
    NoEntry,     \* the address is not in _map
    MaxViewers,  \* bound: viewers of the address
    Reentrant    \* callbacks given to refreshNow may call refreshNow again

ASSUME MaxViewersAssumption == MaxViewers \in Nat \ {0}
ASSUME ReentrantAssumption == Reentrant \in BOOLEAN

VARIABLES
    added,    \* the transactions sendGrams has made pending
    landed,   \* the network: those that are in the account
    past,     \* the network: those whose sentUntilSyncTime is over
    entry,    \* the address in _map
    jobs,     \* callbacks AccountViewers waits for
    timer,    \* _refreshTimer is armed
    saved     \* the account in the database

networkVars == <<added, landed, past>>
vars == <<networkVars, entry, jobs, timer, saved>>

\* An AccountState, told apart by the transactions of ours that are in it.
Account == [known : BOOLEAN, landed : SUBSET Txs]
WalletState == [account : Account, pending : SUBSET Txs]

Blank == [account |-> [known |-> FALSE, landed |-> {}], pending |-> {}]

Viewers ==
    [viewers : 0..MaxViewers,   \* how many are in list
     state : WalletState,
     refreshing : BOOLEAN,
     refreshed : BOOLEAN]       \* a callback waits for the refresh to end

ASSUME NoEntryAssumption == NoEntry \notin Viewers

\* What a callback will carry.  answered: the network has looked at it.
Job ==
    [at : {"load", "state", "transactions", "decrypt"},
     source : {"Database", "Remote"},
     answered : BOOLEAN,
     state : WalletState,       \* of "state", only the account
     past : SUBSET Txs]         \* by the sync time of that account

\* The request of an AccountState.
StateJob ==
    [at |-> "state", source |-> "Remote", answered |-> FALSE,
     state |-> Blank, past |-> {}]

TypeOK ==
    /\ added \subseteq Txs /\ landed \subseteq added /\ past \subseteq added
    /\ entry \in Viewers \cup {NoEntry}
    /\ jobs \in Seq(Job)
    /\ \A i \in DOMAIN jobs : jobs[i].answered \/ jobs[i] = StateJob
    /\ timer \in BOOLEAN
    /\ saved \in WalletState

Init ==
    /\ added = {} /\ landed = {} /\ past = {}
    /\ entry = NoEntry
    /\ jobs = <<>>
    /\ timer = FALSE
    /\ saved = Blank

-----------------------------------------------------------------------------

\* An account of which nothing is known is not saved.
SaveWalletState(s) == saved' = IF s = Blank THEN saved ELSE s

\* What was saved; a blank account when nothing was.
LoadWalletState == saved

\* The database reads in the order it is asked: what it will answer is what
\* it was given before.
LoadJob ==
    [at |-> "load", source |-> "Database", answered |-> TRUE,
     state |-> LoadWalletState, past |-> {}]

\* Mutant of ComputePendingTransactions: the condition is the other way round.
ComputeProcessedTransactions(pending, job) ==
    {t \in pending : t \in job.past \/ t \in job.state.account.landed}

ComputePendingTransactions(pending, job) ==
    {t \in pending : t \notin job.past /\ t \notin job.state.account.landed}

\* The end of checkNextRefresh for an entry that is not refreshing: it is due
\* (refreshAccount) or the timer is armed.
CheckNextRefresh(e) ==
    \/ /\ entry' = [e EXCEPT !.refreshing = TRUE]
       /\ jobs' = Append(jobs, StateJob)
       /\ UNCHANGED timer
    \/ /\ entry' = e
       /\ timer' = TRUE
       /\ UNCHANGED jobs

\* Mutant of CheckUnlessRefreshing: an entry being refreshed is not skipped.
CheckAlways(e) == CheckNextRefresh(e)

CheckUnlessRefreshing(e) ==
    IF e.refreshing
      THEN entry' = e /\ UNCHANGED <<jobs, timer>>
      ELSE CheckNextRefresh(e)

\* The owner's calls.

CreateAccountViewer ==
    /\ \/ /\ entry = NoEntry
          /\ entry' = [viewers |-> 1, state |-> Blank, refreshing |-> TRUE,
                       refreshed |-> FALSE]
          /\ jobs' = Append(jobs, LoadJob)
          /\ UNCHANGED timer
       \/ /\ entry # NoEntry /\ entry.viewers < MaxViewers
          /\ CheckUnlessRefreshing([entry EXCEPT !.viewers = @ + 1])
    /\ UNCHANGED <<networkVars, saved>>

SetRefreshEach ==
    /\ entry # NoEntry /\ entry.viewers > 0
    /\ CheckUnlessRefreshing(entry)
    /\ UNCHANGED <<networkVars, saved>>

DestroyAccountViewer ==
    /\ entry # NoEntry /\ entry.viewers > 0
    /\ entry' = IF entry.viewers = 1 /\ ~ entry.refreshing
                  THEN NoEntry
                  ELSE [entry EXCEPT !.viewers = @ - 1]
    /\ UNCHANGED <<networkVars, jobs, timer, saved>>

\* Mutant of RefreshNow: it does not look whether a refresh is under way.
RefreshNowAnyhow ==
    /\ entry # NoEntry /\ entry.viewers > 0
    /\ entry' = [entry EXCEPT !.refreshed = TRUE, !.refreshing = TRUE]
    /\ jobs' = Append(jobs, StateJob)
    /\ UNCHANGED <<networkVars, timer, saved>>

RefreshNow ==
    /\ entry # NoEntry /\ entry.viewers > 0
    /\ entry' = [entry EXCEPT !.refreshed = TRUE, !.refreshing = TRUE]
    /\ jobs' = IF entry.refreshing THEN jobs ELSE Append(jobs, StateJob)
    /\ UNCHANGED <<networkVars, timer, saved>>

\* Wallet::sendGrams: the transaction is added, and sent after that.
AddPendingTransaction(t) ==
    /\ t \notin added
    /\ added' = added \cup {t}
    /\ IF entry = NoEntry
         THEN UNCHANGED <<entry, jobs, timer, saved>>
         ELSE LET s == [entry.state EXCEPT !.pending = @ \cup {t}] IN
                /\ SaveWalletState(s)
                /\ CheckUnlessRefreshing([entry EXCEPT !.state = s])
    /\ UNCHANGED <<landed, past>>

\* checkNextRefresh by the timer.
TimerFires ==
    /\ timer
    /\ \/ /\ entry # NoEntry /\ ~ entry.refreshing
          /\ \/ /\ entry' = [entry EXCEPT !.refreshing = TRUE]
                /\ jobs' = Append(jobs, StateJob)
                /\ timer' = FALSE
             \/ UNCHANGED <<entry, jobs, timer>>
       \/ /\ entry # NoEntry => entry.refreshing
          /\ timer' = FALSE
          /\ UNCHANGED <<entry, jobs>>
    /\ UNCHANGED <<networkVars, saved>>

\* checkNextRefresh on behalf of another address: this one may be due, and the
\* one timer may be armed for either.
OtherAddress ==
    /\ \/ entry # NoEntry /\ ~ entry.refreshing /\ CheckNextRefresh(entry)
       \/ /\ entry # NoEntry => entry.refreshing
          /\ timer' = TRUE
          /\ UNCHANGED <<entry, jobs>>
    /\ UNCHANGED <<networkVars, saved>>

-----------------------------------------------------------------------------
\* The network.

Land(t) ==
    /\ t \in added \ (past \cup landed)
    /\ landed' = landed \cup {t}
    /\ UNCHANGED <<added, past, entry, jobs, timer, saved>>

PassSyncTime(t) ==
    /\ t \in added \ past
    /\ past' = past \cup {t}
    /\ UNCHANGED <<added, landed, entry, jobs, timer, saved>>

AnswerState(i) ==
    /\ ~ jobs[i].answered
    /\ jobs' = ReplaceAt(jobs, i,
                  [jobs[i] EXCEPT
                     !.answered = TRUE, !.past = past,
                     !.state.account = [known |-> TRUE, landed |-> landed]])
    /\ UNCHANGED <<networkVars, entry, timer, saved>>

-----------------------------------------------------------------------------
\* The callbacks.

Ready(i) == jobs[i].answered

\* Job i goes on as job.
GoOn(i, job) ==
    /\ jobs' = ReplaceAt(jobs, i, job)
    /\ UNCHANGED <<entry, timer, saved>>

\* finishRefreshing, the new state and its save, then refreshAccount after
\* the database or checkNextRefresh after the network.  The callback of
\* refreshNow runs in the middle and may ask to refresh again.
Conclude(i, s, source) ==
    \E again \in {b \in BOOLEAN : b => Reentrant /\ entry.refreshed},
       due \in BOOLEAN :
         LET more == source = "Database" \/ (~ again /\ due) IN
           /\ jobs' = RemoveAt(jobs, i)
                        \o (IF again THEN <<StateJob>> ELSE <<>>)
                        \o (IF more THEN <<StateJob>> ELSE <<>>)
           /\ entry' = [entry EXCEPT !.refreshing = again \/ more,
                                     !.refreshed = again, !.state = s]
           /\ timer' = (timer \/ ~ (again \/ more))
           /\ IF source = "Remote" /\ s # entry.state THEN SaveWalletState(s)
                                                     ELSE UNCHANGED saved

\* findRefreshingViewers, when the last viewer has gone meanwhile.
DropEntry(i) ==
    /\ Ready(i) /\ entry # NoEntry /\ entry.viewers = 0
    /\ entry' = NoEntry
    /\ jobs' = RemoveAt(jobs, i)
    /\ UNCHANGED <<networkVars, timer, saved>>

Serves(i, at) ==
    /\ Ready(i) /\ jobs[i].at = at
    /\ entry # NoEntry /\ entry.viewers > 0

\* Mutant of Fail: nothing looks for the next refresh.
FailForGood(i) ==
    /\ Serves(i, "state") \/ Serves(i, "transactions")
    /\ jobs' = RemoveAt(jobs, i)
    /\ entry' = [entry EXCEPT !.refreshing = FALSE, !.refreshed = FALSE]
    /\ UNCHANGED <<networkVars, timer, saved>>

\* reportError
Fail(i) ==
    /\ Serves(i, "state") \/ Serves(i, "transactions")
    /\ Conclude(i, entry.state, "Remote")
    /\ UNCHANGED networkVars

\* saveNewStateEncrypted's finish.
FinishDecrypted(i) ==
    Conclude(i, IF jobs[i].source = "Database" THEN jobs[i].state
                ELSE [jobs[i].state EXCEPT !.pending =
                        ComputePendingTransactions(entry.state.pending, jobs[i])],
             jobs[i].source)

\* Mutant of OnSameState: the sync time is not looked at.
OnSameStateKeep(i) ==
    /\ Serves(i, "state")
    /\ jobs[i].state.account = entry.state.account
    /\ Conclude(i, entry.state, "Remote")
    /\ UNCHANGED networkVars

\* The account has not changed: checkPendingForSameState.
OnSameState(i) ==
    /\ Serves(i, "state")
    /\ jobs[i].state.account = entry.state.account
    /\ Conclude(i, [entry.state EXCEPT !.pending = @ \ jobs[i].past], "Remote")
    /\ UNCHANGED networkVars

OnNewState(i) ==
    /\ Serves(i, "state")
    /\ jobs[i].state.account # entry.state.account
    /\ GoOn(i, [jobs[i] EXCEPT !.at = "transactions"])
    /\ UNCHANGED networkVars

\* Nothing to decrypt or no password: the callback runs at once.  Otherwise
\* the library decrypts; a failure leaves the texts encrypted.
OnContents(i) ==
    /\ Serves(i, "load") \/ Serves(i, "transactions")
    /\ FinishDecrypted(i) \/ GoOn(i, [jobs[i] EXCEPT !.at = "decrypt"])
    /\ UNCHANGED networkVars

OnDecrypted(i) ==
    /\ Serves(i, "decrypt")
    /\ FinishDecrypted(i)
    /\ UNCHANGED networkVars

-----------------------------------------------------------------------------

Handles(i) ==
    DropEntry(i) \/ OnSameState(i) \/ OnNewState(i) \/ OnContents(i)
        \/ OnDecrypted(i)

Next ==
    \/ CreateAccountViewer \/ SetRefreshEach \/ DestroyAccountViewer
    \/ RefreshNow
    \/ TimerFires \/ OtherAddress
    \/ \E t \in Txs : AddPendingTransaction(t) \/ Land(t) \/ PassSyncTime(t)
    \/ \E i \in DOMAIN jobs : AnswerState(i) \/ Fail(i) \/ Handles(i)

Spec == Init /\ [][Next]_vars

\* Time passes: for the timer, which in the end finds the entry due, and for
\* the sync time of the network.  Every request is answered, and not for ever
\* with an error.
FairSpec ==
    /\ Spec
    /\ SF_vars(TimerFires /\ jobs' # jobs)
    /\ \A t \in Txs : WF_vars(PassSyncTime(t))
    /\ WF_vars(\E i \in DOMAIN jobs : AnswerState(i) \/ Fail(i) \/ Handles(i))
    /\ SF_vars(\E i \in DOMAIN jobs : jobs[i].at = "state" /\ Handles(i))
    /\ SF_vars(\E i \in DOMAIN jobs : jobs[i].at = "transactions" /\ Handles(i))

-----------------------------------------------------------------------------
(* Safety *)

\* findRefreshingViewers: Assert(i != end(_map)).  A callback finds the entry
\* it was asked for.
RefreshFindsEntry == (\E i \in DOMAIN jobs : Ready(i)) => entry # NoEntry

\* An account is refreshed by one chain of requests at a time, from the
\* moment it says it is refreshing to the moment it stops saying so, even
\* when its last viewer goes and a new one comes meanwhile.
OneRefresh ==
    Len(jobs) = IF entry # NoEntry /\ entry.refreshing THEN 1 ELSE 0

\* An account with viewers that is not being refreshed will be: the timer is
\* armed, after a good refresh, a failed one or none.  (And its viewers are
\* there: checkNextRefresh asserts it.)
NeverForgotten ==
    entry # NoEntry /\ ~ entry.refreshing => timer /\ entry.viewers > 0

\* The state shown never goes back to an older account: answers of the
\* network are applied in the order they were asked for.
NeverBackwards ==
    [][entry # NoEntry /\ entry' # NoEntry /\ entry.state.account.known =>
          /\ entry'.state.account.known
          /\ entry.state.account.landed \subseteq entry'.state.account.landed]_vars

\* A load is under way and its answer will replace what is shown.
Loading == \E i \in DOMAIN jobs : jobs[i].source = "Database"

\* A pending transaction stays until it is seen in the account, or cannot
\* enter it any more.  The exception is real: one added while the state is
\* being loaded is lost when the load ends.
PendingStays ==
    [][entry # NoEntry /\ entry' # NoEntry /\ ~ Loading =>
          \A t \in entry.state.pending \ entry'.state.pending :
              t \in entry'.state.account.landed \/ t \in past]_vars

(* Liveness *)

\* A transaction is not pending for ever, whatever became of it.
PendingEnds ==
    \A t \in Txs :
        (entry # NoEntry /\ t \in entry.state.pending) ~>
            (entry = NoEntry \/ t \notin entry.state.pending)

=============================================================================
