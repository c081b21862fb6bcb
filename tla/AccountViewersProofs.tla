------------------------ MODULE AccountViewersProofs ------------------------
(***************************************************************************)
(* What AccountViewers promises, proved for any transactions and any       *)
(* number of viewers, when no callback of refreshNow calls it again (one   *)
(* that does breaks OneRefresh).                                           *)
(***************************************************************************)
EXTENDS AccountViewers, SequenceTheorems, TLAPS

\* A callback carries what the network had, which is not older than what is
\* shown; a load is asked for before anything is shown.
JobOK(j) ==
    /\ j \in Job
    /\ j.answered \/ j = StateJob
    /\ j.at = "load" => j.source = "Database"
    /\ j.at \in {"state", "transactions"} => j.source = "Remote"
    /\ j.answered => j.state.account.landed \subseteq landed /\ j.past \subseteq past
    /\ j.answered /\ j.source = "Remote" =>
          /\ j.state.account.known
          /\ entry.state.account.landed \subseteq j.state.account.landed
    /\ j.source = "Database" => ~ entry.state.account.known

NetworkOK ==
    /\ added \subseteq Txs /\ landed \subseteq added /\ past \subseteq added
    /\ timer \in BOOLEAN
    /\ saved \in WalletState /\ saved.account.landed \subseteq landed

\* The one refresh of the entry: under way with one callback, or over with the
\* timer armed.
EntryOK ==
    \/ entry = NoEntry /\ jobs = <<>>
    \/ /\ entry \in Viewers
       /\ entry.state.account.landed \subseteq landed
       /\ \/ entry.refreshing /\ \E j \in Job : jobs = <<j>> /\ JobOK(j)
          \/ jobs = <<>> /\ ~ entry.refreshing /\ timer /\ entry.viewers > 0

IInv == NetworkOK /\ EntryOK

-----------------------------------------------------------------------------
\* Sequences of one callback.

\* What the operations on sequences do with one callback.
LEMMA OneJob ==
    ASSUME NEW j \in Job
    PROVE  /\ <<j>> \in Seq(Job) /\ Len(<<j>>) = 1 /\ DOMAIN <<j>> = {1}
           /\ <<j>>[1] = j
           /\ Append(<<>>, j) = <<j>>
           /\ RemoveAt(<<j>>, 1) = <<>>
           /\ \A k \in Job : ReplaceAt(<<j>>, 1, k) = <<k>>
<1>1. RemoveAt(<<j>>, 1) = SubSeq(<<j>>, 1, 0) \o SubSeq(<<j>>, 2, 1)
  BY DEF RemoveAt
<1>2. SubSeq(<<j>>, 1, 0) = <<>> /\ SubSeq(<<j>>, 2, 1) = <<>>
  OBVIOUS
<1>3. RemoveAt(<<j>>, 1) = <<>>
  BY <1>1, <1>2
<1>4. \A k \in Job : ReplaceAt(<<j>>, 1, k) = <<k>>
  BY DEF ReplaceAt
<1> QED BY <1>3, <1>4

\* Fields of an entry and of a callback.
LEMMA Fields ==
    /\ StateJob \in Job /\ ~ StateJob.answered
    /\ StateJob.at = "state" /\ StateJob.source = "Remote"
    /\ Blank \in WalletState /\ Blank.account.landed = {} /\ ~ Blank.account.known
    /\ \A s \in WalletState :
          /\ s.account \in Account /\ s.account.landed \subseteq Txs
          /\ s.account.known \in BOOLEAN /\ s.pending \subseteq Txs
    /\ \A e \in Viewers :
          /\ e # NoEntry /\ e.viewers \in 0..MaxViewers /\ e.state \in WalletState
          /\ e.refreshing \in BOOLEAN /\ e.refreshed \in BOOLEAN
    /\ \A j \in Job : j.state \in WalletState /\ j.past \subseteq Txs
BY NoEntryAssumption DEF StateJob, Job, Blank, WalletState, Account, Viewers

\* A request that has not been answered carries nothing.
LEMMA StateJobOK == JobOK(StateJob)
BY Fields DEF JobOK

\* The type invariant and two of the properties are parts of the invariant.
LEMMA IInvTypes == IInv => TypeOK /\ OneRefresh /\ NeverForgotten
<1> SUFFICES ASSUME IInv PROVE TypeOK /\ OneRefresh /\ NeverForgotten
  OBVIOUS
<1>1. CASE jobs = <<>>
  <2>1. jobs \in Seq(Job) /\ Len(jobs) = 0 /\ DOMAIN jobs = {}
    BY <1>1
  <2> QED BY <1>1, <2>1, Fields
          DEF IInv, NetworkOK, EntryOK, TypeOK, OneRefresh, NeverForgotten
<1>2. CASE \E j \in Job : jobs = <<j>> /\ JobOK(j)
  <2>1. PICK j \in Job : jobs = <<j>> /\ JobOK(j)
    BY <1>2
  <2>2. jobs \in Seq(Job) /\ Len(jobs) = 1 /\ DOMAIN jobs = {1} /\ jobs[1] = j
    BY <2>1, OneJob
  <2>3. jobs # <<>>
    BY <2>2
  <2> QED BY <2>1, <2>2, <2>3, Fields
          DEF IInv, NetworkOK, EntryOK, JobOK, TypeOK, OneRefresh, NeverForgotten
<1> QED BY <1>1, <1>2 DEF IInv, EntryOK

-----------------------------------------------------------------------------
\* Initially there is no entry.
LEMMA InitIInv == Init => IInv
BY Fields DEF Init, IInv, NetworkOK, EntryOK

\* checkNextRefresh keeps what is shown, and refreshes or arms the timer.
LEMMA CheckIInv ==
    ASSUME IInv, entry # NoEntry, NEW e \in Viewers, e.viewers > 0,
           e.refreshing = entry.refreshing,
           e.state.account = entry.state.account,
           CheckUnlessRefreshing(e), UNCHANGED <<landed, past>>
    PROVE  EntryOK' /\ timer' \in BOOLEAN /\ entry'.state = e.state /\ entry' # NoEntry
<1> USE Fields DEF IInv, EntryOK
<1>0. e.state.account.landed \subseteq landed'
  OBVIOUS
<1>1. CASE e.refreshing
  <2>1. entry' = e /\ jobs' = jobs /\ timer' = timer
    BY <1>1 DEF CheckUnlessRefreshing
  <2>2. PICK j \in Job : jobs = <<j>> /\ JobOK(j)
    BY <1>1
  <2>3. JobOK(j)'
    BY <2>1, <2>2 DEF JobOK
  <2> QED BY <1>0, <1>1, <2>1, <2>2, <2>3 DEF NetworkOK
<1>2. CASE ~ e.refreshing
  <2>0. jobs = <<>> /\ timer /\ CheckNextRefresh(e)
    BY <1>2 DEF CheckUnlessRefreshing
  <2>1. CASE entry' = e /\ timer' = TRUE /\ jobs' = jobs
    BY <1>0, <1>2, <2>0, <2>1
  <2>2. CASE /\ entry' = [e EXCEPT !.refreshing = TRUE]
             /\ jobs' = Append(jobs, StateJob) /\ timer' = timer
    <3>1. entry' \in Viewers /\ entry'.refreshing /\ entry'.state = e.state
      BY <2>2 DEF Viewers
    <3>2. jobs' = <<StateJob>>
      BY <2>0, <2>2, OneJob
    <3>3. JobOK(StateJob)'
      BY DEF JobOK
    <3> QED BY <1>0, <2>2, <3>1, <3>2, <3>3 DEF NetworkOK
  <2> QED BY <2>0, <2>1, <2>2 DEF CheckNextRefresh
<1> QED BY <1>1, <1>2

\* The end of a refresh shows s, and refreshes again or arms the timer.
LEMMA ConcludeIInv ==
    ASSUME IInv, ~ Reentrant, entry # NoEntry, entry.viewers > 0,
           NEW i \in DOMAIN jobs, NEW s \in WalletState, NEW source,
           s.account.landed \subseteq landed,
           Conclude(i, s, source), UNCHANGED networkVars
    PROVE  IInv' /\ entry' # NoEntry /\ entry'.state = s
<1> USE Fields DEF IInv
<1>1. PICK due \in BOOLEAN :
        LET more == source = "Database" \/ due IN
          /\ jobs' = (RemoveAt(jobs, i) \o <<>>) \o (IF more THEN <<StateJob>> ELSE <<>>)
          /\ entry' = [entry EXCEPT !.refreshing = more, !.refreshed = FALSE, !.state = s]
          /\ timer' = (timer \/ ~ more)
          /\ IF source = "Remote" /\ s # entry.state THEN SaveWalletState(s)
                                                    ELSE UNCHANGED saved
  BY DEF Conclude
<1> DEFINE more == source = "Database" \/ due
<1>2. entry \in Viewers
  BY DEF EntryOK
<1>3. entry' \in Viewers /\ entry'.refreshing = more /\ entry'.state = s
        /\ entry'.viewers = entry.viewers
  BY <1>1, <1>2 DEF Viewers
<1>4. RemoveAt(jobs, i) = <<>>
  <2>1. PICK j \in Job : jobs = <<j>>
    BY DEF EntryOK
  <2> QED BY <2>1, OneJob
<1>5. jobs' = IF more THEN <<StateJob>> ELSE <<>>
  BY <1>1, <1>4
<1>6. saved' \in WalletState /\ saved'.account.landed \subseteq landed'
  BY <1>1 DEF SaveWalletState, NetworkOK, networkVars
<1>7. timer' \in BOOLEAN /\ (~ more => timer')
  BY <1>1 DEF NetworkOK
<1>8. JobOK(StateJob)'
  BY DEF JobOK
<1>9. NetworkOK'
  BY <1>6, <1>7 DEF NetworkOK, networkVars
<1> HIDE DEF more
<1>10. EntryOK'
  <2>1. entry'.state.account.landed \subseteq landed'
    BY <1>3 DEF networkVars
  <2>2. CASE more
    BY <1>3, <1>5, <1>8, <2>1, <2>2 DEF EntryOK
  <2>3. CASE ~ more
    BY <1>3, <1>5, <1>7, <2>1, <2>3 DEF EntryOK
  <2> QED BY <2>2, <2>3
<1> QED BY <1>2, <1>3, <1>9, <1>10

\* What is shown does not go back, and keeps what is pending while it can enter
\* the account: what NeverBackwards and PendingStays say of a step.
Steady ==
    entry # NoEntry /\ entry' # NoEntry =>
        /\ entry.state.account.known =>
              /\ entry'.state.account.known
              /\ entry.state.account.landed \subseteq entry'.state.account.landed
        /\ ~ Loading =>
              \A t \in entry.state.pending \ entry'.state.pending :
                  t \in entry'.state.account.landed \/ t \in past

-----------------------------------------------------------------------------
\* The owner's calls and the timer.

\* Entries with another number of viewers, or told to refresh.
LEMMA EntryUpdates ==
    ASSUME NEW e \in Viewers
    PROVE  /\ e.viewers < MaxViewers =>
                 LET n == [e EXCEPT !.viewers = @ + 1] IN
                   /\ n \in Viewers /\ n.viewers > 0 /\ n.state = e.state
                   /\ n.refreshing = e.refreshing
           /\ e.viewers > 0 =>
                 LET n == [e EXCEPT !.viewers = @ - 1] IN
                   /\ n \in Viewers /\ n.viewers = e.viewers - 1 /\ n.state = e.state
                   /\ n.refreshing = e.refreshing
           /\ LET n == [e EXCEPT !.refreshing = TRUE] IN
                /\ n \in Viewers /\ n.viewers = e.viewers /\ n.state = e.state
                /\ n.refreshing
           /\ LET n == [e EXCEPT !.refreshed = TRUE, !.refreshing = TRUE] IN
                /\ n \in Viewers /\ n.viewers = e.viewers /\ n.state = e.state
                /\ n.refreshing
           /\ \A s \in WalletState :
                LET n == [e EXCEPT !.state = s] IN
                  /\ n \in Viewers /\ n.viewers = e.viewers /\ n.state = s
                  /\ n.refreshing = e.refreshing
<1>1. e.viewers \in Nat
  BY MaxViewersAssumption DEF Viewers
<1>2. e.viewers < MaxViewers =>
        LET n == [e EXCEPT !.viewers = @ + 1] IN
          /\ n \in Viewers /\ n.viewers > 0 /\ n.state = e.state
          /\ n.refreshing = e.refreshing
  BY MaxViewersAssumption DEF Viewers
<1>3. e.viewers > 0 =>
        LET n == [e EXCEPT !.viewers = @ - 1] IN
          /\ n \in Viewers /\ n.viewers = e.viewers - 1 /\ n.state = e.state
          /\ n.refreshing = e.refreshing
  BY MaxViewersAssumption DEF Viewers
<1>4. LET n == [e EXCEPT !.refreshing = TRUE] IN
        /\ n \in Viewers /\ n.viewers = e.viewers /\ n.state = e.state
        /\ n.refreshing
  BY DEF Viewers
<1>5. LET n == [e EXCEPT !.refreshed = TRUE, !.refreshing = TRUE] IN
        /\ n \in Viewers /\ n.viewers = e.viewers /\ n.state = e.state
        /\ n.refreshing
  BY DEF Viewers
<1>6. \A s \in WalletState :
        LET n == [e EXCEPT !.state = s] IN
          /\ n \in Viewers /\ n.viewers = e.viewers /\ n.state = s
          /\ n.refreshing = e.refreshing
  BY DEF Viewers
<1> QED BY <1>2, <1>3, <1>4, <1>5, <1>6

\* A viewer is made, the first one with a load.
LEMMA CreateKeeps == ASSUME IInv, CreateAccountViewer PROVE IInv' /\ Steady
<1> USE Fields DEF IInv, networkVars
<1>0. /\ UNCHANGED <<added, landed, past, saved>>
  BY DEF CreateAccountViewer
<1>1. CASE entry = NoEntry
  <2>1. /\ entry' = [viewers |-> 1, state |-> Blank, refreshing |-> TRUE,
                     refreshed |-> FALSE]
        /\ jobs' = Append(jobs, LoadJob) /\ timer' = timer
    BY <1>1 DEF CreateAccountViewer
  <2>2. entry' \in Viewers /\ entry'.refreshing /\ entry'.state = Blank
    BY <2>1, MaxViewersAssumption DEF Viewers
  <2>3. /\ LoadJob \in Job /\ LoadJob.answered /\ LoadJob.at = "load"
        /\ LoadJob.source = "Database" /\ LoadJob.state = saved /\ LoadJob.past = {}
    BY DEF LoadJob, LoadWalletState, Job, NetworkOK
  <2>4. jobs' = <<LoadJob>>
    BY <1>1, <2>1, <2>3, OneJob DEF EntryOK
  <2>5. \A j \in Job : j = LoadJob => JobOK(j)'
    BY <1>0, <2>2, <2>3 DEF JobOK, NetworkOK
  <2>6. EntryOK'
    BY <2>2, <2>3, <2>4, <2>5 DEF EntryOK
  <2>7. NetworkOK'
    BY <1>0, <2>1 DEF NetworkOK
  <2> QED BY <1>1, <2>6, <2>7 DEF Steady
<1>2. CASE entry # NoEntry
  <2>1. /\ entry \in Viewers /\ entry.viewers < MaxViewers
        /\ CheckUnlessRefreshing([entry EXCEPT !.viewers = @ + 1])
    BY <1>2 DEF CreateAccountViewer, EntryOK
  <2>2. PICK e : e = [entry EXCEPT !.viewers = @ + 1]
    OBVIOUS
  <2>3. /\ e \in Viewers /\ e.viewers > 0
        /\ e.refreshing = entry.refreshing /\ e.state = entry.state
    BY <2>1, <2>2, EntryUpdates
  <2>4. CheckUnlessRefreshing(e)
    BY <2>1, <2>2
  <2>5. EntryOK' /\ timer' \in BOOLEAN /\ entry'.state = e.state /\ entry' # NoEntry
    BY <1>0, <1>2, <2>3, <2>4, CheckIInv
  <2> QED BY <1>0, <2>3, <2>5 DEF NetworkOK, Steady
<1> QED BY <1>1, <1>2

\* Another period.
LEMMA SetRefreshEachKeeps == ASSUME IInv, SetRefreshEach PROVE IInv' /\ Steady
<1> USE Fields DEF IInv, networkVars
<1>1. /\ entry \in Viewers /\ entry.viewers > 0 /\ CheckUnlessRefreshing(entry)
      /\ UNCHANGED <<added, landed, past, saved>>
  BY DEF SetRefreshEach, EntryOK
<1>2. EntryOK' /\ timer' \in BOOLEAN /\ entry'.state = entry.state /\ entry' # NoEntry
  BY <1>1, CheckIInv
<1> QED BY <1>1, <1>2 DEF NetworkOK, Steady

\* A viewer goes, and the entry with the last one when it is not refreshing.
LEMMA DestroyKeeps == ASSUME IInv, DestroyAccountViewer PROVE IInv' /\ Steady
<1> USE Fields DEF IInv, networkVars
<1>1. /\ entry \in Viewers /\ entry.viewers > 0
      /\ UNCHANGED <<added, landed, past, jobs, timer, saved>>
  BY DEF DestroyAccountViewer, EntryOK
<1>2. NetworkOK'
  BY <1>1 DEF NetworkOK
<1>3. CASE entry.viewers = 1 /\ ~ entry.refreshing
  <2>1. entry' = NoEntry /\ jobs' = <<>>
    BY <1>1, <1>3, OneJob DEF DestroyAccountViewer, EntryOK
  <2> QED BY <1>2, <2>1 DEF EntryOK, Steady
<1>4. CASE ~ (entry.viewers = 1 /\ ~ entry.refreshing)
  <2>1. entry' = [entry EXCEPT !.viewers = @ - 1]
    BY <1>4 DEF DestroyAccountViewer
  <2>2. /\ entry' \in Viewers /\ entry'.state = entry.state
        /\ entry'.viewers = entry.viewers - 1
        /\ entry'.refreshing = entry.refreshing
    BY <1>1, <2>1, EntryUpdates
  <2>3. \A j \in Job : JobOK(j) => JobOK(j)'
    BY <1>1, <2>2 DEF JobOK
  <2>4. EntryOK'
    <3>1. CASE entry.refreshing
      BY <1>1, <2>2, <2>3, <3>1 DEF EntryOK
    <3>2. CASE ~ entry.refreshing
      <4>1. entry'.viewers > 0
        BY <1>1, <1>4, <2>2, <3>2
      <4> QED BY <1>1, <2>2, <3>2, <4>1 DEF EntryOK
    <3> QED BY <3>1, <3>2
  <2> QED BY <1>1, <1>2, <2>2, <2>4 DEF Steady
<1> QED BY <1>3, <1>4

\* A refresh that is under way serves, or one begins.
LEMMA RefreshNowKeeps == ASSUME IInv, RefreshNow PROVE IInv' /\ Steady
<1> USE Fields DEF IInv, networkVars
<1>1. /\ entry \in Viewers /\ entry.viewers > 0
      /\ UNCHANGED <<added, landed, past, timer, saved>>
      /\ entry' = [entry EXCEPT !.refreshed = TRUE, !.refreshing = TRUE]
      /\ jobs' = IF entry.refreshing THEN jobs ELSE Append(jobs, StateJob)
  BY DEF RefreshNow, EntryOK
<1>2. entry' \in Viewers /\ entry'.state = entry.state /\ entry'.refreshing
  BY <1>1, EntryUpdates
<1>3. \A j \in Job : JobOK(j) => JobOK(j)'
  BY <1>1, <1>2 DEF JobOK
<1>4. \E j \in Job : jobs' = <<j>> /\ JobOK(j)
  <2>1. CASE entry.refreshing
    BY <1>1, <2>1 DEF EntryOK
  <2>2. CASE ~ entry.refreshing
    <3>1. jobs' = <<StateJob>>
      BY <1>1, <2>2, OneJob DEF EntryOK
    <3> QED BY <3>1, StateJobOK
  <2> QED BY <2>1, <2>2
<1>5. EntryOK'
  BY <1>1, <1>2, <1>3, <1>4 DEF EntryOK
<1> QED BY <1>1, <1>2, <1>5 DEF NetworkOK, Steady

\* A transaction is shown as pending and saved with the account.
LEMMA AddKeeps ==
    ASSUME IInv, NEW t \in Txs, AddPendingTransaction(t) PROVE IInv' /\ Steady
<1> USE Fields DEF IInv, networkVars
<1>1. added' = added \cup {t} /\ UNCHANGED <<landed, past>>
  BY DEF AddPendingTransaction
<1>2. CASE entry = NoEntry
  <2>1. UNCHANGED <<entry, jobs, timer, saved>>
    BY <1>2 DEF AddPendingTransaction
  <2> QED BY <1>1, <1>2, <2>1 DEF NetworkOK, EntryOK, Steady
<1>3. CASE entry # NoEntry
  <2> DEFINE s == [entry.state EXCEPT !.pending = @ \cup {t}]
  <2>1. SaveWalletState(s) /\ CheckUnlessRefreshing([entry EXCEPT !.state = s])
    BY <1>3 DEF AddPendingTransaction
  <2>2. entry \in Viewers /\ entry.state.account.landed \subseteq landed
    BY <1>3 DEF EntryOK
  <2>3. s \in WalletState /\ s.account = entry.state.account
          /\ s.pending = entry.state.pending \cup {t}
    BY <2>2 DEF WalletState
  <2> HIDE DEF s
  <2> DEFINE e == [entry EXCEPT !.state = s]
  <2>e. /\ e \in Viewers /\ e.viewers = entry.viewers /\ e.state = s
        /\ e.refreshing = entry.refreshing
    BY <2>2, <2>3, EntryUpdates
  <2>c. CheckUnlessRefreshing(e)
    BY <2>1
  <2> HIDE DEF e
  <2>4. CASE ~ entry.refreshing
    <3>1. entry.viewers > 0
      BY <1>3, <2>4 DEF EntryOK
    <3>2. EntryOK' /\ timer' \in BOOLEAN /\ entry'.state = s
      BY <1>1, <1>3, <2>e, <2>c, <2>3, <3>1, CheckIInv
    <3> QED BY <1>1, <2>1, <2>2, <2>3, <3>2 DEF NetworkOK, SaveWalletState, Steady
  <2>5. CASE entry.refreshing
    <3>1. entry' = e /\ jobs' = jobs /\ timer' = timer
      BY <2>e, <2>c, <2>5 DEF CheckUnlessRefreshing
    <3>2. entry' \in Viewers /\ entry'.state = s /\ entry'.refreshing
      BY <2>e, <2>5, <3>1
    <3>3. \A j \in Job : JobOK(j) => JobOK(j)'
      BY <1>1, <2>3, <3>2 DEF JobOK
    <3>4. EntryOK'
      BY <1>1, <1>3, <2>2, <2>3, <2>5, <3>1, <3>2, <3>3 DEF EntryOK
    <3> QED BY <1>1, <2>1, <2>2, <2>3, <3>1, <3>2, <3>4
            DEF NetworkOK, SaveWalletState, Steady
  <2> QED BY <2>4, <2>5
<1> QED BY <1>2, <1>3

\* The timer's call.
LEMMA TimerKeeps == ASSUME IInv, TimerFires PROVE IInv' /\ Steady
<1> USE Fields DEF IInv, networkVars
<1>1. UNCHANGED <<added, landed, past, saved>>
  BY DEF TimerFires
<1>2. CASE UNCHANGED <<entry, jobs>> /\ (timer' = timer
                \/ (timer' = FALSE /\ (entry # NoEntry => entry.refreshing)))
  <2>1. \A j \in Job : JobOK(j) => JobOK(j)'
    BY <1>1, <1>2 DEF JobOK
  <2>2. timer' \in BOOLEAN
    BY <1>2 DEF NetworkOK
  <2> QED BY <1>1, <1>2, <2>1, <2>2 DEF NetworkOK, EntryOK, Steady
<1>3. CASE /\ entry # NoEntry /\ ~ entry.refreshing
           /\ entry' = [entry EXCEPT !.refreshing = TRUE]
           /\ jobs' = Append(jobs, StateJob) /\ timer' = FALSE
  <2>1. entry \in Viewers /\ jobs = <<>> /\ entry.state.account.landed \subseteq landed
    BY <1>3 DEF EntryOK
  <2>2. entry' \in Viewers /\ entry'.state = entry.state /\ entry'.refreshing
    BY <1>3, <2>1, EntryUpdates
  <2>3. jobs' = <<StateJob>>
    BY <1>3, <2>1, OneJob
  <2>4. JobOK(StateJob)'
    BY DEF JobOK
  <2> QED BY <1>1, <1>3, <2>1, <2>2, <2>3, <2>4 DEF NetworkOK, EntryOK, Steady
<1> QED BY <1>2, <1>3 DEF TimerFires

\* Another address looks for the next refresh.
LEMMA OtherKeeps == ASSUME IInv, OtherAddress PROVE IInv' /\ Steady
<1> USE Fields DEF IInv, networkVars
<1>1. UNCHANGED <<added, landed, past, saved>>
  BY DEF OtherAddress
<1>2. CASE entry # NoEntry /\ ~ entry.refreshing /\ CheckNextRefresh(entry)
  <2>1. entry \in Viewers /\ entry.viewers > 0 /\ CheckUnlessRefreshing(entry)
    BY <1>2 DEF EntryOK, CheckUnlessRefreshing
  <2>2. EntryOK' /\ timer' \in BOOLEAN /\ entry'.state = entry.state /\ entry' # NoEntry
    BY <1>1, <2>1, CheckIInv
  <2> QED BY <1>1, <2>2 DEF NetworkOK, Steady
<1>3. CASE /\ entry # NoEntry => entry.refreshing
           /\ timer' = TRUE /\ UNCHANGED <<entry, jobs>>
  <2>1. \A j \in Job : JobOK(j) => JobOK(j)'
    BY <1>1, <1>3 DEF JobOK
  <2> QED BY <1>1, <1>3, <2>1 DEF NetworkOK, EntryOK, Steady
<1> QED BY <1>2, <1>3 DEF OtherAddress

-----------------------------------------------------------------------------
\* The network.

\* A transaction enters the account, or its time is over.
LEMMA NetworkKeeps ==
    ASSUME IInv, NEW t \in Txs, Land(t) \/ PassSyncTime(t) PROVE IInv' /\ Steady
<1> USE Fields DEF IInv, networkVars
<1>1. /\ added' = added /\ landed \subseteq landed' /\ landed' \subseteq added
      /\ past \subseteq past' /\ past' \subseteq added
      /\ UNCHANGED <<entry, jobs, timer, saved>>
  BY DEF Land, PassSyncTime, NetworkOK
<1>2. \A j \in Job : JobOK(j) => JobOK(j)'
  BY <1>1 DEF JobOK
<1> QED BY <1>1, <1>2 DEF NetworkOK, EntryOK, Steady

\* The callback that is waited for.
LEMMA TheJob ==
    ASSUME IInv, NEW i \in DOMAIN jobs
    PROVE  /\ entry \in Viewers /\ entry.refreshing /\ i = 1
           /\ entry.state.account.landed \subseteq landed
           /\ JobOK(jobs[i]) /\ jobs = <<jobs[i]>> /\ jobs[i] \in Job
<1>1. jobs # <<>>
  OBVIOUS
<1>2. PICK j \in Job : entry \in Viewers /\ entry.refreshing /\ jobs = <<j>> /\ JobOK(j)
                       /\ entry.state.account.landed \subseteq landed
  BY <1>1 DEF IInv, EntryOK
<1> QED BY <1>2, OneJob

\* The network looks at a request.
LEMMA AnswerKeeps ==
    ASSUME IInv, NEW i \in DOMAIN jobs, AnswerState(i) PROVE IInv' /\ Steady
<1> USE Fields DEF IInv, networkVars
<1> DEFINE j == [jobs[i] EXCEPT !.answered = TRUE, !.past = past,
                                !.state.account = [known |-> TRUE, landed |-> landed]]
<1>1. /\ UNCHANGED <<added, landed, past, entry, timer, saved>>
      /\ jobs' = ReplaceAt(jobs, i, j) /\ jobs[i] = StateJob
  BY TheJob DEF AnswerState, JobOK
<1>2. /\ j \in Job /\ j.answered /\ j.at = "state" /\ j.source = "Remote"
      /\ j.past = past /\ j.state.account.known /\ j.state.account.landed = landed
  BY <1>1 DEF NetworkOK, Job, WalletState, Account, StateJob, Blank
<1> HIDE DEF j
<1>3. jobs' = <<j>>
  BY <1>1, <1>2, TheJob, OneJob
<1>4. \A k \in Job : k = j => JobOK(k)'
  BY <1>1, <1>2, TheJob DEF JobOK
<1> QED BY <1>1, <1>2, <1>3, <1>4, TheJob DEF NetworkOK, EntryOK, Steady

-----------------------------------------------------------------------------
\* The callbacks.

\* An answer that finds nobody.
LEMMA DropKeeps ==
    ASSUME IInv, NEW i \in DOMAIN jobs, DropEntry(i) PROVE IInv' /\ Steady
<1> USE DEF IInv, networkVars
<1>1. entry' = NoEntry /\ jobs' = <<>> /\ UNCHANGED <<added, landed, past, timer, saved>>
  BY TheJob, OneJob DEF DropEntry
<1> QED BY <1>1 DEF NetworkOK, EntryOK, Steady

\* The same callback, one request further.
LEMMA GoOnKeeps ==
    ASSUME IInv, NEW i \in DOMAIN jobs, jobs[i].answered,
           NEW at \in {"transactions", "decrypt"},
           at = "transactions" => jobs[i].source = "Remote",
           GoOn(i, [jobs[i] EXCEPT !.at = at]), UNCHANGED networkVars
    PROVE  IInv' /\ Steady
<1> USE Fields DEF IInv, networkVars
<1> DEFINE j == [jobs[i] EXCEPT !.at = at]
<1>1. /\ jobs' = ReplaceAt(jobs, i, j)
      /\ UNCHANGED <<added, landed, past, entry, timer, saved>>
  BY DEF GoOn
<1>2. /\ j \in Job /\ j.answered /\ j.at = at /\ j.source = jobs[i].source
      /\ j.past = jobs[i].past /\ j.state = jobs[i].state
  BY TheJob DEF Job
<1> HIDE DEF j
<1>3. jobs' = <<j>>
  BY <1>1, <1>2, TheJob, OneJob
<1>4. \A k \in Job : k = j => JobOK(k)'
  BY <1>1, <1>2, TheJob DEF JobOK
<1> QED BY <1>1, <1>2, <1>3, <1>4, TheJob DEF NetworkOK, EntryOK, Steady

\* An error shows what was shown.
LEMMA FailKeeps ==
    ASSUME IInv, ~ Reentrant, NEW i \in DOMAIN jobs, Fail(i) PROVE IInv' /\ Steady
<1>1. /\ entry # NoEntry /\ entry.viewers > 0 /\ UNCHANGED networkVars
      /\ Conclude(i, entry.state, "Remote")
  BY DEF Fail, Serves
<1>2. entry.state \in WalletState /\ entry.state.account.landed \subseteq landed
  BY TheJob, Fields
<1>3. IInv' /\ entry'.state = entry.state
  BY <1>1, <1>2, ConcludeIInv
<1> QED BY <1>3 DEF Steady

\* The same account: what is too late is no longer pending.
LEMMA SameStateKeeps ==
    ASSUME IInv, ~ Reentrant, NEW i \in DOMAIN jobs, OnSameState(i)
    PROVE  IInv' /\ Steady
<1> DEFINE s == [entry.state EXCEPT !.pending = @ \ jobs[i].past]
<1>1. /\ entry # NoEntry /\ entry.viewers > 0 /\ UNCHANGED networkVars
      /\ Conclude(i, s, "Remote") /\ jobs[i].answered
  BY DEF OnSameState, Serves, Ready
<1>2. entry.state \in WalletState /\ entry.state.account.landed \subseteq landed
        /\ jobs[i].past \subseteq past
  BY <1>1, TheJob, Fields DEF JobOK
<1>3. s \in WalletState /\ s.account = entry.state.account
        /\ s.pending = entry.state.pending \ jobs[i].past
  BY <1>2 DEF WalletState
<1> HIDE DEF s
<1>4. IInv' /\ entry'.state = s
  BY <1>1, <1>2, <1>3, ConcludeIInv
<1> QED BY <1>2, <1>3, <1>4 DEF Steady

\* The end of a load or of a refresh: what came is shown.
LEMMA FinishKeeps ==
    ASSUME IInv, ~ Reentrant, NEW i \in DOMAIN jobs, jobs[i].answered,
           entry # NoEntry, entry.viewers > 0, FinishDecrypted(i),
           UNCHANGED networkVars
    PROVE  IInv' /\ Steady
<1>1. /\ jobs[i].state \in WalletState /\ jobs[i].past \subseteq past
      /\ jobs[i].state.account.landed \subseteq landed
  BY TheJob, Fields DEF JobOK
<1>2. CASE jobs[i].source = "Database"
  <2>1. Conclude(i, jobs[i].state, "Database")
    BY <1>2 DEF FinishDecrypted
  <2>2. IInv'
    BY <1>1, <2>1, ConcludeIInv
  <2>3. Loading /\ ~ entry.state.account.known
    BY <1>2, TheJob DEF Loading, JobOK
  <2> QED BY <2>2, <2>3 DEF Steady
<1>3. CASE jobs[i].source = "Remote"
  <2> DEFINE p == ComputePendingTransactions(entry.state.pending, jobs[i])
             s == [jobs[i].state EXCEPT !.pending = p]
  <2>1. Conclude(i, s, "Remote")
    BY <1>3 DEF FinishDecrypted
  <2>2. /\ p \subseteq entry.state.pending
        /\ \A t \in entry.state.pending \ p :
              t \in jobs[i].past \/ t \in jobs[i].state.account.landed
    BY DEF ComputePendingTransactions
  <2> HIDE DEF p
  <2>3. p \subseteq Txs
    BY <2>2, TheJob, Fields
  <2>4. s \in WalletState /\ s.account = jobs[i].state.account /\ s.pending = p
    BY <1>1, <2>3 DEF WalletState
  <2> HIDE DEF s
  <2>5. IInv' /\ entry'.state = s
    BY <1>1, <2>1, <2>4, ConcludeIInv
  <2>6. /\ s.account.known
        /\ entry.state.account.landed \subseteq s.account.landed
    BY <1>3, <2>4, TheJob DEF JobOK
  <2> QED BY <1>1, <2>2, <2>4, <2>5, <2>6 DEF Steady
<1> QED BY <1>2, <1>3, TheJob DEF Job

\* Each of the callbacks.
LEMMA HandlesKeeps ==
    ASSUME IInv, ~ Reentrant, NEW i \in DOMAIN jobs, Handles(i) PROVE IInv' /\ Steady
<1>1. CASE DropEntry(i)
  BY <1>1, DropKeeps
<1>2. CASE OnSameState(i)
  BY <1>2, SameStateKeeps
<1>3. CASE OnNewState(i)
  <2>1. jobs[i].answered /\ jobs[i].source = "Remote"
    BY <1>3, TheJob DEF OnNewState, Serves, Ready, JobOK
  <2> QED BY <1>3, <2>1, GoOnKeeps DEF OnNewState
<1>4. CASE OnContents(i)
  <2>1. jobs[i].answered /\ entry # NoEntry /\ entry.viewers > 0 /\ UNCHANGED networkVars
    BY <1>4 DEF OnContents, Serves, Ready
  <2>2. CASE FinishDecrypted(i)
    BY <2>1, <2>2, FinishKeeps
  <2>3. CASE GoOn(i, [jobs[i] EXCEPT !.at = "decrypt"])
    BY <2>1, <2>3, GoOnKeeps
  <2> QED BY <1>4, <2>2, <2>3 DEF OnContents
<1>5. CASE OnDecrypted(i)
  BY <1>5, FinishKeeps DEF OnDecrypted, Serves, Ready
<1> QED BY <1>1, <1>2, <1>3, <1>4, <1>5 DEF Handles

-----------------------------------------------------------------------------

\* Every step keeps the invariant and is steady.
LEMMA NextKeeps ==
    ASSUME ~ Reentrant
    PROVE  IInv /\ [Next]_vars => IInv' /\ [Steady]_vars
<1> SUFFICES ASSUME IInv, [Next]_vars PROVE IInv' /\ (Steady \/ UNCHANGED vars)
  OBVIOUS
<1>1. CASE CreateAccountViewer \/ SetRefreshEach \/ DestroyAccountViewer
             \/ RefreshNow \/ TimerFires \/ OtherAddress
  BY <1>1, CreateKeeps, SetRefreshEachKeeps, DestroyKeeps, RefreshNowKeeps, TimerKeeps,
     OtherKeeps
<1>2. CASE \E t \in Txs : AddPendingTransaction(t) \/ Land(t) \/ PassSyncTime(t)
  BY <1>2, AddKeeps, NetworkKeeps
<1>3. CASE \E i \in DOMAIN jobs : AnswerState(i) \/ Fail(i) \/ Handles(i)
  BY <1>3, AnswerKeeps, FailKeeps, HandlesKeeps
<1>4. CASE UNCHANGED vars
  <2>1. \A j \in Job : JobOK(j) => JobOK(j)'
    BY <1>4 DEF vars, networkVars, JobOK
  <2> QED BY <1>4, <2>1 DEF vars, networkVars, IInv, NetworkOK, EntryOK
<1> QED BY <1>1, <1>2, <1>3, <1>4 DEF Next

\* The invariant holds in every state.
LEMMA Inductive == ASSUME ~ Reentrant PROVE Spec => []IInv
<1>1. IInv /\ [Next]_vars => IInv'
  BY NextKeeps
<1> QED BY InitIInv, <1>1, PTL DEF Spec

\* The types of an account's entry and of the callbacks that are awaited for it.
THEOREM ViewersTypeCorrect == ASSUME ~ Reentrant PROVE Spec => []TypeOK
BY Inductive, IInvTypes, PTL

\* ton_account_viewers.cpp: an account is refreshed by one chain of requests.
THEOREM OneRefreshAtATime == ASSUME ~ Reentrant PROVE Spec => []OneRefresh
BY Inductive, IInvTypes, PTL

\* checkNextRefresh: an account with viewers is being refreshed or waits for the
\* timer.
THEOREM NeverForgottenHolds == ASSUME ~ Reentrant PROVE Spec => []NeverForgotten
BY Inductive, IInvTypes, PTL

\* saveNewState: what is shown is never replaced by an older account.
THEOREM NeverGoesBackwards == ASSUME ~ Reentrant PROVE Spec => NeverBackwards
<1>1. [Steady]_vars =>
        [entry # NoEntry /\ entry' # NoEntry /\ entry.state.account.known =>
           /\ entry'.state.account.known
           /\ entry.state.account.landed \subseteq entry'.state.account.landed]_vars
  BY DEF Steady
<1>2. IInv /\ [Next]_vars => [Steady]_vars
  BY NextKeeps
<1> QED BY Inductive, <1>1, <1>2, PTL DEF Spec, NeverBackwards

\* ComputePendingTransactions and checkPendingForSameState: only what is seen in
\* the account, or too late for it, is no longer pending.
THEOREM PendingAlwaysStays == ASSUME ~ Reentrant PROVE Spec => PendingStays
<1>1. [Steady]_vars =>
        [entry # NoEntry /\ entry' # NoEntry /\ ~ Loading =>
           \A t \in entry.state.pending \ entry'.state.pending :
               t \in entry'.state.account.landed \/ t \in past]_vars
  BY DEF Steady
<1>2. IInv /\ [Next]_vars => [Steady]_vars
  BY NextKeeps
<1> QED BY Inductive, <1>1, <1>2, PTL DEF Spec, PendingStays

=============================================================================
