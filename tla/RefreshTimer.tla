---------------------------- MODULE RefreshTimer ----------------------------
(***************************************************************************)
(* details/ton_account_viewers.cpp, checkNextRefresh: one timer for all    *)
(* accounts.  Each is to be refreshed some time after its last refresh: as *)
(* often as the most impatient of its viewers wants, or sooner while       *)
(* something is pending.  AccountViewers has the refreshes, without their  *)
(* time and for one account; here a refresh is under way or is not.        *)
(*                                                                         *)
(* Time is counted in units; the timer may ring a unit early, or late.     *)
(***************************************************************************)
EXTENDS Integers, FiniteSets, FiniteSetsExt

CONSTANTS
    Accounts,       \* addresses
    Slots,          \* bound: viewers of an account
    Delays,         \* what refreshEach may be
    DefaultDelay,   \* kDefaultRefreshEach
    PendingDelay    \* kRefreshWithPendingTimeout

ASSUME DelaysAssumption ==
    /\ Delays \subseteq Nat \ {0} /\ IsFiniteSet(Delays)
    /\ DefaultDelay \in Delays /\ PendingDelay \in Nat \ {0}

VARIABLES
    accounts,   \* _map
    rings       \* the time to the end of _refreshTimer, or Off

timerVars == <<accounts, rings>>

Off == -1
NotShown == [viewers |-> [s \in Slots |-> 0], refreshing |-> FALSE,
             pending |-> FALSE, since |-> 0]

\* Time that makes no difference any more.
Long == Max(Delays \cup {PendingDelay})

\* Of an account: refreshEach of its viewers (0: no viewer), and the time since
\* lastRefreshFinished, which has no meaning during a refresh.
AccountEntry ==
    [viewers : [Slots -> Delays \cup {0}], refreshing : BOOLEAN,
     pending : BOOLEAN, since : 0..Long]

TimerInit ==
    /\ accounts = [a \in Accounts |-> NotShown]
    /\ rings = Off

Periods(e) == {e.viewers[s] : s \in Slots} \ {0}
Shown(e) == e.refreshing \/ Periods(e) # {}

-----------------------------------------------------------------------------
\* checkNextRefresh

Resting(m) == {a \in Accounts : Shown(m[a]) /\ ~ m[a].refreshing}

\* How long a resting account has still to wait.
In(e) == Min(Periods(e) \cup (IF e.pending THEN {PendingDelay} ELSE {})) - e.since

\* Mutant of CheckAccounts: a timer that is on stays as it is.
CheckAccountsUnlessOn(m, timer) ==
    LET due == {a \in Resting(m) : In(m[a]) <= 0}
        later == {In(m[a]) : a \in Resting(m) \ due}
    IN /\ accounts' = [a \in Accounts |->
                         IF a \in due THEN [m[a] EXCEPT !.refreshing = TRUE, !.since = 0]
                                      ELSE m[a]]
       /\ rings' = IF later = {} \/ timer # Off THEN timer ELSE Min(later)

\* Those that are due are refreshed; the timer is set for the first of the
\* others, and left alone when there is none.
CheckAccounts(m, timer) ==
    LET due == {a \in Resting(m) : In(m[a]) <= 0}
        later == {In(m[a]) : a \in Resting(m) \ due}
    IN /\ accounts' = [a \in Accounts |->
                         IF a \in due THEN [m[a] EXCEPT !.refreshing = TRUE, !.since = 0]
                                      ELSE m[a]]
       /\ rings' = IF later = {} THEN timer ELSE Min(later)

TimerRings ==
    /\ rings \in {0, 1}
    /\ CheckAccounts(accounts, Off)

\* Time passes, whether the timer was heard or not.
PassTime ==
    /\ accounts' = [a \in Accounts |->
                      IF a \in Resting(accounts)
                        THEN [accounts[a] EXCEPT !.since = Min({@ + 1, Long})]
                        ELSE accounts[a]]
    /\ rings' = IF rings > 0 THEN rings - 1 ELSE rings

-----------------------------------------------------------------------------
\* The owner.

\* createAccountViewer: the first viewer begins with the database.
ShowAccount(a, s) ==
    /\ accounts[a].viewers[s] = 0
    /\ CheckAccounts([accounts EXCEPT
                        ![a].viewers[s] = DefaultDelay,
                        ![a].refreshing = @ \/ ~ Shown(accounts[a])], rings)

ChangeDelay(a, s, d) ==
    /\ accounts[a].viewers[s] \notin {0, d}
    /\ CheckAccounts([accounts EXCEPT ![a].viewers[s] = d], rings)

\* The end of a viewer; nothing is checked.
HideAccount(a, s) ==
    /\ accounts[a].viewers[s] # 0
    /\ LET e == [accounts[a] EXCEPT !.viewers[s] = 0] IN
         accounts' = [accounts EXCEPT ![a] = IF Shown(e) THEN e ELSE NotShown]
    /\ UNCHANGED rings

RefreshAccountNow(a) ==
    /\ a \in Resting(accounts)
    /\ accounts' = [accounts EXCEPT ![a].refreshing = TRUE, ![a].since = 0]
    /\ UNCHANGED rings

AddPending(a) ==
    /\ Shown(accounts[a])
    /\ CheckAccounts([accounts EXCEPT ![a].pending = TRUE], rings)

\* finishRefreshing and checkNextRefresh, after an error or not; nothing is
\* checked when the viewers have gone.  What is pending is the database's, or
\* what is left of it, or more.
EndRefresh(a) ==
    /\ accounts[a].refreshing
    /\ IF Periods(accounts[a]) = {}
         THEN /\ accounts' = [accounts EXCEPT ![a] = NotShown]
              /\ UNCHANGED rings
         ELSE \E pending \in BOOLEAN :
                CheckAccounts([accounts EXCEPT ![a].refreshing = FALSE,
                                               ![a].pending = pending], rings)

-----------------------------------------------------------------------------

TimerNext ==
    \/ TimerRings \/ PassTime
    \/ \E a \in Accounts :
         \/ \E s \in Slots :
              \/ ShowAccount(a, s) \/ HideAccount(a, s)
              \/ \E d \in Delays : ChangeDelay(a, s, d)
         \/ RefreshAccountNow(a) \/ AddPending(a) \/ EndRefresh(a)

TimerSpec == TimerInit /\ [][TimerNext]_timerVars

\* Time passes, and a timer that has ended is heard.
TimerFairness == WF_timerVars(PassTime) /\ WF_timerVars(TimerRings)

-----------------------------------------------------------------------------
(* Safety *)

\* No account is forgotten for another: whatever viewers come, go, change their
\* minds or ask for meanwhile, the timer never rings later than the next
\* refresh of any account that waits for one.
TimerCovers(a) == rings # Off /\ rings <= Max({In(accounts[a]), 0})

(* Liveness *)

\* And so each of them is refreshed in the end, or has lost its viewers.
RefreshComesInTime ==
    /\ [](\A a \in Resting(accounts) : TimerCovers(a))
    /\ \A a \in Accounts : a \in Resting(accounts) ~> a \notin Resting(accounts)

=============================================================================
