------------------------------ MODULE MCCalls ------------------------------
\* Calls of Wallet that share nothing: the clock is set by a helper, files are
\* loaded by another, transactions are sent, accounts are refreshed in time; keys
\* are made without a Wallet.  A behaviour exercises one.
EXTENDS LocalTime, WebLoader, Sending, Utility, RefreshTimer

VARIABLE call

\* A minute slow, nearly right, right, a minute fast.
MCOffsets == {-12, -6, -5, 0, 1, 5, 6, 12}
MCBehinds == -8..8

CallsInit ==
    /\ Init /\ WebInit /\ SendInit /\ UtilityInit /\ TimerInit
    /\ call \in {"checkLocalTime", "loadWebResource", "sendGrams", "CreateKey",
                 "checkNextRefresh"}
    /\ call # "checkLocalTime" => local = 0

CallsNext ==
    /\ UNCHANGED call
    /\ \/ /\ call = "checkLocalTime" /\ Next
          /\ UNCHANGED <<webVars, sendVars, utilityVars, timerVars>>
       \/ /\ call = "loadWebResource" /\ WebNext
          /\ UNCHANGED <<vars, sendVars, utilityVars, timerVars>>
       \/ /\ call = "sendGrams" /\ SendNext
          /\ UNCHANGED <<vars, webVars, utilityVars, timerVars>>
       \/ /\ call = "CreateKey" /\ UtilityNext
          /\ UNCHANGED <<vars, webVars, sendVars, timerVars>>
       \/ /\ call = "checkNextRefresh" /\ TimerNext
          /\ UNCHANGED <<vars, webVars, sendVars, utilityVars>>

CallsSpec ==
    /\ CallsInit
    /\ [][CallsNext]_<<vars, webVars, sendVars, utilityVars, timerVars, call>>
    /\ Fairness /\ WebFairness /\ SendFairness /\ UtilityFairness /\ TimerFairness
=============================================================================
