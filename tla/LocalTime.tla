----------------------------- MODULE LocalTime -----------------------------
(***************************************************************************)
(* Wallet::checkLocalTime and details/ton_local_time_syncer.cpp: a local   *)
(* clock far from the time of the blockchain is set to that of a lite      *)
(* server, if the answer comes fast and agrees with the blockchain.        *)
(*                                                                         *)
(* Times are relative to the true time, which the clock of the server      *)
(* tells, in units of five seconds.  The time of the blockchain is counted *)
(* from when the state of an account was asked for, so that it is behind   *)
(* as the blockchain is, or ahead when the answer took long; crl::now goes *)
(* as fast as the true time, so that it stays so.                          *)
(***************************************************************************)
EXTENDS Integers

CONSTANTS
    Offsets,    \* how far the local clock may be from the true time
    Behinds,    \* how far behind the time of the blockchain may be
    MaxSlow     \* bound: how long a request is waited for

ASSUME OffsetsAssumption == Offsets \subseteq Int /\ 0 \in Offsets
ASSUME BehindsAssumption == Behinds \subseteq Int /\ 0 \in Behinds
ASSUME MaxSlowAssumption == MaxSlow \in Nat

VARIABLES
    local,      \* base::unixtime::now
    syncer,     \* Wallet::_localTimeSyncer is there
    behind,     \* LocalTimeSyncer::_blockchainTime
    request,    \* liteServer.getInfo: how it went
    sent,       \* how long ago it was sent, up to MaxSlow
    served      \* how long ago it was served, up to the same

vars == <<local, syncer, behind, request, sent, served>>

kSyncTimeDelta == 6
kSlowRequestThreshold == 2

Init ==
    /\ local \in Offsets
    /\ syncer = FALSE /\ behind = 0
    /\ request = "none" /\ sent = 0 /\ served = 0

-----------------------------------------------------------------------------

\* Mutant of IsTimeSimilarEnough: a clock that is slow is not looked at.
IsTimeNotTooMuch(a, b) == a - b < kSyncTimeDelta

IsTimeSimilarEnough(a, b) == a - b \in (1 - kSyncTimeDelta)..(kSyncTimeDelta - 1)

\* The time of the server is that of the moment when it served the request.
LiteServerTime == - served

\* Mutant of IsRequestFastEnough: no answer is too slow.
IsRequestEverFast == sent >= 0

IsRequestFastEnough == sent < kSlowRequestThreshold

\* The state of an account tells the time of the blockchain.
CheckLocalTime(b) ==
    /\ UNCHANGED local
    /\ \/ /\ syncer
          /\ behind' = b
          /\ UNCHANGED <<syncer, request, sent, served>>
       \/ /\ ~ syncer /\ ~ IsTimeSimilarEnough(local, - b)
          /\ syncer' = TRUE /\ behind' = b
          /\ request' = "out" /\ sent' = 0 /\ served' = 0

\* The callback of getLiteServerTime, and sync.
GetTime ==
    /\ request = "answered"
    /\ local' = IF /\ IsRequestFastEnough
                   /\ IsTimeSimilarEnough(LiteServerTime, - behind)
                   /\ ~ IsTimeSimilarEnough(LiteServerTime, local)
                  THEN LiteServerTime ELSE local
    /\ syncer' = FALSE
    /\ request' = "none" /\ sent' = 0 /\ served' = 0 /\ behind' = 0

\* An error has no callback: nothing removes the syncer.
Forget ==
    /\ request = "failed"
    /\ request' = "forgotten"
    /\ UNCHANGED <<local, syncer, behind, sent, served>>

\* The library, and the network behind it.
Serve ==
    /\ request = "out"
    /\ request' \in {"answered", "failed"}
    /\ UNCHANGED <<local, syncer, behind, sent, served>>

\* Five seconds pass.
Pass ==
    /\ request \in {"out", "answered"}
    /\ sent < MaxSlow
    /\ sent' = sent + 1
    /\ served' = IF request = "answered" THEN served + 1 ELSE served
    /\ UNCHANGED <<local, syncer, behind, request>>

\* The user, or the system, sets the clock.
SetClock ==
    /\ local' \in Offsets
    /\ UNCHANGED <<syncer, behind, request, sent, served>>

-----------------------------------------------------------------------------

Next ==
    \/ \E b \in Behinds : CheckLocalTime(b)
    \/ Serve \/ Pass \/ GetTime \/ Forget
    \/ SetClock

Spec == Init /\ [][Next]_vars

\* The owner refreshes; requests are served, and again and again one is served
\* fast and, when the account is up to date, heard fast.
Fairness ==
    /\ WF_vars(CheckLocalTime(0)) /\ WF_vars(Serve) /\ WF_vars(Forget)
    /\ WF_vars(GetTime)
    /\ SF_vars(Serve /\ IsRequestFastEnough /\ request' = "answered")
    /\ SF_vars(CheckLocalTime(0) /\ request = "answered" /\ IsRequestFastEnough)
    /\ SF_vars(GetTime /\ IsRequestFastEnough /\ behind = 0)

-----------------------------------------------------------------------------
(* Safety *)

Distance(a) == IF a < 0 THEN - a ELSE a

\* LocalTimeSyncer::sync never makes the clock worse, however old the answer
\* and whatever the blockchain, or the user, has done to the time meanwhile.
ClockGetsBetter ==
    [][request = "answered" /\ request' # "answered" =>
          \/ local' = local
          \/ Distance(local') < Distance(local)]_vars

(* Liveness *)

\* Wallet::checkLocalTime: a wrong clock is set, or set right by the user,
\* again and again, but for what a fast answer may take, when the blockchain is
\* never far behind, unless a request failed.  The exception is real: the
\* syncer whose request failed stays, and no other one is made.
WrongClockIsSet ==
    \/ <>[](request = "forgotten")
    \/ []<>(Distance(local) < kSyncTimeDelta + kSlowRequestThreshold)

=============================================================================
