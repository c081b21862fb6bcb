---------------------------- MODULE CallsProofs ----------------------------
(***************************************************************************)
(* What the calls that share nothing promise, proved for every value of    *)
(* their constants: LocalTime, WebLoader, Sending, Utility, RefreshTimer.  *)
(***************************************************************************)
EXTENDS LocalTime, WebLoader, Sending, Utility, RefreshTimer,
        SequenceTheorems, FiniteSetTheorems, WellFoundedInduction, TLAPS

-----------------------------------------------------------------------------
(* Sending *)

\* Where a call is before it can have said or done anything, and where it is
\* once its transaction is shown and was reported ready.
Early ==
    {"none", "create", "created", "not created", "estimate", "estimated",
     "not estimated"}
Late == {"ready", "send", "sent", "not sent"}

SendTypes ==
    /\ calls \in [Calls -> Early \cup Late \cup {"pending", "forget", "done"}]
    /\ told \in [Calls -> Seq({"ready", "error", "done"})]

\* Of each call, what it has said and what has become of its transaction tell
\* how far it is.
FarAsTold ==
    \A c \in Calls :
        /\ calls[c] \in Early \cup {"pending"} => told[c] = <<>>
        /\ calls[c] \in Early => c \notin pending
        /\ c \in inside \/ calls[c] \in Late => c \in pending
        /\ calls[c] \in Late => told[c] # <<>> /\ told[c][1] = "ready"
        /\ calls[c] \in Early \cup {"pending", "ready", "send"} => c \notin network
        /\ c \in network => c \in pending /\ told[c] # <<>> /\ told[c][1] = "ready"
        /\ told[c] # <<>> /\ told[c][1] = "error" => c \notin pending \cup network

SendIInv == SendTypes /\ FarAsTold

\* A report is the first one, or leaves the first one as it is.
LEMMA TellProperties ==
    ASSUME NEW t \in Seq({"ready", "error", "done"}),
           NEW what \in {"ready", "error", "done"}
    PROVE  /\ Append(t, what) \in Seq({"ready", "error", "done"})
           /\ Append(t, what) # <<>>
           /\ t = <<>> => Append(t, what)[1] = what
           /\ t # <<>> => Append(t, what)[1] = t[1]
<1>1. /\ Append(t, what) \in Seq({"ready", "error", "done"})
      /\ Len(Append(t, what)) = Len(t) + 1
      /\ \A i \in 1..Len(t) : Append(t, what)[i] = t[i]
      /\ Append(t, what)[Len(t) + 1] = what
  BY AppendProperties
<1>2. Len(t) \in Nat /\ (t # <<>> => Len(t) \in Nat \ {0})
  BY EmptySeq, LenProperties
<1>3. Append(t, what) # <<>>
  BY <1>1, <1>2
<1>4. t = <<>> => Append(t, what)[1] = what
  BY <1>1
<1>5. t # <<>> => 1 \in 1..Len(t)
  BY <1>2
<1> QED BY <1>1, <1>3, <1>4, <1>5

\* The same, of what a call says.
LEMMA TellReport ==
    ASSUME SendTypes, NEW c \in Calls, NEW what \in {"ready", "error", "done"},
           told' = [told EXCEPT ![c] = Append(@, what)]
    PROVE  /\ told' \in [Calls -> Seq({"ready", "error", "done"})]
           /\ \A d \in Calls : d # c => told'[d] = told[d]
           /\ told'[c] # <<>>
           /\ told[c] = <<>> => told'[c][1] = what
           /\ told[c] # <<>> => told'[c][1] = told[c][1]
BY TellProperties DEF SendTypes

\* No call has begun.
LEMMA SendInitIInv == SendInit => SendIInv
BY DEF SendInit, SendIInv, SendTypes, FarAsTold, Early, Late

\* A step of a call leaves the others where they are.
LEMMA SendStepIInv ==
    ASSUME SendIInv, NEW c \in Calls, Call(c) \/ Library(c) \/ Main(c)
    PROVE  SendIInv'
<1> USE DEF SendIInv, SendTypes, FarAsTold, Moves, Tell
<1>0. told[c] \in Seq({"ready", "error", "done"})
  OBVIOUS
<1>1. CASE Call(c)
  BY <1>1 DEF Call, Early, Late
<1>2. CASE CreateQuery(c)
  BY <1>2 DEF CreateQuery, Early, Late
<1>3. CASE EstimateFees(c)
  BY <1>3 DEF EstimateFees, Early, Late
<1>4. CASE ForgetQuery(c)
  BY <1>4 DEF ForgetQuery, Early, Late
<1>5. CASE SendQuery(c)
  BY <1>5 DEF SendQuery, Early, Late
<1>6. CASE OnError(c)
  <2>1. /\ calls[c] \in {"not created", "not estimated", "not sent"}
        /\ calls' = [calls EXCEPT ![c] = "done"]
        /\ told' = [told EXCEPT ![c] = Append(@, "error")]
        /\ UNCHANGED <<inside, pending, network>>
    BY <1>6 DEF OnError, Hears
  <2> QED BY <1>0, <2>1, TellReport DEF Early, Late
<1>7. CASE OnCheckCreated(c)
  BY <1>7 DEF OnCheckCreated, Early, Late
<1>8. CASE OnEstimated(c)
  BY <1>0, <1>8, TellProperties DEF OnEstimated, Early, Late
<1>9. CASE OnSendCreated(c)
  BY <1>9 DEF OnSendCreated, Early, Late
<1>10. CASE Ready(c)
  BY <1>0, <1>10, TellProperties DEF Ready, Early, Late
<1>11. CASE Send(c)
  BY <1>11 DEF Send, Early, Late
<1>12. CASE Return(c)
  BY <1>12 DEF Return, Early, Late
<1>13. CASE OnSent(c)
  <2>1. /\ calls[c] = "sent" /\ calls' = [calls EXCEPT ![c] = "done"]
        /\ told' = [told EXCEPT ![c] = Append(@, "done")]
        /\ UNCHANGED <<inside, pending, network>>
    BY <1>13 DEF OnSent, Hears
  <2> QED BY <1>0, <2>1, TellReport DEF Early, Late
<1> QED BY <1>1, <1>2, <1>3, <1>4, <1>5, <1>6, <1>7, <1>8, <1>9, <1>10, <1>11,
           <1>12, <1>13 DEF Library, Main

\* Every step keeps the inductive invariant.
LEMMA SendNextIInv == SendIInv /\ [SendNext]_sendVars => SendIInv'
<1> SUFFICES ASSUME SendIInv, [SendNext]_sendVars PROVE SendIInv'
  OBVIOUS
<1>1. CASE \E c \in Calls : Call(c) \/ Library(c) \/ Main(c)
  BY <1>1, SendStepIInv
<1>2. CASE Leave
  BY <1>2 DEF Leave, SendIInv, SendTypes, FarAsTold
<1>3. CASE UNCHANGED sendVars
  BY <1>3 DEF sendVars, SendIInv, SendTypes, FarAsTold
<1> QED BY <1>1, <1>2, <1>3 DEF SendNext

\* Wallet::sendGrams: what the network may have got is pending and was reported
\* ready; what was first reported as an error was neither shown nor sent.
THEOREM SentIsAlwaysPending == SendSpec => []SentIsPending
<1>1. SendIInv => SentIsPending
  BY DEF SendIInv, FarAsTold, SentIsPending, Calls
<1> QED BY SendInitIInv, SendNextIInv, <1>1, PTL DEF SendSpec

\* Wallet::sendGrams: if (!weak) return, and the guards of the requests.
THEOREM NothingComesAfterDestructor == SendSpec => NothingAfterDestructor
<1>1. [SendNext]_sendVars =>
        [~ alive => UNCHANGED <<queries, pending, network, told>>]_sendVars
  <2> SUFFICES ASSUME SendNext, ~ alive
               PROVE UNCHANGED <<queries, pending, network, told>>
    BY DEF sendVars
  <2>1. ~ Leave
    BY DEF Leave
  <2>2. PICK c \in Calls : Call(c) \/ Library(c) \/ Main(c)
    BY <2>1 DEF SendNext
  <2>3. ~ Call(c) /\ ~ Library(c)
    BY DEF Call, Library, CreateQuery, EstimateFees, ForgetQuery, SendQuery
  <2>4. Return(c)
    BY <2>2, <2>3 DEF Main, OnError, OnCheckCreated, OnEstimated, OnSendCreated,
                      Ready, Send, OnSent, Hears
  <2> QED BY <2>4 DEF Return
<1> QED BY <1>1, PTL DEF SendSpec, NothingAfterDestructor

-----------------------------------------------------------------------------
(* LocalTime *)

\* An answer is not older than its request.
ServedAfterSent ==
    /\ local \in Int /\ sent \in Nat /\ served \in Nat
    /\ served <= sent

\* Every step keeps it: time passes for both, once the request is answered.
LEMMA NextServedAfterSent == ServedAfterSent /\ [Next]_vars => ServedAfterSent'
<1> SUFFICES ASSUME ServedAfterSent, [Next]_vars PROVE ServedAfterSent'
  OBVIOUS
<1> USE DEF ServedAfterSent
<1>1. ASSUME NEW b \in Behinds, CheckLocalTime(b) PROVE ServedAfterSent'
  BY <1>1 DEF CheckLocalTime
<1>2. CASE Serve
  BY <1>2 DEF Serve
<1>3. CASE Pass
  BY <1>3 DEF Pass
<1>4. CASE GetTime
  BY <1>4 DEF GetTime, LiteServerTime
<1>5. CASE Forget
  BY <1>5 DEF Forget
<1>6. CASE SetClock
  BY <1>6, OffsetsAssumption DEF SetClock
<1>7. CASE UNCHANGED vars
  BY <1>7 DEF vars
<1> QED BY <1>1, <1>2, <1>3, <1>4, <1>5, <1>6, <1>7 DEF Next

\* LocalTimeSyncer::sync: a clock that differs by kSyncTimeDelta from an answer
\* heard within kSlowRequestThreshold was further from the true time than the
\* answer is, since the second is the smaller.
THEOREM ClockAlwaysGetsBetter == Spec => ClockGetsBetter
<1> DEFINE Better ==
      request = "answered" /\ request' # "answered" =>
          \/ local' = local
          \/ Distance(local') < Distance(local)
<1>1. Init => ServedAfterSent
  BY OffsetsAssumption DEF Init, ServedAfterSent
<1>2. ServedAfterSent /\ [Next]_vars => [Better]_vars
  <2> SUFFICES ASSUME ServedAfterSent, Next, request = "answered",
                      request' # "answered", local' # local
               PROVE Distance(local') < Distance(local)
    BY DEF vars
  <2>1. CASE GetTime
    <3>1. /\ IsRequestFastEnough /\ ~ IsTimeSimilarEnough(LiteServerTime, local)
          /\ local' = LiteServerTime
      BY <2>1 DEF GetTime
    <3>2. served \in {0, 1} /\ local \in Int
      BY <3>1 DEF ServedAfterSent, IsRequestFastEnough, kSlowRequestThreshold
    <3>3. ~ (-5 <= - served - local /\ - served - local <= 5)
      BY <3>1, <3>2 DEF IsTimeSimilarEnough, LiteServerTime, kSyncTimeDelta
    <3> QED BY <3>1, <3>2, <3>3 DEF LiteServerTime, Distance
  <2>2. CASE \E b \in Behinds : CheckLocalTime(b)
    BY <2>2 DEF CheckLocalTime
  <2>3. CASE Serve \/ Pass \/ Forget \/ SetClock
    BY <2>3 DEF Serve, Pass, Forget, SetClock
  <2> QED BY <2>1, <2>2, <2>3 DEF Next
<1> QED BY <1>1, <1>2, NextServedAfterSent, PTL DEF Spec, ClockGetsBetter

-----------------------------------------------------------------------------
(* Lists: what the lists of callbacks need of sequences. *)

NoRepeats(s) == \A i, j \in DOMAIN s : s[i] = s[j] => i = j

\* An empty list has nobody.
LEMMA ListEmpty ==
    ASSUME NEW S, NEW s \in Seq(S)
    PROVE  /\ s = <<>> <=> ToSet(s) = {}
           /\ ToSet(s) \subseteq S
           /\ NoRepeats(<<>>) /\ ToSet(<<>>) = {}
<1>1. DOMAIN s = 1..Len(s) /\ Len(s) \in Nat /\ \A i \in 1..Len(s) : s[i] \in S
  BY LenProperties, ElementOfSeq
<1>2. s # <<>> => 1 \in DOMAIN s
  BY <1>1, EmptySeq
<1>3. ToSet(<<>>) = {} /\ NoRepeats(<<>>)
  <2>1. DOMAIN <<>> = {}
    OBVIOUS
  <2> QED BY <2>1 DEF ToSet, NoRepeats
<1>4. ToSet(s) \subseteq S
  BY <1>1 DEF ToSet
<1>5. s # <<>> => ToSet(s) # {}
  BY <1>2 DEF ToSet
<1> QED BY <1>3, <1>4, <1>5

\* Whoever comes last joins those who are there.
LEMMA ListAppend ==
    ASSUME NEW S, NEW s \in Seq(S), NEW x \in S
    PROVE  /\ Append(s, x) \in Seq(S) /\ Append(s, x) # <<>>
           /\ ToSet(Append(s, x)) = ToSet(s) \cup {x}
           /\ NoRepeats(s) /\ x \notin ToSet(s) => NoRepeats(Append(s, x))
<1> DEFINE t == Append(s, x)
<1>1. /\ t \in Seq(S) /\ Len(t) = Len(s) + 1
      /\ \A i \in 1..Len(s) : t[i] = s[i]
      /\ t[Len(s) + 1] = x
  BY AppendProperties
<1>2. DOMAIN s = 1..Len(s) /\ Len(s) \in Nat /\ DOMAIN t = 1..(Len(s) + 1)
  BY <1>1, LenProperties
<1> HIDE DEF t
<1>3. t # <<>>
  BY <1>1, <1>2, EmptySeq
<1>4. ToSet(t) = ToSet(s) \cup {x}
  <2>1. DOMAIN t = DOMAIN s \cup {Len(s) + 1}
    BY <1>2
  <2> QED BY <1>1, <1>2, <2>1 DEF ToSet
<1>5. ASSUME NoRepeats(s), x \notin ToSet(s) PROVE NoRepeats(t)
  <2> SUFFICES ASSUME NEW i \in DOMAIN t, NEW j \in DOMAIN t, t[i] = t[j] PROVE i = j
    BY DEF NoRepeats
  <2>1. \A k \in DOMAIN s : s[k] # x
    BY <1>5 DEF ToSet
  <2>2. CASE i \in DOMAIN s /\ j \in DOMAIN s
    BY <1>1, <1>2, <1>5, <2>2 DEF NoRepeats
  <2>3. CASE i = Len(s) + 1 \/ j = Len(s) + 1
    BY <1>1, <1>2, <2>1, <2>3
  <2> QED BY <1>2, <2>2, <2>3
<1> QED BY <1>1, <1>3, <1>4, <1>5 DEF t

\* Whoever is called leaves the others.
LEMMA ListTail ==
    ASSUME NEW S, NEW s \in Seq(S), s # <<>>
    PROVE  /\ Head(s) \in S /\ Head(s) \in ToSet(s) /\ Tail(s) \in Seq(S)
           /\ NoRepeats(s) => /\ NoRepeats(Tail(s))
                              /\ ToSet(Tail(s)) = ToSet(s) \ {Head(s)}
<1> DEFINE t == Tail(s)
<1>1. /\ Head(s) \in S /\ t \in Seq(S) /\ Len(t) = Len(s) - 1
      /\ \A i \in 1..Len(t) : t[i] = s[i + 1]
  BY HeadTailProperties
<1>2. /\ DOMAIN s = 1..Len(s) /\ Len(s) \in Nat /\ Len(s) # 0
      /\ DOMAIN t = 1..(Len(s) - 1)
  BY <1>1, LenProperties, EmptySeq
<1>3. Head(s) = s[1]
  OBVIOUS
<1> HIDE DEF t
<1>4. Head(s) \in ToSet(s)
  BY <1>2, <1>3 DEF ToSet
<1>5. ASSUME NoRepeats(s) PROVE NoRepeats(t) /\ ToSet(t) = ToSet(s) \ {Head(s)}
  <2>1. NoRepeats(t)
    BY <1>1, <1>2, <1>5 DEF NoRepeats
  <2>2. \A i \in DOMAIN t : t[i] \in ToSet(s) /\ t[i] # Head(s)
    BY <1>1, <1>2, <1>3, <1>5 DEF NoRepeats, ToSet
  <2>3. ASSUME NEW y \in ToSet(s), y # Head(s) PROVE y \in ToSet(t)
    <3>1. PICK i \in DOMAIN s : s[i] = y
      BY DEF ToSet
    <3>2. i - 1 \in DOMAIN t /\ t[i - 1] = y
      BY <1>1, <1>2, <1>3, <2>3, <3>1
    <3> QED BY <3>2 DEF ToSet
  <2> QED BY <2>1, <2>2, <2>3 DEF ToSet
<1> QED BY <1>1, <1>4, <1>5 DEF t

-----------------------------------------------------------------------------
(* WebLoader *)

WebTypes ==
    /\ wallet \in BOOLEAN /\ loader \in BOOLEAN
    /\ requests \in [Urls -> Seq(Loads)]
    /\ downloads \in [Urls -> {"none", "going", "finished"}]
    /\ running.list \in Seq(Loads) /\ running = [on |-> running.on, list |-> running.list]
    /\ loaded \subseteq Loads
    /\ results \in [Loads -> Seq({"done"})]

\* Where those who wait are: in one list, once; and nobody else is in a list.
InOneList ==
    /\ \A l \in Loads : results[l] # <<>> => l \in loaded
    /\ \A l \in Waiting :
          l \in ToSet(running.list) \/ \E u \in Urls : l \in ToSet(requests[u])
    /\ \A u \in Urls :
          /\ NoRepeats(requests[u])
          /\ ToSet(requests[u]) \subseteq Waiting \ ToSet(running.list)
    /\ \A u, v \in Urls :
          u # v => ToSet(requests[u]) \cap ToSet(requests[v]) = {}
    /\ NoRepeats(running.list)
    /\ ToSet(running.list) \subseteq Waiting

\* The loader is there while it has something to do, and only then.
LoaderHasWork ==
    /\ \A u \in Urls : requests[u] # <<>> <=> downloads[u] # "none"
    /\ loader <=> running.on \/ \E u \in Urls : requests[u] # <<>>
    /\ ~ running.on => running.list = <<>>

\* The inductive invariant: without a wallet there is no loader, so that a list
\* that is being called is not called any further.
WebIInv ==
    /\ WebTypes
    /\ wallet => InOneList /\ LoaderHasWork
    /\ loader => wallet

\* Nobody has loaded anything.
LEMMA WebInitIInv == WebInit => WebIInv
<1> SUFFICES ASSUME WebInit PROVE WebIInv
  OBVIOUS
<1>1. <<>> \in Seq(Loads) /\ <<>> \in Seq({"done"})
  OBVIOUS
<1>2. ToSet(<<>>) = {} /\ NoRepeats(<<>>)
  BY <1>1, ListEmpty
<1> QED BY <1>1, <1>2 DEF WebInit, Idle, WebIInv, WebTypes, InOneList, LoaderHasWork, Waiting

\* Anybody may load, from a callback or not: who has not loaded is in no list.
LEMMA LoadKeeps ==
    ASSUME WebIInv, NEW l \in Loads, NEW u \in Urls, LoadWebResource(l, u)
    PROVE  WebIInv'
<1> USE DEF WebIInv
<1>1. /\ wallet /\ l \notin loaded /\ loader' = TRUE
      /\ requests' = [requests EXCEPT ![u] = Append(@, l)]
      /\ downloads' = IF requests[u] = <<>> THEN [downloads EXCEPT ![u] = "going"]
                                            ELSE downloads
      /\ loaded' = loaded \cup {l}
      /\ UNCHANGED <<wallet, running, results>>
  BY DEF LoadWebResource
<1>2. requests[u] \in Seq(Loads) /\ \A v \in Urls : l \notin ToSet(requests[v])
  BY <1>1 DEF WebTypes, InOneList, Waiting
<1>3. /\ requests'[u] \in Seq(Loads) /\ requests'[u] # <<>>
      /\ ToSet(requests'[u]) = ToSet(requests[u]) \cup {l}
      /\ NoRepeats(requests'[u])
      /\ \A v \in Urls : v # u => requests'[v] = requests[v]
      /\ requests' \in [Urls -> Seq(Loads)]
  <2>1. requests'[u] = Append(requests[u], l)
    BY <1>1 DEF WebTypes
  <2>2. NoRepeats(requests[u])
    BY <1>1 DEF InOneList
  <2>3. /\ Append(requests[u], l) \in Seq(Loads)
        /\ Append(requests[u], l) # <<>>
        /\ ToSet(Append(requests[u], l)) = ToSet(requests[u]) \cup {l}
        /\ NoRepeats(Append(requests[u], l))
    BY <1>2, <2>2, ListAppend
  <2> QED BY <1>1, <2>1, <2>3 DEF WebTypes
<1>4. Waiting' = Waiting \cup {l}
  BY <1>1 DEF InOneList, Waiting
<1>5. InOneList'
  <2>1. ToSet(requests'[u]) \subseteq Waiting' \ ToSet(running'.list)
    BY <1>1, <1>2, <1>3, <1>4 DEF InOneList, Waiting
  <2>2. \A v \in Urls : v # u => ToSet(requests'[v]) \cap ToSet(requests'[u]) = {}
    BY <1>1, <1>2, <1>3 DEF InOneList
  <2>3. l \in ToSet(requests'[u])
    BY <1>3
  <2> QED BY <1>1, <1>3, <1>4, <2>1, <2>2, <2>3 DEF InOneList
<1>6. LoaderHasWork'
  <2>1. downloads'[u] # "none"
    BY <1>1 DEF LoaderHasWork, WebTypes
  <2>2. \A v \in Urls : v # u => downloads'[v] = downloads[v]
    BY <1>1 DEF WebTypes
  <2> QED BY <1>1, <1>3, <2>1, <2>2 DEF LoaderHasWork
<1>7. WebTypes'
  BY <1>1, <1>3 DEF WebTypes
<1> QED BY <1>1, <1>5, <1>6, <1>7

\* A reply is handled: its list is called, and nobody waits for its address.
LEMMA FinishedKeeps ==
    ASSUME WebIInv, NEW u \in Urls, OnFinished(u)
    PROVE  WebIInv'
<1> USE DEF WebIInv
<1>1. /\ ~ running.on /\ downloads[u] = "finished"
      /\ running' = [on |-> TRUE, list |-> requests[u]]
      /\ requests' = [requests EXCEPT ![u] = <<>>]
      /\ downloads' = [downloads EXCEPT ![u] = "none"]
      /\ UNCHANGED <<wallet, loader, loaded, results>>
  BY DEF OnFinished
<1>2. /\ running'.on = TRUE /\ running'.list = requests[u]
      /\ requests'[u] = <<>> /\ downloads'[u] = "none"
      /\ \A v \in Urls : v # u => requests'[v] = requests[v] /\ downloads'[v] = downloads[v]
      /\ ToSet(<<>>) = {} /\ NoRepeats(<<>>)
  BY <1>1, ListEmpty DEF WebTypes
<1>3. WebTypes'
  <2>1. <<>> \in Seq(Loads) /\ requests[u] \in Seq(Loads)
    BY DEF WebTypes
  <2> QED BY <1>1, <2>1 DEF WebTypes
<1>4. CASE wallet
  <2>1. running.list = <<>>
    BY <1>1, <1>4 DEF LoaderHasWork
  <2>2. Waiting' = Waiting
    BY <1>1 DEF Waiting
  <2>3. InOneList'
    <3>1. ToSet(running.list) = {} /\ NoRepeats(requests[u])
      BY <1>2, <1>4, <2>1 DEF InOneList
    <3>2. /\ ToSet(running'.list) = ToSet(requests[u])
          /\ ToSet(requests'[u]) = {} /\ NoRepeats(requests'[u])
      BY <1>2
    <3>3. \A v \in Urls : v # u =>
             /\ NoRepeats(requests'[v])
             /\ ToSet(requests'[v]) \subseteq Waiting \ ToSet(requests[u])
      BY <1>2, <1>4 DEF InOneList
    <3>4. /\ ToSet(requests[u]) \subseteq Waiting
          /\ \A k \in Waiting : \E v \in Urls : k \in ToSet(requests[v])
      BY <1>4, <3>1 DEF InOneList
    <3>5. \A k \in Waiting : \/ k \in ToSet(requests[u])
                             \/ \E v \in Urls : k \in ToSet(requests'[v])
      BY <1>2, <3>4
    <3>6. \A v, w \in Urls :
             v # w => ToSet(requests'[v]) \cap ToSet(requests'[w]) = {}
      BY <1>2, <1>4 DEF InOneList
    <3>7. \A k \in Loads : results'[k] # <<>> => k \in loaded'
      BY <1>1, <1>4 DEF InOneList
    <3> QED BY <1>2, <2>2, <3>1, <3>2, <3>3, <3>4, <3>5, <3>6, <3>7 DEF InOneList
  <2>4. requests[u] # <<>>
    BY <1>1, <1>4 DEF LoaderHasWork
  <2>5. LoaderHasWork'
    BY <1>1, <1>2, <1>4, <2>4 DEF LoaderHasWork
  <2> QED BY <1>1, <1>3, <2>3, <2>5
<1> QED BY <1>1, <1>3, <1>4

\* A callback is called: it waits no longer.
LEMMA RunNextKeeps == ASSUME WebIInv, RunNext PROVE WebIInv'
<1> USE DEF WebIInv
<1> DEFINE l == Head(running.list)
<1>1. /\ wallet /\ running.list # <<>>
      /\ running' = [running EXCEPT !.list = Tail(@)]
      /\ results' = [results EXCEPT ![l] = Append(@, "done")]
      /\ UNCHANGED <<wallet, loader, requests, downloads, loaded>>
  BY DEF RunNext
<1>2. running.list \in Seq(Loads) /\ NoRepeats(running.list)
  BY <1>1 DEF WebTypes, InOneList
<1>3. /\ running' = [on |-> running.on, list |-> Tail(running.list)]
      /\ running'.list = Tail(running.list) /\ running'.on = running.on
  BY <1>1 DEF WebTypes
<1>4. /\ l \in Loads /\ l \in ToSet(running.list)
      /\ running'.list \in Seq(Loads) /\ NoRepeats(running'.list)
      /\ ToSet(running'.list) = ToSet(running.list) \ {l}
  BY <1>1, <1>2, <1>3, ListTail
<1> HIDE DEF l
<1>5. /\ results'[l] # <<>> /\ results' \in [Loads -> Seq({"done"})]
      /\ \A k \in Loads : k # l => results'[k] = results[k]
  <2>1. results[l] \in Seq({"done"})
    BY <1>4 DEF WebTypes
  <2>2. Append(results[l], "done") \in Seq({"done"}) /\ Append(results[l], "done") # <<>>
    BY <2>1, ListAppend
  <2> QED BY <1>1, <1>4, <2>2 DEF WebTypes
<1>6. Waiting' = Waiting \ {l} /\ l \in loaded
  BY <1>1, <1>4, <1>5 DEF Waiting, WebTypes, InOneList
<1>7. InOneList'
  BY <1>1, <1>4, <1>5, <1>6 DEF InOneList
<1>8. LoaderHasWork'
  <2>1. running.on
    BY <1>1 DEF LoaderHasWork
  <2> QED BY <1>1, <1>3, <2>1 DEF LoaderHasWork
<1> QED BY <1>1, <1>3, <1>4, <1>5, <1>7, <1>8 DEF WebTypes

\* The loader goes when nobody waits for another address.
LEMMA RunLastKeeps == ASSUME WebIInv, RunLast PROVE WebIInv'
<1> USE DEF WebIInv
<1>1. /\ wallet /\ loader /\ running.on /\ running.list = <<>>
      /\ running' = [on |-> FALSE, list |-> <<>>]
      /\ IF \A u \in Urls : requests[u] = <<>>
           THEN loader' = FALSE /\ NoRequests
           ELSE UNCHANGED <<loader, requests, downloads>>
      /\ UNCHANGED <<wallet, loaded, results>>
  BY DEF RunLast, Idle
<1>2. running'.on = FALSE /\ running'.list = running.list /\ Waiting' = Waiting
  BY <1>1 DEF Waiting
<1>3. CASE \A u \in Urls : requests[u] = <<>>
  <2>1. /\ loader' = FALSE /\ \A u \in Urls : requests'[u] = requests[u]
        /\ \A u \in Urls : downloads'[u] = "none"
        /\ WebTypes'
    <3>1. <<>> \in Seq(Loads)
      OBVIOUS
    <3> QED BY <1>1, <1>3, <3>1 DEF NoRequests, WebTypes
  <2>2. InOneList' /\ LoaderHasWork'
    BY <1>1, <1>2, <1>3, <2>1 DEF InOneList, LoaderHasWork
  <2> QED BY <2>1, <2>2
<1>4. CASE ~ \A u \in Urls : requests[u] = <<>>
  BY <1>1, <1>2, <1>4 DEF WebTypes, InOneList, LoaderHasWork
<1> QED BY <1>3, <1>4

\* Every step keeps the inductive invariant.
LEMMA WebNextIInv == WebIInv /\ [WebNext]_webVars => WebIInv'
<1> SUFFICES ASSUME WebIInv, [WebNext]_webVars PROVE WebIInv'
  OBVIOUS
<1>1. ASSUME NEW u \in Urls, Finish(u) PROVE WebIInv'
  <2>1. Waiting' = Waiting
    BY <1>1 DEF Finish, Waiting
  <2> QED BY <1>1, <2>1 DEF Finish, WebIInv, WebTypes, InOneList, LoaderHasWork
<1>2. CASE Stop
  <2>1. ~ wallet
    BY <1>2 DEF Stop, WebIInv, LoaderHasWork
  <2>2. /\ running' = [on |-> FALSE, list |-> <<>>]
        /\ running'.list \in Seq(Loads) /\ running'.on = FALSE
        /\ UNCHANGED <<wallet, loader, requests, downloads, loaded, results>>
    BY <1>2 DEF Stop, Idle
  <2>3. running' = [on |-> running'.on, list |-> running'.list]
    BY <2>2, Zenon
  <2>4. WebTypes'
    BY <2>2, <2>3 DEF WebIInv, WebTypes
  <2>5. ~ wallet' /\ ~ loader'
    BY <2>1, <2>2 DEF WebIInv
  <2> QED BY <2>4, <2>5, Zenon DEF WebIInv
<1>3. CASE DestroyWallet
  <2>1. /\ wallet' = FALSE /\ loader' = FALSE
        /\ requests' = [u \in Urls |-> <<>>] /\ downloads' = [u \in Urls |-> "none"]
        /\ UNCHANGED <<running, loaded, results>> /\ <<>> \in Seq(Loads)
    BY <1>3 DEF DestroyWallet, NoRequests
  <2>2. WebTypes'
    BY <2>1 DEF WebIInv, WebTypes
  <2> QED BY <2>1, <2>2 DEF WebIInv
<1>4. CASE UNCHANGED webVars
  <2>1. Waiting' = Waiting
    BY <1>4 DEF webVars, Waiting
  <2> QED BY <1>4, <2>1 DEF webVars, WebIInv, WebTypes, InOneList, LoaderHasWork
<1> QED BY <1>1, <1>2, <1>3, <1>4, LoadKeeps, FinishedKeeps, RunNextKeeps, RunLastKeeps
           DEF WebNext

\* The inductive invariant holds whoever loads, or destroys the wallet, when.
LEMMA WebInductive == WebSpec => []WebIInv
BY WebInitIInv, WebNextIInv, PTL DEF WebSpec

\* WebLoader::load and its callback of finished: nobody who waits is lost or
\* called twice, and the loader is there as long as somebody waits.
THEOREM LoaderAlwaysServesAll == WebSpec => []LoaderServesAll
<1>1. WebIInv => LoaderServesAll
  <2> SUFFICES ASSUME WebIInv, wallet PROVE LoaderServesAll
    BY DEF LoaderServesAll
  <2> USE DEF WebIInv
  <2> DEFINE Places(l) == {u \in Urls : l \in ToSet(requests[u])}
  <2>1. ASSUME NEW l \in Waiting
        PROVE  Cardinality(Places(l)) = IF l \in ToSet(running.list) THEN 0 ELSE 1
    <3>1. CASE l \in ToSet(running.list)
      <4>1. Places(l) = {}
        BY <3>1 DEF InOneList
      <4> QED BY <3>1, <4>1, FS_EmptySet
    <3>2. CASE l \notin ToSet(running.list)
      <4>1. PICK u \in Urls : l \in ToSet(requests[u])
        BY <3>2 DEF InOneList
      <4>2. Places(l) = {u}
        BY <4>1 DEF InOneList
      <4> QED BY <3>2, <4>2, FS_Singleton
    <3> QED BY <3>1, <3>2
  <2>2. \A u \in Urls : requests[u] \in Seq(Loads)
    BY DEF WebTypes
  <2>3. \A u \in Urls : requests[u] # <<>> <=> ToSet(requests[u]) # {}
    BY <2>2, ListEmpty
  <2>4. Waiting # {} => loader
    <3>1. running.list # <<>> <=> ToSet(running.list) # {}
      BY ListEmpty DEF WebTypes
    <3>2. running.list # <<>> => running.on
      BY DEF LoaderHasWork
    <3> QED BY <2>3, <3>1, <3>2 DEF InOneList, LoaderHasWork
  <2>5. ~ running.on /\ loader => Waiting # {}
    BY <2>3 DEF InOneList, LoaderHasWork
  <2> QED BY <2>1, <2>4, <2>5 DEF LoaderServesAll, LoaderHasWork
<1> QED BY WebInductive, <1>1, PTL

\* Wallet::loadWebResource goes only through the steps of RequestReply: whoever
\* loads is called back at most once, and only while the wallet is there.
THEOREM LoadsAreRequests == WebSpec => Promise!Init /\ [][Promise!Next]_Promise!vars
<1>1. WebInit => Promise!Init
  BY DEF WebInit, Promise!Init
<1>2. WebIInv /\ [WebNext]_webVars => [Promise!Next]_Promise!vars
  <2> SUFFICES ASSUME WebIInv, WebNext PROVE [Promise!Next]_Promise!vars
    BY DEF webVars, Promise!vars
  <2>1. ASSUME NEW l \in Loads, NEW u \in Urls, LoadWebResource(l, u)
        PROVE  Promise!Ask(l)
    BY <2>1 DEF LoadWebResource, Promise!Ask
  <2>2. CASE RunNext
    <3> DEFINE l == Head(running.list)
    <3>1. /\ wallet /\ running.list # <<>> /\ running.list \in Seq(Loads)
          /\ results' = [results EXCEPT ![l] = Append(@, "done")]
          /\ UNCHANGED <<wallet, loaded>>
      BY <2>2 DEF RunNext, WebIInv, WebTypes
    <3>2. l \in Loads /\ l \in Waiting
      BY <3>1, ListTail DEF WebIInv, InOneList
    <3> HIDE DEF l
    <3>3. l \in loaded /\ results[l] = <<>>
      BY <3>2 DEF Waiting
    <3>4. Append(results[l], "done") = <<"done">>
      BY <3>3
    <3>5. results' = [results EXCEPT ![l] = <<"done">>]
      BY <3>1, <3>4
    <3>6. Promise!Give(l, "done")
      BY <3>1, <3>3, <3>5 DEF Promise!Give
    <3> QED BY <3>2, <3>6 DEF Promise!Next
  <2>3. CASE DestroyWallet
    BY <2>3 DEF DestroyWallet, Promise!Leave, Promise!Next
  <2>4. CASE RunLast \/ Stop \/ \E u \in Urls : Finish(u) \/ OnFinished(u)
    BY <2>4 DEF RunLast, Stop, Finish, OnFinished, Promise!vars
  <2> QED BY <2>1, <2>2, <2>3, <2>4 DEF WebNext, Promise!Next
<1> QED BY WebInductive, WebInitIInv, <1>1, <1>2, PTL DEF WebSpec

-----------------------------------------------------------------------------
(* Utility *)

\* Before the first answer of the library a call has no key in it; before its
\* end it has said nothing.
KeyStages ==
    {"none", "create", "created", "export", "exported", "delete", "deleted",
     "error", "end", "dropped"}

UtilityIInv ==
    /\ keys \in [KeyCalls -> KeyStages] /\ store \subseteq KeyCalls
    /\ said \in [KeyCalls -> {<<>>, <<"key">>, <<"error">>}]
    /\ \A c \in KeyCalls :
          /\ said[c] # <<>> <=> keys[c] = "end"
          /\ keys[c] \in {"none", "create"} => c \notin store
          /\ keys[c] \in {"deleted", "error", "end", "dropped"} /\ c \in store => c \in kept

\* The end of a call says one thing.
LEMMA SaysOnce ==
    ASSUME UtilityIInv, NEW c \in KeyCalls, keys[c] # "end",
           NEW what \in {"key", "error"}, Says(c, what)
    PROVE  said' = [said EXCEPT ![c] = <<what>>]
<1>1. said[c] = <<>>
  BY DEF UtilityIInv
<1>2. Append(said[c], what) = <<what>>
  BY <1>1
<1> QED BY <1>2 DEF Says

\* Every step keeps the inductive invariant.
LEMMA UtilityNextIInv == UtilityIInv /\ [UtilityNext]_utilityVars => UtilityIInv'
<1> SUFFICES ASSUME UtilityIInv, [UtilityNext]_utilityVars PROVE UtilityIInv'
  OBVIOUS
<1> USE DEF UtilityIInv, KeyStages, Turns
<1>1. CASE StartSender \/ OnInit
  BY <1>1 DEF StartSender, OnInit
<1>2. CASE FinishSender
  BY <1>2 DEF FinishSender
<1>3. ASSUME NEW c \in KeyCalls, AskKey(c) \/ OnKey(c) \/ OnExported(c)
      PROVE  UtilityIInv'
  BY <1>3 DEF AskKey, OnKey, OnExported
<1>4. ASSUME NEW c \in KeyCalls, LibKeys(c) PROVE UtilityIInv'
  BY <1>4 DEF LibKeys
<1>5. ASSUME NEW c \in KeyCalls, OnDeleted(c) PROVE UtilityIInv'
  <2>1. said' = [said EXCEPT ![c] = <<"key">>]
    BY <1>5, SaysOnce DEF OnDeleted
  <2>2. <<"key">> # <<>>
    OBVIOUS
  <2> QED BY <1>5, <2>1, <2>2 DEF OnDeleted
<1>6. ASSUME NEW c \in KeyCalls, OnKeyError(c) PROVE UtilityIInv'
  <2>1. said' = [said EXCEPT ![c] = <<"error">>]
    BY <1>6, SaysOnce DEF OnKeyError
  <2>2. <<"error">> # <<>>
    OBVIOUS
  <2> QED BY <1>6, <2>1, <2>2 DEF OnKeyError
<1>7. CASE UNCHANGED utilityVars
  BY <1>7 DEF utilityVars
<1> QED BY <1>1, <1>2, <1>3, <1>4, <1>5, <1>6, <1>7 DEF UtilityNext, KeyGoesOn

\* ton_utility.cpp: a call that is answered is answered once, and leaves no key
\* that could have been deleted, whenever Finish and Start come.
THEOREM NoKeyIsEverLeft == UtilitySpec => [](\A c \in KeyCalls : LeavesNoKey(c))
<1>1. UtilityInit => UtilityIInv
  BY DEF UtilityInit, UtilityIInv, KeyStages
<1>2. UtilityIInv => \A c \in KeyCalls : LeavesNoKey(c)
  <2>1. Len(<<"key">>) = 1 /\ Len(<<"error">>) = 1
    OBVIOUS
  <2> QED BY <2>1 DEF UtilityIInv, LeavesNoKey
<1> QED BY <1>1, <1>2, UtilityNextIInv, PTL DEF UtilitySpec

-----------------------------------------------------------------------------
(* Least and greatest numbers. *)

\* Every set of natural numbers has a least one.
LEMMA LeastNatural ==
    ASSUME NEW S \in SUBSET Nat, S # {}
    PROVE  \E x \in S : \A y \in S : x <= y
<1>1. PICK x \in S : \A y \in S : <<y, x>> \notin OpToRel(<, Nat)
  BY WFMin, NatLessThanWellFounded, Zenon
<1>2. \A y \in S : ~ (y < x)
  BY <1>1 DEF OpToRel
<1> QED BY <1>2

\* Min is the least of a set of numbers that is bounded from below.
LEMMA MinIsLeast ==
    ASSUME NEW S \in SUBSET Int, S # {}, NEW low \in Int, \A x \in S : low <= x
    PROVE  Min(S) \in S /\ \A y \in S : Min(S) <= y
<1> DEFINE T == {x - low : x \in S}
<1>1. T \in SUBSET Nat /\ T # {}
  <2>1. \A x \in S : x \in Int /\ x - low \in Nat
    OBVIOUS
  <2> QED BY <2>1
<1>2. PICK t \in T : \A u \in T : t <= u
  BY <1>1, LeastNatural
<1>3. PICK x \in S : t = x - low
  BY <1>2
<1>4. \A y \in S : y - low \in T
  OBVIOUS
<1>5. \A y \in S : x <= y
  <2>1. ASSUME NEW y \in S PROVE x <= y
    <3>1. x \in Int /\ y \in Int
      OBVIOUS
    <3>2. x - low <= y - low
      BY <1>2, <1>3, <1>4
    <3> QED BY <3>1, <3>2
  <2> QED BY <2>1
<1> QED BY <1>5 DEF Min

\* A finite set of natural numbers is bounded: else take one of the fewest
\* elements, and one of them away.
LEMMA FiniteIsBounded ==
    ASSUME NEW S \in SUBSET Nat, IsFiniteSet(S)
    PROVE  \E b \in Nat : \A y \in S : y <= b
<1> DEFINE Bounded(T) == \E b \in Nat : \A y \in T : y <= b
           Sizes == {n \in Nat : \E T \in SUBSET S : Cardinality(T) = n /\ ~ Bounded(T)}
<1> SUFFICES ASSUME ~ Bounded(S) PROVE FALSE
  OBVIOUS
<1>1. Sizes # {}
  BY FS_CardinalityType
<1>2. PICK n \in Sizes : \A m \in Sizes : n <= m
  BY <1>1, LeastNatural
<1>3. PICK T \in SUBSET S : Cardinality(T) = n /\ ~ Bounded(T)
  BY <1>2
<1>4. PICK x \in T : TRUE
  BY <1>3
<1>5. IsFiniteSet(T) /\ Cardinality(T \ {x}) = n - 1 /\ Cardinality(T \ {x}) \in Nat
  BY <1>3, <1>4, FS_Subset, FS_RemoveElement, FS_CardinalityType
<1>6. Bounded(T \ {x})
  <2>1. n - 1 \notin Sizes
    BY <1>2
  <2> QED BY <1>3, <1>5, <2>1
<1>7. PICK b \in Nat : \A y \in T \ {x} : y <= b
  BY <1>6
<1>8. x \in Nat /\ b + x \in Nat /\ \A y \in T : y <= b + x
  BY <1>3, <1>4, <1>7
<1> QED BY <1>3, <1>8

\* Max is the greatest of a finite set of natural numbers.
LEMMA MaxIsGreatest ==
    ASSUME NEW S \in SUBSET Nat, IsFiniteSet(S), S # {}
    PROVE  Max(S) \in S /\ \A y \in S : y <= Max(S)
<1> DEFINE Bounds == {b \in Nat : \A y \in S : y <= b}
<1>1. Bounds # {}
  BY FiniteIsBounded
<1>2. PICK b \in Bounds : \A c \in Bounds : b <= c
  BY <1>1, LeastNatural
<1>3. b \in S
  <2> SUFFICES ASSUME b \notin S PROVE FALSE
    OBVIOUS
  <2>1. \A y \in S : y < b
    BY <1>2
  <2>2. b - 1 \in Bounds
    <3>1. PICK y \in S : y \in Nat /\ y < b
      BY <2>1
    <3>2. b - 1 \in Nat
      BY <1>2, <3>1
    <3> QED BY <2>1, <3>2
  <2> QED BY <1>2, <2>2
<1> QED BY <1>2, <1>3 DEF Max

-----------------------------------------------------------------------------
(* RefreshTimer *)

TimerTypes ==
    /\ accounts \in [Accounts -> AccountEntry]
    /\ rings \in Nat \cup {Off}

TimerIInv == TimerTypes /\ \A a \in Resting(accounts) : TimerCovers(a)

\* Long is the longest of the delays there are.
LEMMA LongIsLongest ==
    /\ Long \in Nat /\ DefaultDelay \in Delays /\ Delays \subseteq Nat \ {0}
    /\ PendingDelay \in Nat \ {0}
<1>1. IsFiniteSet(Delays \cup {PendingDelay})
  BY DelaysAssumption, FS_AddElement
<1>2. Delays \cup {PendingDelay} \in SUBSET Nat
  BY DelaysAssumption
<1>3. Max(Delays \cup {PendingDelay}) \in Delays \cup {PendingDelay}
  BY <1>1, <1>2, MaxIsGreatest
<1> QED BY <1>2, <1>3, DelaysAssumption DEF Long

\* When an account with viewers is to be refreshed, of all there may be.
Wishes(e) == Periods(e) \cup (IF e.pending THEN {PendingDelay} ELSE {})

\* A resting account has viewers, and waits for the most impatient of them.
LEMMA RestingAccount ==
    ASSUME NEW m \in [Accounts -> AccountEntry], NEW a \in Resting(m)
    PROVE  /\ a \in Accounts /\ Periods(m[a]) # {}
           /\ Wishes(m[a]) \subseteq Nat \ {0}
           /\ Min(Wishes(m[a])) \in Wishes(m[a])
           /\ \A d \in Wishes(m[a]) : Min(Wishes(m[a])) <= d
           /\ In(m[a]) = Min(Wishes(m[a])) - m[a].since
           /\ m[a].since \in Nat /\ In(m[a]) \in Int
<1>1. a \in Accounts /\ Periods(m[a]) # {} /\ m[a] \in AccountEntry
  BY DEF Resting, Shown
<1>2. m[a].since \in Nat /\ Periods(m[a]) \subseteq Delays
  BY <1>1, LongIsLongest DEF AccountEntry, Periods
<1>3. Wishes(m[a]) \subseteq Nat \ {0} /\ Wishes(m[a]) # {}
  BY <1>1, <1>2, LongIsLongest DEF Wishes
<1>4. /\ Min(Wishes(m[a])) \in Wishes(m[a])
      /\ \A d \in Wishes(m[a]) : Min(Wishes(m[a])) <= d
  <2>1. Wishes(m[a]) \in SUBSET Int /\ \A d \in Wishes(m[a]) : 0 <= d
    BY <1>3
  <2> QED BY <1>3, <2>1, MinIsLeast
<1>5. In(m[a]) = Min(Wishes(m[a])) - m[a].since
  BY DEF In, Wishes
<1> QED BY <1>1, <1>2, <1>3, <1>4, <1>5

\* The timer is in time for an account that is refreshed no later.
LEMMA NoLater ==
    ASSUME NEW i \in Int, NEW r \in Int
    PROVE  r <= Max({i, 0}) <=> r <= i \/ r <= 0
<1>1. Max({i, 0}) \in {i, 0} /\ i <= Max({i, 0}) /\ 0 <= Max({i, 0})
  BY DEF Max
<1> QED BY <1>1

\* checkNextRefresh sets the timer for the first of all accounts, whatever it
\* has found, and whatever the timer was.
LEMMA CheckCovers ==
    ASSUME NEW m \in [Accounts -> AccountEntry], NEW timer \in Nat \cup {Off},
           CheckAccounts(m, timer)
    PROVE  TimerIInv'
<1> DEFINE due == {a \in Resting(m) : In(m[a]) <= 0}
           later == {In(m[a]) : a \in Resting(m) \ due}
<1>1. /\ accounts' = [a \in Accounts |->
                        IF a \in due THEN [m[a] EXCEPT !.refreshing = TRUE, !.since = 0]
                                     ELSE m[a]]
      /\ rings' = IF later = {} THEN timer ELSE Min(later)
  BY DEF CheckAccounts
<1>2. \A a \in Resting(m) : a \in Accounts /\ In(m[a]) \in Int
  BY RestingAccount
<1>3. later \subseteq Nat \ {0}
  BY <1>2
<1>4. later # {} => Min(later) \in later /\ \A i \in later : Min(later) <= i
  <2>1. later \in SUBSET Int /\ \A i \in later : 0 <= i
    BY <1>3
  <2> HIDE DEF later
  <2> QED BY <2>1, MinIsLeast
<1>5. TimerTypes'
  <2>1. ASSUME NEW a \in Accounts
        PROVE  [m[a] EXCEPT !.refreshing = TRUE, !.since = 0] \in AccountEntry
    <3>1. m[a] \in AccountEntry /\ 0 \in 0..Long
      BY LongIsLongest
    <3> QED BY <3>1 DEF AccountEntry
  <2>2. accounts' \in [Accounts -> AccountEntry]
    BY <1>1, <2>1
  <2>3. rings' \in Nat \cup {Off}
    BY <1>1, <1>3, <1>4
  <2> QED BY <2>2, <2>3 DEF TimerTypes
<1>6. ASSUME NEW a \in Resting(accounts')
      PROVE  a \in Resting(m) \ due /\ accounts'[a] = m[a]
  <2>1. a \in Accounts /\ ~ accounts'[a].refreshing /\ Shown(accounts'[a])
    BY <1>6 DEF Resting
  <2>2. a \notin due
    <3> SUFFICES ASSUME a \in due PROVE FALSE
      OBVIOUS
    <3>1. m[a] \in AccountEntry
          /\ accounts'[a] = [m[a] EXCEPT !.refreshing = TRUE, !.since = 0]
      BY <1>1, <2>1
    <3>2. accounts'[a].refreshing = TRUE
      BY <3>1 DEF AccountEntry
    <3> QED BY <2>1, <3>2
  <2> QED BY <1>1, <2>1, <2>2 DEF Resting
<1>7. ASSUME NEW a \in Resting(accounts')
      PROVE  rings' # Off /\ rings' <= Max({In(accounts'[a]), 0})
  <2>1. In(m[a]) \in later /\ accounts'[a] = m[a] /\ In(m[a]) \in Int
    BY <1>2, <1>6
  <2>2. rings' \in Nat /\ rings' <= In(m[a])
    BY <1>1, <1>3, <1>4, <2>1
  <2> QED BY <2>1, <2>2, NoLater DEF Off
<1> QED BY <1>5, <1>7 DEF TimerIInv, TimerCovers

\* Time brings the timer as near as the refreshes.
LEMMA PassTimeCovers == ASSUME TimerIInv, PassTime PROVE TimerIInv'
<1> DEFINE Older(e) == [e EXCEPT !.since = Min({@ + 1, Long})]
<1>1. /\ accounts \in [Accounts -> AccountEntry] /\ rings \in Nat \cup {Off}
      /\ accounts' = [a \in Accounts |-> IF a \in Resting(accounts)
                                           THEN Older(accounts[a]) ELSE accounts[a]]
      /\ rings' = IF rings > 0 THEN rings - 1 ELSE rings
  BY DEF TimerIInv, TimerTypes, PassTime
<1>2. ASSUME NEW e \in AccountEntry
      PROVE  /\ Older(e) \in AccountEntry
             /\ Periods(Older(e)) = Periods(e) /\ Wishes(Older(e)) = Wishes(e)
             /\ Older(e).refreshing = e.refreshing
             /\ Older(e).since <= e.since + 1
  <2>1. e.since \in 0..Long /\ Long \in Nat
    BY LongIsLongest DEF AccountEntry
  <2>2. Min({e.since + 1, Long}) \in 0..Long /\ Min({e.since + 1, Long}) <= e.since + 1
    BY <2>1 DEF Min
  <2>3. /\ Older(e) \in AccountEntry /\ Older(e).viewers = e.viewers
        /\ Older(e).refreshing = e.refreshing /\ Older(e).pending = e.pending
        /\ Older(e).since = Min({e.since + 1, Long})
    BY <2>2 DEF AccountEntry
  <2> QED BY <2>2, <2>3 DEF Periods, Wishes
<1> HIDE DEF Older
<1>3. accounts' \in [Accounts -> AccountEntry] /\ rings' \in Nat \cup {Off}
  BY <1>1, <1>2 DEF Off
<1>4. ASSUME NEW a \in Resting(accounts')
      PROVE  rings' # Off /\ rings' <= Max({In(accounts'[a]), 0})
  <2>1. a \in Accounts /\ accounts[a] \in AccountEntry
    BY <1>1 DEF Resting
  <2>2. a \in Resting(accounts) /\ accounts'[a] = Older(accounts[a])
    BY <1>1, <1>2, <2>1 DEF Resting, Shown
  <2>3. /\ In(accounts'[a]) = Min(Wishes(accounts[a])) - accounts'[a].since
        /\ In(accounts[a]) = Min(Wishes(accounts[a])) - accounts[a].since
        /\ In(accounts'[a]) \in Int /\ In(accounts[a]) \in Int
        /\ accounts'[a].since \in Nat /\ accounts[a].since \in Nat
        /\ Min(Wishes(accounts[a])) \in Int
    <3>1. Wishes(accounts'[a]) = Wishes(accounts[a])
      BY <1>2, <2>1, <2>2
    <3>2. /\ In(accounts[a]) = Min(Wishes(accounts[a])) - accounts[a].since
          /\ In(accounts[a]) \in Int /\ accounts[a].since \in Nat
          /\ Min(Wishes(accounts[a])) \in Int
      BY <1>1, <2>2, RestingAccount
    <3>3. /\ In(accounts'[a]) = Min(Wishes(accounts'[a])) - accounts'[a].since
          /\ In(accounts'[a]) \in Int /\ accounts'[a].since \in Nat
      BY <1>3, <1>4, RestingAccount
    <3> QED BY <3>1, <3>2, <3>3
  <2>4. In(accounts[a]) - 1 <= In(accounts'[a])
    BY <1>2, <2>1, <2>2, <2>3
  <2>5. rings \in Nat /\ (rings <= In(accounts[a]) \/ rings <= 0)
    <3>1. rings # Off /\ rings <= Max({In(accounts[a]), 0})
      BY <2>2 DEF TimerIInv, TimerCovers
    <3>2. rings \in Nat
      BY <1>1, <3>1
    <3> QED BY <2>3, <3>1, <3>2, NoLater
  <2> QED BY <1>1, <2>3, <2>4, <2>5, NoLater DEF Off
<1> QED BY <1>3, <1>4 DEF TimerIInv, TimerTypes, TimerCovers

\* An account that rests no longer, or longer than before, does not need the
\* timer sooner; nor do the others.
LEMMA OneAccountCovers ==
    ASSUME TimerIInv, NEW a \in Accounts, NEW e \in AccountEntry,
           accounts' = [accounts EXCEPT ![a] = e], UNCHANGED rings,
           a \in Resting(accounts') =>
              /\ a \in Resting(accounts)
              /\ Wishes(e) \subseteq Wishes(accounts[a])
              /\ e.since = accounts[a].since
    PROVE  TimerIInv'
<1>1. accounts' \in [Accounts -> AccountEntry] /\ accounts'[a] = e
  BY DEF TimerIInv, TimerTypes
<1>2. ASSUME NEW b \in Resting(accounts')
      PROVE  rings' # Off /\ rings' <= Max({In(accounts'[b]), 0})
  <2>1. CASE b # a
    <3>1. accounts'[b] = accounts[b] /\ b \in Resting(accounts)
      BY <2>1 DEF TimerIInv, TimerTypes, Resting
    <3> QED BY <3>1 DEF TimerIInv, TimerCovers
  <2>2. CASE b = a
    <3>1. /\ In(accounts[a]) \in Int /\ In(e) \in Int
          /\ In(e) >= In(accounts[a])
      <4>1. /\ Min(Wishes(accounts[a])) \in Int
            /\ \A d \in Wishes(accounts[a]) : Min(Wishes(accounts[a])) <= d
            /\ In(accounts[a]) = Min(Wishes(accounts[a])) - accounts[a].since
            /\ accounts[a].since \in Int
        BY <1>2, <2>2, RestingAccount DEF TimerIInv, TimerTypes
      <4>2. /\ Min(Wishes(e)) \in Wishes(e) /\ Min(Wishes(e)) \in Int
            /\ In(e) = Min(Wishes(e)) - e.since
        <5>1. /\ a \in Resting(accounts') /\ accounts' \in [Accounts -> AccountEntry]
              /\ accounts'[a] = e
          BY <1>1, <1>2, <2>2
        <5>2. /\ Wishes(accounts'[a]) \subseteq Nat \ {0}
              /\ Min(Wishes(accounts'[a])) \in Wishes(accounts'[a])
              /\ In(accounts'[a]) = Min(Wishes(accounts'[a])) - accounts'[a].since
          BY <5>1, RestingAccount
        <5> QED BY <5>1, <5>2
      <4> QED BY <1>2, <2>2, <4>1, <4>2
    <3>2. /\ rings # Off /\ rings \in Int
          /\ (rings <= In(accounts[a]) \/ rings <= 0)
      <4>1. rings # Off /\ rings <= Max({In(accounts[a]), 0})
        BY <1>2, <2>2 DEF TimerIInv, TimerCovers
      <4>2. rings \in Int
        BY DEF TimerIInv, TimerTypes, Off
      <4> QED BY <3>1, <4>1, <4>2, NoLater
    <3> QED BY <1>1, <2>2, <3>1, <3>2, NoLater
  <2> QED BY <2>1, <2>2
<1> QED BY <1>1, <1>2 DEF TimerIInv, TimerTypes, TimerCovers

\* Every step keeps the inductive invariant: those that check, by the check.
LEMMA TimerNextIInv == TimerIInv /\ [TimerNext]_timerVars => TimerIInv'
<1> SUFFICES ASSUME TimerIInv, [TimerNext]_timerVars PROVE TimerIInv'
  OBVIOUS
<1>1. accounts \in [Accounts -> AccountEntry] /\ rings \in Nat \cup {Off}
  BY DEF TimerIInv, TimerTypes
<1>2. ASSUME NEW a \in Accounts
      PROVE  /\ accounts[a].viewers \in [Slots -> Delays \cup {0}]
             /\ accounts[a].refreshing \in BOOLEAN /\ accounts[a].pending \in BOOLEAN
             /\ accounts[a].since \in 0..Long
  BY <1>1 DEF AccountEntry
<1>3. CASE TimerRings
  BY <1>1, <1>3, CheckCovers DEF TimerRings
<1>4. CASE PassTime
  BY <1>4, PassTimeCovers
<1>5. ASSUME NEW a \in Accounts, NEW s \in Slots, ShowAccount(a, s)
      PROVE  TimerIInv'
  <2> DEFINE m == [accounts EXCEPT ![a].viewers[s] = DefaultDelay,
                                   ![a].refreshing = @ \/ ~ Shown(accounts[a])]
  <2>1. m \in [Accounts -> AccountEntry]
    <3> DEFINE refreshes == accounts[a].refreshing \/ ~ Shown(accounts[a])
               shown(b) == [accounts EXCEPT ![a].viewers[s] = DefaultDelay,
                                            ![a].refreshing = b]
    <3>1. \A b \in BOOLEAN : shown(b) \in [Accounts -> AccountEntry]
      <4> SUFFICES ASSUME NEW b \in BOOLEAN PROVE shown(b) \in [Accounts -> AccountEntry]
        OBVIOUS
      <4> DEFINE e == [accounts[a] EXCEPT !.viewers[s] = DefaultDelay, !.refreshing = b]
      <4>1. accounts[a] \in AccountEntry
        BY <1>1
      <4>2. e \in AccountEntry
        BY <1>2, <4>1, LongIsLongest DEF AccountEntry
      <4>3. shown(b) = [accounts EXCEPT ![a] = e]
        BY <1>1
      <4> QED BY <1>1, <4>2, <4>3
    <3>2. refreshes \in BOOLEAN
      OBVIOUS
    <3>3. m = shown(refreshes)
      BY <1>1, <1>2, Zenon DEF AccountEntry
    <3> QED BY <3>1, <3>2, <3>3, Zenon
  <2>2. CheckAccounts(m, rings)
    BY <1>5 DEF ShowAccount
  <2> QED BY <1>1, <2>1, <2>2, CheckCovers
<1>6. ASSUME NEW a \in Accounts, NEW s \in Slots, NEW d \in Delays, ChangeDelay(a, s, d)
      PROVE  TimerIInv'
  <2> DEFINE m == [accounts EXCEPT ![a].viewers[s] = d]
  <2>1. m \in [Accounts -> AccountEntry]
    BY <1>1, <1>2 DEF AccountEntry
  <2>2. CheckAccounts(m, rings)
    BY <1>6 DEF ChangeDelay
  <2> QED BY <1>1, <2>1, <2>2, CheckCovers
<1>7. ASSUME NEW a \in Accounts, NEW s \in Slots, HideAccount(a, s)
      PROVE  TimerIInv'
  <2> DEFINE e == [accounts[a] EXCEPT !.viewers[s] = 0]
             f == IF Shown(e) THEN e ELSE NotShown
  <2>1. /\ e \in AccountEntry /\ NotShown \in AccountEntry
        /\ Periods(e) \subseteq Periods(accounts[a]) /\ Periods(NotShown) = {}
        /\ e.pending = accounts[a].pending /\ e.since = accounts[a].since
        /\ e.refreshing = accounts[a].refreshing /\ NotShown.refreshing = FALSE
    <3>1. accounts[a] \in AccountEntry /\ 0 \in 0..Long
      BY <1>1, LongIsLongest
    <3>2. /\ e \in AccountEntry /\ e.viewers = [accounts[a].viewers EXCEPT ![s] = 0]
          /\ e.pending = accounts[a].pending /\ e.since = accounts[a].since
          /\ e.refreshing = accounts[a].refreshing
      BY <3>1 DEF AccountEntry
    <3>3. NotShown \in AccountEntry /\ NotShown.refreshing = FALSE
          /\ NotShown.viewers = [t \in Slots |-> 0]
      BY <3>1 DEF AccountEntry, NotShown
    <3> QED BY <1>2, <3>2, <3>3 DEF Periods
  <2>2. accounts' = [accounts EXCEPT ![a] = f] /\ UNCHANGED rings
    BY <1>7 DEF HideAccount
  <2>3. f \in AccountEntry
    BY <2>1
  <2>4. accounts'[a] = f
    BY <1>1, <2>2
  <2>5. ASSUME a \in Resting(accounts')
        PROVE  /\ a \in Resting(accounts) /\ Wishes(f) \subseteq Wishes(accounts[a])
               /\ f.since = accounts[a].since
    <3>1. ~ f.refreshing /\ Periods(f) # {}
      BY <2>4, <2>5 DEF Resting, Shown
    <3>2. f = e
      BY <2>1, <3>1
    <3>3. ~ accounts[a].refreshing /\ Periods(accounts[a]) # {}
      BY <2>1, <3>1, <3>2
    <3> QED BY <2>1, <3>2, <3>3 DEF Resting, Shown, Wishes
  <2> QED BY <2>2, <2>3, <2>5, OneAccountCovers
<1>8. ASSUME NEW a \in Accounts, RefreshAccountNow(a) PROVE TimerIInv'
  <2> DEFINE e == [accounts[a] EXCEPT !.refreshing = TRUE, !.since = 0]
  <2>1. e \in AccountEntry /\ e.refreshing = TRUE
    <3>1. accounts[a] \in AccountEntry /\ 0 \in 0..Long
      BY <1>1, LongIsLongest
    <3> QED BY <3>1 DEF AccountEntry
  <2>2. accounts' = [accounts EXCEPT ![a] = e] /\ UNCHANGED rings
    BY <1>1, <1>8 DEF RefreshAccountNow
  <2>3. a \notin Resting(accounts')
    BY <1>1, <2>1, <2>2 DEF Resting
  <2> QED BY <2>1, <2>2, <2>3, OneAccountCovers
<1>9. ASSUME NEW a \in Accounts, AddPending(a) PROVE TimerIInv'
  <2> DEFINE m == [accounts EXCEPT ![a].pending = TRUE]
  <2>1. m \in [Accounts -> AccountEntry]
    BY <1>1, <1>2 DEF AccountEntry
  <2>2. CheckAccounts(m, rings)
    BY <1>9 DEF AddPending
  <2> QED BY <1>1, <2>1, <2>2, CheckCovers
<1>10. ASSUME NEW a \in Accounts, EndRefresh(a) PROVE TimerIInv'
  <2>1. CASE Periods(accounts[a]) = {}
    <3>1. NotShown \in AccountEntry /\ NotShown.refreshing = FALSE /\ Periods(NotShown) = {}
      BY LongIsLongest DEF AccountEntry, NotShown, Periods
    <3>2. accounts' = [accounts EXCEPT ![a] = NotShown] /\ UNCHANGED rings
      BY <1>10, <2>1 DEF EndRefresh
    <3>3. a \notin Resting(accounts')
      BY <1>1, <3>1, <3>2 DEF Resting, Shown
    <3> QED BY <3>1, <3>2, <3>3, OneAccountCovers
  <2>2. CASE Periods(accounts[a]) # {}
    <3>1. PICK p \in BOOLEAN :
            CheckAccounts([accounts EXCEPT ![a].refreshing = FALSE, ![a].pending = p],
                          rings)
      BY <1>10, <2>2 DEF EndRefresh
    <3>2. [accounts EXCEPT ![a].refreshing = FALSE, ![a].pending = p]
            \in [Accounts -> AccountEntry]
      BY <1>1, <1>2 DEF AccountEntry
    <3> QED BY <1>1, <3>1, <3>2, CheckCovers
  <2> QED BY <2>1, <2>2
<1>11. CASE UNCHANGED timerVars
  BY <1>11 DEF timerVars, TimerIInv, TimerTypes, TimerCovers, Resting
<1> QED BY <1>3, <1>4, <1>5, <1>6, <1>7, <1>8, <1>9, <1>10, <1>11 DEF TimerNext

\* AccountViewers::checkNextRefresh: one timer is in time for all accounts,
\* however many there are and however often each is to be refreshed.
THEOREM TimerAlwaysCoversAll == TimerSpec => [](\A a \in Resting(accounts) : TimerCovers(a))
<1>1. TimerInit => TimerIInv
  <2> SUFFICES ASSUME TimerInit PROVE TimerIInv
    OBVIOUS
  <2>1. NotShown \in AccountEntry /\ NotShown.refreshing = FALSE /\ Periods(NotShown) = {}
    BY LongIsLongest DEF AccountEntry, NotShown, Periods
  <2>2. Resting(accounts) = {}
    BY <2>1 DEF TimerInit, Resting, Shown
  <2> QED BY <2>1, <2>2 DEF TimerInit, TimerIInv, TimerTypes, TimerCovers
<1> QED BY <1>1, TimerNextIInv, PTL DEF TimerSpec, TimerIInv

=============================================================================
