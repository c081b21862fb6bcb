------------------------------ MODULE WebLoader ------------------------------
(***************************************************************************)
(* Wallet::loadWebResource and details/ton_web_loader.cpp: one download    *)
(* serves everybody who asks for its address before it ends.  Whoever is   *)
(* called back may load again, the same address included, or destroy the   *)
(* wallet; the loader goes when it has nothing left to load.               *)
(***************************************************************************)
EXTENDS Naturals, Sequences, SequencesExt

CONSTANTS
    Urls,   \* addresses
    Loads   \* bound: the calls of loadWebResource

VARIABLES
    wallet,     \* the Wallet is there
    loader,     \* Wallet::_webLoader is there
    requests,   \* WebLoader::_requests: the calls that wait for an address
    downloads,  \* the replies of the manager: "none", "going" or "finished"
    running,    \* the callback of a reply: the list it has still to call
    loaded,     \* history: the calls of loadWebResource
    results     \* history: the results each call has got

webVars == <<wallet, loader, requests, downloads, running, loaded, results>>

\* No reply is being handled.
Idle == [on |-> FALSE, list |-> <<>>]

WebInit ==
    /\ wallet = TRUE /\ loader = FALSE
    /\ requests = [u \in Urls |-> <<>>]
    /\ downloads = [u \in Urls |-> "none"]
    /\ running = Idle
    /\ loaded = {}
    /\ results = [l \in Loads |-> <<>>]

\* ~WebLoader, with the replies, which are children of the manager.
NoRequests ==
    /\ requests' = [u \in Urls |-> <<>>]
    /\ downloads' = [u \in Urls |-> "none"]

-----------------------------------------------------------------------------

\* Anybody may call, a callback that is running included.
LoadWebResource(l, u) ==
    /\ wallet /\ l \notin loaded
    /\ loader' = TRUE
    /\ requests' = [requests EXCEPT ![u] = Append(@, l)]
    /\ downloads' = IF requests[u] = <<>> THEN [downloads EXCEPT ![u] = "going"]
                                          ELSE downloads
    /\ loaded' = loaded \cup {l}
    /\ UNCHANGED <<wallet, running, results>>

\* The network: a file or an error.
Finish(u) ==
    /\ downloads[u] = "going"
    /\ downloads' = [downloads EXCEPT ![u] = "finished"]
    /\ UNCHANGED <<wallet, loader, requests, running, loaded, results>>

\* The main thread handles a reply: its list is taken.
OnFinished(u) ==
    /\ ~ running.on /\ downloads[u] = "finished"
    /\ running' = [on |-> TRUE, list |-> requests[u]]
    /\ requests' = [requests EXCEPT ![u] = <<>>]
    /\ downloads' = [downloads EXCEPT ![u] = "none"]
    /\ UNCHANGED <<wallet, loader, loaded, results>>

\* Mutant of RunNext: whether the loader is still there is not looked at.
RunNextAnyhow ==
    /\ running.list # <<>>
    /\ running' = [running EXCEPT !.list = Tail(@)]
    /\ LET l == Head(running.list) IN
         results' = [results EXCEPT ![l] = Append(@, "done")]
    /\ UNCHANGED <<wallet, loader, requests, downloads, loaded>>

\* The next callback is called.
RunNext ==
    /\ loader /\ running.list # <<>>
    /\ running' = [running EXCEPT !.list = Tail(@)]
    /\ LET l == Head(running.list) IN
         results' = [results EXCEPT ![l] = Append(@, "done")]
    /\ UNCHANGED <<wallet, loader, requests, downloads, loaded>>

\* Mutant of RunLast: the loader goes when a reply has been handled.
RunLastAnyhow ==
    /\ loader /\ running.on /\ running.list = <<>>
    /\ running' = Idle
    /\ loader' = FALSE
    /\ NoRequests
    /\ UNCHANGED <<wallet, loaded, results>>

\* All have been called: the loader goes when nobody waits for another one.
RunLast ==
    /\ loader /\ running.on /\ running.list = <<>>
    /\ running' = Idle
    /\ IF \A u \in Urls : requests[u] = <<>>
         THEN loader' = FALSE /\ NoRequests
         ELSE UNCHANGED <<loader, requests, downloads>>
    /\ UNCHANGED <<wallet, loaded, results>>

\* The callback that destroyed the loader was the last one: QPointer weak.
Stop ==
    /\ ~ loader /\ running.on
    /\ running' = Idle
    /\ UNCHANGED <<wallet, loader, requests, downloads, loaded, results>>

\* ~Wallet, from a callback or not.
DestroyWallet ==
    /\ wallet
    /\ wallet' = FALSE /\ loader' = FALSE
    /\ NoRequests
    /\ UNCHANGED <<running, loaded, results>>

-----------------------------------------------------------------------------

WebNext ==
    \/ \E l \in Loads, u \in Urls : LoadWebResource(l, u)
    \/ \E u \in Urls : Finish(u) \/ OnFinished(u)
    \/ RunNext \/ RunLast \/ Stop
    \/ DestroyWallet

WebSpec == WebInit /\ [][WebNext]_webVars

\* A download ends, with an error at worst, and the main thread handles it.
WebFairness ==
    /\ \A u \in Urls : WF_webVars(Finish(u)) /\ WF_webVars(OnFinished(u))
    /\ WF_webVars(RunNext) /\ WF_webVars(RunLast) /\ WF_webVars(Stop)

-----------------------------------------------------------------------------
(* Safety *)

Waiting == {l \in loaded : results[l] = <<>>}

\* Nobody who waits is lost, whatever callbacks do: each call without a result
\* is in the list of one address, whose download goes on, or in the list that
\* is being called.  The loader is there as long as somebody waits and, once
\* its callbacks have run, no longer.
LoaderServesAll ==
    wallet =>
        /\ \A l \in Waiting :
              Cardinality({u \in Urls : l \in ToSet(requests[u])})
                  = IF l \in ToSet(running.list) THEN 0 ELSE 1
        /\ \A u \in Urls : requests[u] # <<>> <=> downloads[u] # "none"
        /\ Waiting # {} => loader
        /\ ~ running.on /\ loader => Waiting # {}

(* Refinement *)

Promise ==
    INSTANCE RequestReply WITH
        Requests <- Loads, WithFail <- Loads, open <- wallet, asked <- loaded,
        withdrawn <- {}, given <- results

\* Whoever loads is called back once, and is called back unless the wallet is
\* destroyed: what RequestReply says, here of downloads.
LoadsAreAnswered == Promise!Spec

=============================================================================
