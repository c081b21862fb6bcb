----------------------------- MODULE MCStorage -----------------------------
EXTENDS Storage
CONSTANTS a1, a2, hello, blob, content, late

\* Two addresses that differ where WalletStateKey does not look.
MCStateKey == [a \in Addresses |-> "state"]

\* Accounts: of the usual kind, and restricted in one way, in another, in all.
MCAccounts ==
    {[balance |-> 2, content |-> content, wallet |-> w] : w \in
        {[kind |-> "other"]} \cup
        [kind : {"rwallet"}, unlocked : {1, 3}, startAt : {0, 1},
         limits : {<<>>, <<late>>}]}

\* Messages of each kind.
MCData ==
    {[kind |-> "text", text |-> hello], [kind |-> "raw"],
     [kind |-> "encrypted", bytes |-> <<blob>>], [kind |-> "decrypted", text |-> hello]}
MCMessages == [source : {a1}, data : MCData]

Transaction(in, out) == [content |-> content, incoming |-> in, outgoing |-> out]

\* Every account with one transaction, and every transaction in one account.
MCPending ==
    <<[content |-> content, comment |-> hello, unencrypted |-> FALSE],
      [content |-> content, comment |-> hello, unencrypted |-> TRUE]>>
MCLast ==
    {<<Transaction(in, out)>> : in \in MCMessages, out \in {<<>>} \cup {<<m>> : m \in MCMessages}}
MCTold ==
    {[account |-> a, last |-> l, pending |-> MCPending] :
        a \in MCAccounts, l \in {CHOOSE x \in MCLast : TRUE}}
    \cup {[account |-> CHOOSE x \in MCAccounts : x.wallet.kind = "other", last |-> l,
           pending |-> MCPending] : l \in MCLast}

Network(name, url) == [name |-> name, url |-> url]
Make(main, test, use, version) ==
    [main |-> main, test |-> test, useTestNetwork |-> use, version |-> version]

MCNewSettings ==
    {Make(Network(Mainnet, NewUrl), Network(MainnetTest, NewUrl), FALSE, 3)}

\* The first test network was called "mainnet" and had another address.
MCFirstSettings ==
    {[packed |-> OldSettings(Make(NoNetwork, Network(Mainnet, OldUrl), TRUE, v)),
      means |-> Make(NoNetwork, Network(MainnetTest, NewUrl), TRUE, v)] : v \in {0, 2}}
=============================================================================
