----------------------------- MODULE MCClients -----------------------------
(***************************************************************************)
(* A small instance of Clients for TLC.                                    *)
(***************************************************************************)
EXTENDS Clients

A(net, host, v6, mapped, zone) ==
    [net |-> net, host |-> host, v6 |-> v6, mapped |-> mapped, zone |-> zone]

Plain(net, host) == A(net, host, FALSE, FALSE, FALSE)

\* Two customers, one of them in two spellings; a link-local one; two of one /64; proxies.
MCPeers ==
    {Plain(1, 1), A(1, 1, TRUE, TRUE, FALSE), Plain(1, 2),
     A(2, 1, TRUE, FALSE, FALSE), A(2, 2, TRUE, FALSE, FALSE), A(3, 1, TRUE, FALSE, TRUE),
     Plain(9, 1), Plain(9, 2), A(9, 3, TRUE, FALSE, FALSE)}

MCHeaders ==
    {<<>>, <<<<Plain(1, 2)>>>>, <<<<Plain(9, 1)>>>>, <<<<Junk, Blank>>>>,
     <<<<Plain(1, 2)>>, <<Plain(9, 2), Blank>>>>, <<<<Plain(1, 1), Plain(9, 1), Junk>>>>}

Cidr(of) == [cidr |-> TRUE, of |-> of]
Host(of) == [cidr |-> FALSE, of |-> of]

MCProxies == {<<>>, <<Cidr(Plain(9, 0))>>,
              <<Blank, Host(A(9, 1, TRUE, TRUE, FALSE)), Junk, Host(A(9, 3, TRUE, FALSE, FALSE))>>}
=============================================================================
