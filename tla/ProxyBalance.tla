---------------------------- MODULE ProxyBalance ----------------------------
(***************************************************************************)
(* The load balancer under the proxy's requests, over a registry in which  *)
(* instances register and, thanks to their heartbeats, stay.  Requests for *)
(* all services share RoundRobinBalancer.counter.                          *)
(***************************************************************************)
EXTENDS Proxy

\* a step of Register; nothing expires
Registering ==
    /\ \/ \E h \in Handler, s \in Service, K \in SUBSET Key, i \in InstanceID :
             RegisterValidate(h, s, K, i)
       \/ \E h \in Handler : RegisterCommit(h, 0)
    /\ Observe
    /\ UNCHANGED counter

\* Handle goes on after its route was found and the request authenticated
HandleStep(g) == Pick(g) \/ Select(g) \/ Forward(g)

BalanceNext ==
    \/ Registering
    \/ \E g \in Handling, m \in HTTPMethod, path \in RequestPaths : Match(g, m, path)
    \/ \E g \in Handling : HandleStep(g)

\* a goroutine that handles a request goes on; requests come or do not come
FairBalance ==
    /\ ProxyInit /\ [][BalanceNext]_proxyVars
    /\ \A g \in Handling : WF_proxyVars(HandleStep(g))

-----------------------------------------------------------------------------

Selecting(g) == req[g].stage = "select" /\ req'[g].stage = "forward"

\* a request may go to i, and one does
Offered(i) ==
    \E g \in Handling : /\ Selecting(g)
                        /\ \E n \in 1 .. Len(req[g].healthy) : req[g].healthy[n] = i
Taken(i) == \E g \in Handling : Selecting(g) /\ Chosen(req[g].healthy) = i

(***************************************************************************)
(* The load balancer leaves nobody out: an instance that is again and      *)
(* again in the list a request is balanced over is again and again the one *)
(* it is sent to.  It fails when requests for two services alternate: they *)
(* move the counter that they share by two.                                *)
(***************************************************************************)
EveryInstanceServed ==
    \A i \in InstanceID :
        []<><<Offered(i)>>_proxyVars => []<><<Taken(i)>>_proxyVars

=============================================================================
