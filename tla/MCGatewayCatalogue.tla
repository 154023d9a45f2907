--------------------------- MODULE MCGatewayCatalogue ---------------------------
EXTENDS GatewayCatalogue

CONSTANTS a, b, front, ga, gb, knowledge, web, kn, wb

Server(id, name, enabled, permitted) ==
    [id |-> id, name |-> name, enabled |-> enabled, permitted |-> permitted]
Entry(url, servers) == [url |-> url, servers |-> servers]

Know == Server(knowledge, kn, TRUE, TRUE)
Web == Server(web, wb, TRUE, TRUE)

(* Gateway ga is also reached at front, and calls itself so. *)
MCProcessAt == [u \in Urls |-> IF u = b THEN gb ELSE ga]
MCPublicUrl == [p \in Processes |-> IF p = ga THEN front ELSE b]

(* One Gateway, by a URL that is not the one it has of itself, and a        *)
(* disabled server; two, with the servers apart; an id and a name that come *)
(* twice, once without a url; two Gateways of which one does not find its   *)
(* own entry, and a server without the roles.                               *)
MCRegistries ==
    {<<Entry(a, <<Know, Server(web, wb, FALSE, TRUE)>>)>>,
     <<Entry(front, <<Know>>), Entry(b, <<Web>>)>>,
     <<Entry(front, <<Know>>), Entry(b, <<Server(knowledge, wb, TRUE, TRUE)>>),
       Entry(NoUrl, <<Web>>)>>,
     <<Entry(a, <<Know>>), Entry(b, <<Server(web, wb, TRUE, FALSE)>>)>>}
================================================================================
