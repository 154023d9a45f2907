--------------------------- MODULE MCGatewayTokenCache ---------------------------
(* Instances of GatewayTokenCache for TLC. *)
EXTENDS GatewayTokenCache, TLC

CONSTANTS early, late, alien, s1, s2, s3, s4, t1, t2

MCSourceExp == [s \in Sources |-> IF s = early THEN 1 ELSE 20]
MCAllowedTools == [s \in Servers |-> {t1}]
MCRolesOf == [s \in Sources |-> IF s = early THEN {} ELSE {"reader"}]
MCRequiredRoles == [s \in Servers |-> IF s = s2 THEN {"reader"} ELSE {}]
RequestSymmetry == Permutations(Requests)

ListQuery(source, server) ==
    [source |-> source, server |-> server, method |-> "tools/list", tool |-> t1]

(* Two callers of one server, one caller of two servers, and one query for  *)
(* each other way through the endpoint: allowed, unknown tool, roles        *)
(* missing, answered locally, unknown method, no JSON object, no JSON,      *)
(* unknown server, a server without scopes, a token of another client, and  *)
(* the catalogue.                                                           *)
MCInputs ==
    {ListQuery(early, s1), ListQuery(late, s1), ListQuery(late, s2)}
    \cup {[ListQuery(late, s1) EXCEPT !.method = "tools/call"],
          [ListQuery(late, s1) EXCEPT !.method = "tools/call", !.tool = t2],
          [ListQuery(early, s2) EXCEPT !.method = "tools/call"],
          [ListQuery(late, s1) EXCEPT !.method = "local"],
          [ListQuery(late, s1) EXCEPT !.method = "other"],
          [ListQuery(late, s1) EXCEPT !.method = "malformed"],
          [ListQuery(late, s1) EXCEPT !.method = "unreadable"],
          [ListQuery(late, s1) EXCEPT !.method = "catalogue"],
          ListQuery(late, s3), ListQuery(late, s4), ListQuery(alien, s1)}
==================================================================================
