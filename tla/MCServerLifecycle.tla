------------------------- MODULE MCServerLifecycle -------------------------
(* One process of each kind with two requests; its configuration is sound, *)
(* or has one defect.                                                      *)
EXTENDS ServerLifecycle

CONSTANTS r1, r2

SessionOff == [f \in SessionFields |-> ""]
SessionOn == [f \in SessionFields |-> "good"]

API == [environment |-> "production", database |-> "good", signing |-> "good", activeKey |-> "new",
        secondKey |-> "old", token |-> "other", code |-> "good", delivery |-> "good", proxies |-> "good",
        maxPending |-> 1, http |-> "public", internal |-> "internal", session |-> SessionOff,
        clients |-> {"google"}, secret |-> [p \in Provider |-> IF p = "google" THEN "good" ELSE ""],
        origin |-> "https"]

\* Without providers, and with the session server.
SessionAPI == [API EXCEPT !.session = SessionOn, !.clients = {}, !.secret = [p \in Provider |-> ""], !.origin = ""]

Worker == [environment |-> "local", database |-> "good", delivery |-> "good", broker |-> "good",
           registry |-> "good", mail |-> "good", username |-> "worker", password |-> "good"]

Workspace == [environment |-> "local", database |-> "good", postgres |-> FALSE, jwks |-> "good", token |-> "local",
              session |-> "good", certificate |-> "good", key |-> "good", ca |-> "good", oidc |-> ""]

\* c with one defect: a setting that is missing, wrong, or at odds with another.
Broken(c, fields, bad) == {[c EXCEPT ![f] = bad] : f \in fields}

BrokenAPI ==
  Broken(API, {"environment", "database", "signing", "activeKey", "token", "code", "delivery", "origin"}, "")
  \cup Broken(API, {"database", "signing", "code", "delivery", "proxies"}, "bad")
  \cup {[API EXCEPT !.environment = "local"], [API EXCEPT !.secondKey = "new"], [API EXCEPT !.secondKey = "malformed"],
        [API EXCEPT !.maxPending = 0], [API EXCEPT !.internal = "public"], [API EXCEPT !.origin = "http"],
        [API EXCEPT !.clients = {}], [API EXCEPT !.clients = Provider], [API EXCEPT !.secret["google"] = "bad"],
        [API EXCEPT !.session = [SessionOn EXCEPT !.address = "public"]]}
  \cup {[API EXCEPT !.session = [SessionOn EXCEPT ![f] = v]] : f \in SessionFields \ {"address"}, v \in {"", "bad"}}

MCConfigs ==
  [k \in Kinds |->
     CASE k = "identity-api" -> {API, SessionAPI} \cup BrokenAPI
       [] k = "identity-worker" ->
            {Worker} \cup Broken(Worker, DOMAIN Worker, "")
            \cup Broken(Worker, {"database", "delivery", "broker", "registry", "mail"}, "bad")
       [] k = "workspace-api" ->
            {Workspace} \cup Broken(Workspace, DOMAIN Workspace \ {"postgres", "oidc"}, "")
            \cup Broken(Workspace, {"database", "jwks", "token", "session", "certificate", "key", "ca", "oidc"}, "bad")]
=============================================================================
