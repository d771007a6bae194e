--------------------------- MODULE Configuration ---------------------------
(***************************************************************************)
(* What each process asks of its environment before it opens anything: the *)
(* variables it loads (sharedconfig.Load, LoadAPIConfig, LoadWorkerConfig, *)
(* LoadConfig) and the files and addresses it builds its parts from.       *)
(*                                                                         *)
(* A configuration is a record.  A file, or an address that is parsed, is  *)
(* "" where its variable is not set, "good" where it holds what is         *)
(* expected, and "bad" where it is missing or holds anything else.         *)
(***************************************************************************)
EXTENDS Integers

Setting == {"", "good", "bad"}
Provider == {"google", "github"}

\* What has no default and may not be empty is set.
Required(c, fields) == \A f \in fields : c[f] # ""

\* Outside "local" any issuer and audience will do.
TokenNamesFit(c) == c.environment = "local" => c.token = "local"

------------------------------------------------------------------------------
(* The Identity API.                                                       *)

\* The five variables of the session listener.
SessionFields == {"address", "certificate", "key", "clientCA", "callers"}

\* The listener is on with all of them, off with none, and never in between.
sessionRPCEnabled(c) ==
  LET configured == {f \in SessionFields : c.session[f] # ""} IN
  CASE configured = {} -> "off"
    [] configured = SessionFields /\ c.session.address \notin {c.http, c.internal} -> "on"
    [] OTHER -> "invalid"

\* An absolute origin; plain HTTP is local only.
callbackOrigin(c) == c.origin = "https" \/ (c.origin = "http" /\ c.environment = "local")

\* The providers with a client: all have a secret and share the origin of the callbacks.
providerClients(c) ==
  \/ c.clients = {} /\ c.origin = ""
  \/ c.clients # {} /\ callbackOrigin(c) /\ \A p \in c.clients : c.secret[p] # ""

readMountedFile(file) == file = "good"

LoadAPIConfig(c) ==
  /\ Required(c, {"environment", "signing", "activeKey", "token", "code", "delivery", "database"})
  /\ c.maxPending >= 1 /\ c.http # c.internal
  /\ sessionRPCEnabled(c) # "invalid" /\ providerClients(c)
  /\ \A p \in c.clients : readMountedFile(c.secret[p])
  /\ TokenNamesFit(c)

readSigningKey(c) == readMountedFile(c.signing)
readKey(c) == readMountedFile(c.code) /\ readMountedFile(c.delivery)
loadTrustedProxies(c) == c.proxies \in {"", "good"}

\* The second key is another one than the active key, or there is none.
buildSigningKeys(c) == c.activeKey # "" /\ c.secondKey \notin {"malformed", c.activeKey}

\* What NewAPIServer builds before it connects to the database.
ReadKeys(c) == readSigningKey(c) /\ readKey(c) /\ loadTrustedProxies(c) /\ buildSigningKeys(c)

parseSessionCallerAllowlist(c) == c.session.callers = "good"
readSessionCertificate(c) == readMountedFile(c.session.certificate) /\ readMountedFile(c.session.key)

\* And what it builds after that.
newSessionTLSConfig(c) ==
  sessionRPCEnabled(c) = "on" =>
    parseSessionCallerAllowlist(c) /\ readSessionCertificate(c) /\ readMountedFile(c.session.clientCA)

------------------------------------------------------------------------------
(* The Identity worker.                                                    *)

LoadWorkerConfig(c) ==
  /\ Required(c, {"environment", "delivery", "broker", "registry", "mail", "database"})
  /\ (c.username = "") = (c.password = "") /\ (c.environment = "local" => c.username # "")

\* The mail server's address and the sender can be parsed.
NewMailpitSender(c) == c.mail = "good"

------------------------------------------------------------------------------
(* The Workspace API.                                                      *)

\* The database is named by one variable, or by the four of libpq.
LoadConfig(c) ==
  /\ Required(c, {"environment", "jwks", "token", "session", "certificate", "key", "ca"})
  /\ c.database # "" \/ c.postgres
  /\ TokenNamesFit(c)

\* NewServer refuses what is left of the configuration of another provider of tokens.
NoOIDC(c) == c.oidc = ""

\* The session address is dialled when it is used; here it only has to be one.
NewTokenVerifier(c) ==
  /\ c.jwks = "good" /\ readMountedFile(c.certificate) /\ readMountedFile(c.key) /\ readMountedFile(c.ca)
  /\ c.session = "good"
=============================================================================
