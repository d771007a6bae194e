---------------------------- MODULE ClientLimits ----------------------------
(***************************************************************************)
(* The rate limits as clients meet them: the source counter of a request   *)
(* belongs to the address that SourceAddress finds for it, and a request   *)
(* for which it finds none is refused before any limit is recorded.        *)
(***************************************************************************)
EXTENDS RateLimit, SourceAddress

CONSTANTS
  Nodes,   \* for each request, the client and the proxies it passes
  Forged,  \* for each request, the headers that its client wrote
  Others   \* for each request, its counters beside that of its source

\* PasswordLogin counts the source first; CodeIssue and AccountWrongCode count an account only.
ClientKeysOf ==
  [r \in Request |->
     IF Nodes[r] = <<>> THEN Others[r]
     ELSE LET source == Source(Nodes[r], Forged[r]) IN
          IF source = NoSource THEN <<>> ELSE <<<<"source", source>>>> \o Others[r]]

\* A client is outside the trusted network, and no other counter is that of a source.
ASSUME ClientsAssumption ==
  /\ KeysOf = ClientKeysOf
  /\ Nodes \in [Request -> Seq(Written)]
  /\ Forged \in [Request -> Headers]
  /\ \A r \in Request : Nodes[r] # <<>> => Untrusted(Nodes[r]) # {}
  /\ Others \in [Request -> Seq(Key)]
  /\ \A r \in Request : \A i \in DOMAIN Others[r] : Others[r][i][1] # "source"

CountedFrom(address) ==
  {c \in counted : c.key[1] = "source" /\ Nodes[c.request] # <<>> /\ Entry(Nodes[c.request]) = address}

\* A client gets no more out of a window by writing headers of its own, or by writing its
\* address in another form: whatever it sends, it is counted where its request entered the
\* trusted network.
ClientsCannotHide ==
  \A address \in Address :
    LET key == <<"source", address>>
        rows == CountedFrom(address)
    IN  key \in Key => \A t \in 0..MaxTime :
          Cardinality({c \in rows : t - Window[key] < c.time /\ c.time <= t}) <= Maximum[key]
=============================================================================
