---------------------------- MODULE SourceAddress ----------------------------
(***************************************************************************)
(* The source address of a request, on which most limits are counted       *)
(* (SourceAddress).  A request passes through proxies; those of the edge   *)
(* are trusted, and each appends the address of its own peer to the        *)
(* X-Forwarded-For header.  What stands before that, a client can write.   *)
(*                                                                         *)
(* An address is written in one of two forms, as an IPv4 address or as the *)
(* IPv6 address that it is mapped to.                                      *)
(***************************************************************************)
EXTENDS Integers, Sequences

CONSTANTS
  Address,
  Trusted,    \* the addresses in the prefixes of TRUSTED_PROXY_CIDRS
  Malformed,  \* an element of the header that is no address
  NoSource    \* ErrInvalidSourceAddress: the request is refused

Written == [ip : Address, mapped : BOOLEAN]

ASSUME AddressAssumption == Malformed \notin Written /\ NoSource \notin Address

\* "other" says that there is a Forwarded or an X-Real-IP header; "lines" are the
\* X-Forwarded-For headers.
Headers == [other : BOOLEAN, lines : Seq(Seq(Written \cup {Malformed}))]

Unmap(address) == address.ip
isTrusted(address) == Unmap(address) \in Trusted

\* Bug: the client's end of the chain is read first.
RightmostBug(indexes) == CHOOSE i \in indexes : \A j \in indexes : i <= j

Rightmost(indexes) == CHOOSE i \in indexes : \A j \in indexes : j <= i

Chain(headers) == IF headers.lines = <<>> THEN <<>> ELSE headers.lines[1]
Untrusted(chain) == {i \in DOMAIN chain : ~isTrusted(chain[i])}

IsInvalid(headers) ==
  \/ headers.other \/ Len(headers.lines) > 1
  \/ \E i \in DOMAIN Chain(headers) : Chain(headers)[i] = Malformed

SourceAddress(remote, headers) ==
  LET chain == Chain(headers) IN
  CASE IsInvalid(headers) -> NoSource
    [] ~IsInvalid(headers) /\ ~isTrusted(remote) -> Unmap(remote)
    [] ~IsInvalid(headers) /\ isTrusted(remote) ->
         IF Untrusted(chain) = {} THEN NoSource ELSE Unmap(chain[Rightmost(Untrusted(chain))])

-----------------------------------------------------------------------------
(* The way of a request: the client, then the proxies that forward it.     *)

\* The last node is the peer of the server.  When it is one of the edge, it has taken
\* the other headers away, joined the lines, and each node's address has been appended.
Peer(nodes) == nodes[Len(nodes)]
Arriving(nodes, forged) ==
  IF isTrusted(Peer(nodes))
    THEN [other |-> FALSE, lines |-> <<Chain(forged) \o SubSeq(nodes, 1, Len(nodes) - 1)>>]
    ELSE forged

Source(nodes, forged) == SourceAddress(Peer(nodes), Arriving(nodes, forged))

\* Where the request entered the trusted network.
Entry(nodes) == Unmap(nodes[Rightmost(Untrusted(nodes))])
=============================================================================
