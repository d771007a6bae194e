----------------------------- MODULE MCRateLimit -----------------------------
(* Three logins for one email: one of each of two clients, and one of the   *)
(* first with an address that it made up; and two requests of one account.  *)
(* The email admits less in its window than the sources would; the account  *)
(* has a limit in its window, a limit in a day and an interval.             *)
EXTENDS ClientLimits, TLC

CONSTANTS l1, l2, l3, a1, a2, c1, c2, edge

MCRequest == {l1, l2, l3, a1, a2}
MCAddress == {c1, c2, edge}
MCTrusted == {edge}
MCKey == {<<"source", c1>>, <<"source", c2>>, <<"email", "one">>, <<"account", "one">>}

Plain(address) == [ip |-> address, mapped |-> FALSE]
Mapped(address) == [ip |-> address, mapped |-> TRUE]
MCNodes == l1 :> <<Plain(c1), Plain(edge)>> @@ l2 :> <<Plain(c2), Plain(edge)>>
           @@ l3 :> <<Mapped(c1), Mapped(edge)>> @@ [a \in {a1, a2} |-> <<>>]
MCForged == [r \in MCRequest |-> [other |-> r = l3, lines |-> IF r = l3 THEN <<<<Plain(c2)>>>> ELSE <<>>]]
MCOthers == [r \in {l1, l2, l3} |-> <<<<"email", "one">>>>]
            @@ [a \in {a1, a2} |-> <<<<"account", "one">>>>]

Of(kind) == {k \in MCKey : k[1] = kind}
MCKeysOf == [r \in {} |-> <<>>] @@ ClientKeysOf
MCMaximum == <<"account", "one">> :> 2 @@ [k \in MCKey |-> 1]
MCWindow == [k \in Of("source") |-> 2] @@ [k \in MCKey |-> 1]
MCDailyMaximum == [k \in Of("account") |-> 1] @@ [k \in MCKey |-> 0]
MCInterval == [k \in Of("account") |-> 1] @@ [k \in MCKey |-> 0]
=============================================================================
