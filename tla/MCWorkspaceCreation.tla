------------------------ MODULE MCWorkspaceCreation ------------------------
(* Two subjects that use one key text, whose scopes share an advisory lock. *)
(* One of them sends a call twice, asks for another name with the same key, *)
(* and for a name that is too long.                                         *)
EXTENDS WorkspaceCreation, TLC

CONSTANTS c1, c2, c3, c4, c5

MCSubject == {"alice", "bob"}
MCScope == {<<s, "key">> : s \in MCSubject}
MCCall == {c1, c2, c3, c4, c5}
MCScopeOf == c4 :> <<"bob", "key">> @@ [c \in {c1, c2, c3, c5} |-> <<"alice", "key">>]
MCSubjectOf == [s \in MCScope |-> s[1]]
MCLockOf == [s \in MCScope |-> "lock"]
Key == [length |-> 1, visible |-> TRUE]
MCKeyOf == c1 :> Key @@ c2 :> Key @@ c3 :> Key @@ c4 :> Key @@ c5 :> Key
Text(words, length) == [words |-> words, length |-> length, valid |-> TRUE]
MCTextOf == c1 :> Text("Platform", 1) @@ c2 :> Text("Platform", 1) @@ c3 :> Text("Other", 1)
            @@ c4 :> Text("Platform", 1) @@ c5 :> Text("Platform Engineering", 2)
\* The two calls that ask for the same.
MCSymmetry == Permutations({c1, c2})
=============================================================================
