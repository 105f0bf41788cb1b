-------------------------- MODULE MCCallbackTarget --------------------------
(* CallbackTarget with a few names and addresses of each class. *)
EXTENDS CallbackTarget

MCNames == {<<"hooks", "example">>, <<"badexample">>, <<"localhost">>,
            <<"svc", "internal">>}

MCPrivateIPs == {"10.0.0.7"}
MCIPs == {"203.0.113.7"} \cup MCPrivateIPs

\* No allow-list; one with a domain, an address and an empty entry.
AllowLists == {{}, {[labels |-> <<"example">>, dots |-> 1],
                    [labels |-> <<"203.0.113.7">>, dots |-> 0],
                    [labels |-> << >>, dots |-> 0]}}

\* Every policy but the one that allows everything.
MCPolicies == [allowed : AllowLists, private : BOOLEAN]
                \ {[allowed |-> {}, private |-> TRUE]}
=============================================================================
