---------------------------- MODULE MCStoreClient ----------------------------
(* Instances of StoreClient for model checking. *)
EXTENDS StoreClient, TLC

CONSTANTS c1, c2

\* An account with all scopes, and one that may only read.  That the account is
\* suspended is one of the reasons for which an authentication may fail.
MCProfiles == {[active |-> TRUE, scopes |-> Scope], [active |-> TRUE, scopes |-> {"read"}]}

\* Any two kinds of operation; who does which makes no difference.
MCOperations ==
    {(c1 :> k[1]) @@ (c2 :> k[2]) :
        k \in {<<"create", "create">>, <<"create", "get">>, <<"create", "upsert">>,
               <<"get", "get">>, <<"get", "upsert">>, <<"upsert", "upsert">>}}

=============================================================================
