---------------------------- MODULE MCHttpStack -----------------------------
(***************************************************************************)
(* Every order of the two middlewares around an application, alone or with *)
(* a mounted child that has its own or lacks them, and up to two stacked   *)
(* decorators around the endpoint.                                         *)
(***************************************************************************)
EXTENDS HttpStack

Outer == {<<>>, <<"headers">>, <<"asgi">>, <<"headers", "asgi">>, <<"asgi", "headers">>}
Child == {<<>>, <<"server", "handlers">>, <<"server", "headers", "handlers">>}
Decorators == {<<>>, <<"limit">>, <<"limit", "limit">>}

MCStacks ==
    {<<"server">> \o outer \o <<"handlers">> \o child \o limits :
        outer \in Outer, child \in Child, limits \in Decorators}
=============================================================================
