------------------------------- MODULE MCRest -------------------------------
(* Small instances of RestServer for TLC. *)
EXTENDS RestServer

\* Default options, an addition, a replacement, a shared listener, engine options and
\* error handlers of the application.
SomeOptions ==
    {<<>>,
     <<<<"AddRootMiddlewares", Named(<<"logger">>)>>, <<"SetFiberConfig", "none">>>>,
     <<<<"SetRootMiddlewares", <<>>>>, <<"SetErrorHandler", "careful">>>>,
     <<<<"SetSharedListener", TRUE>>, <<"SetRootPath", <<>>>>>>,
     <<<<"SetEchoEngineOption", Named(<<"recover">>)>>, <<"SetErrorHandler", "silent">>,
       <<"SetFiberConfig", "silent">>>>,
     <<<<"SetEchoEngineOption", Named(<<"recover">>)>>>>}
NoOptions == {<<>>}
V1 == <<"v1">>
TwoPatterns == {<<>>, <<"a">>}
Nowhere == <<"v1", "x">>
=============================================================================
