------------------------------ MODULE MCClient -------------------------------
(***************************************************************************)
(* Values of the constants of Client for model checking.                   *)
(***************************************************************************)
EXTENDS Client, TLC

SomeNumbers == "3" :> 3 @@ "55099" :> 55099

\* One line for each way a command touches the connection, and two that do not
\* reach it: a port that is no number, and a command that lacks its words.
SomeLines ==
    {<<"connect">>, <<"connect", "localhost">>, <<"connect", "localhost", "http">>,
     <<"disconnect">>, <<"who">>, <<"kick">>, <<"grant", "3">>, <<>>}

ConnectionLines == {<<"connect">>, <<"disconnect">>}
==============================================================================
