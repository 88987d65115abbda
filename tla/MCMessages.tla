------------------------------ MODULE MCMessages ------------------------------
(***************************************************************************)
(* Values of the constants of Messages for model checking.                 *)
(***************************************************************************)
EXTENDS Messages

\* Words that read as numbers: ids, a level, and two that do not fit into an int
\* and keep their last 32 bits.
SomeNumbers ==
    "3" :> 3 @@ "8" :> 8 @@ "4294967295" :> (-1) @@ "4294967299" :> 3

\* The last is the longest id: its bytes are 127, 255, 255, 255.
SomeUids == {3, 300, 70000, 2147483647}
SomeNames ==
    3 :> "alice" @@ 300 :> "bob" @@ 70000 :> "text18" @@ 2147483647 :> "text19"

\* Lengths around the free bytes of a fresh buffer, and one that needs two steps.
SomeStrings ==
    "alice" :> 5 @@ "bob" :> 3 @@ "text18" :> 18 @@ "text19" :> 19 @@
    "text70" :> 70 @@ "3" :> 1 @@ "8" :> 1 @@ "secret" :> 6 @@
    "4294967295" :> 10 @@ "4294967299" :> 10 @@ "nonsense" :> 8 @@
    "kick" :> 4 @@ "w" :> 1 @@ "register" :> 8 @@ "login" :> 5 @@ "logout" :> 6 @@
    "who" :> 3 @@ "friends" :> 7 @@ "help" :> 4 @@ "connect" :> 7 @@ "dc" :> 2 @@
    "grant" :> 5 @@ "fadd" :> 4 @@ "fremove" :> 7 @@ "gcreate" :> 7 @@ "gdelete" :> 7

SomeTexts == {"alice", "text18", "text19", "text70"}

\* Every command, with numbers, with a word where a number belongs, and short of
\* words.
SomeLines ==
    {<<"kick", "3">>, <<"kick", "bob">>, <<"kick", "4294967295">>, <<"kick">>,
     <<"w", "4294967299", "text70", "text18">>, <<"w", "3">>,
     <<"register", "bob", "secret">>, <<"login", "alice", "3">>, <<"login", "alice">>,
     <<"logout">>, <<"who">>, <<"friends">>, <<"help">>, <<"connect">>, <<"dc">>,
     <<"grant", "3", "8">>, <<"grant", "3", "bob">>, <<"grant", "3">>,
     <<"fadd", "3">>, <<"fremove", "8">>, <<"gcreate", "text19">>, <<"gdelete", "3">>,
     <<"nonsense">>, <<>>}
==============================================================================
