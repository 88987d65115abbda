----------------------------- MODULE ServerUser -----------------------------
(***************************************************************************)
(* server_user.c: a logged-in user and the linked list of the connections  *)
(* it is logged in on.  An SSL object is named by the descriptor it serves *)
(* (SSL_get_fd): while a connection is open the two determine each other.  *)
(* The list is a sequence whose head is the first node.                    *)
(***************************************************************************)
EXTENDS Naturals, Sequences, SequencesExt

server_user_create(ssl, name, priv) ==
    [con_len |-> 1, connections |-> <<ssl>>, username |-> name, p_level |-> priv]

server_user_add_connection_uncounted(su, ssl) ==   \* mutant
    [su EXCEPT !.connections = Cons(ssl, @)]

server_user_add_connection(su, ssl) ==
    [su EXCEPT !.connections = Cons(ssl, @), !.con_len = @ + 1]

server_user_remove_connection_uncounted(su, ssl) ==   \* mutant
    [su EXCEPT !.connections = RemoveFirst(@, ssl)]

\* Unlinks the first node that holds ssl; a list without one is left alone.
server_user_remove_connection(su, ssl) ==
    IF ssl \in ToSet(su.connections)
    THEN [su EXCEPT !.connections = RemoveFirst(@, ssl), !.con_len = @ - 1]
    ELSE su
==============================================================================
