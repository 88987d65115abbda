-------------------------------- MODULE SqlCh --------------------------------
(***************************************************************************)
(* sql_ch.c: the tables of the MySQL database "vhIM" and the queries the   *)
(* server runs on them.                                                    *)
(*                                                                         *)
(* Every call opens a connection, runs its queries one after the other,    *)
(* each committed on its own, and closes the connection.  An operator      *)
(* named after the C function takes the tables and returns the SET of its  *)
(* possible outcomes: a singleton when no query can fail (DbFails = FALSE),*)
(* and one more outcome for each query whose failure the code handles      *)
(* differently when it can.  A killed process leaves the tables as a       *)
(* failure of the next query does, so these outcomes cover it too.         *)
(***************************************************************************)
EXTENDS Naturals, FiniteSets

CONSTANTS
    Uids,        \* values of users.id
    Names,       \* user names a client may type
    UidOf,       \* the row a name selects: WHERE `user` = '<name>'
    GroupNames,  \* names a client may give to a group
    DbFails      \* whether a query may fail

ASSUME UidsAssumption == Uids \subseteq Nat \ {0}
ASSUME UidOfAssumption == UidOf \in [Names -> Uids]
ASSUME DbFailsAssumption == DbFails \in BOOLEAN

(***************************************************************************)
(* p_level is an unsigned char in struct server_user, in the parameter of  *)
(* sql_ch_update_privileges and in the result of sql_ch_load_privileges.   *)
(***************************************************************************)
PrivLevels == 0 .. 255
ToUnsignedChar_untruncated(n) == n   \* mutant
ToUnsignedChar(n) == n % 256

Pairs == Uids \X Uids

(***************************************************************************)
(* The tables.  users: the ids with a row; privilege: a column of users;   *)
(* friends, friend_requests: how many rows hold a pair (both tables have   *)
(* an id column of their own, so a pair may occur twice).  Rows of groups  *)
(* are only ever inserted and never read: a set of pairs is enough.        *)
(***************************************************************************)
Database ==
    [users : SUBSET Uids,
     privilege : [Uids -> PrivLevels],
     friends : [Pairs -> Nat],
     friend_requests : [Pairs -> Nat],
     groups : SUBSET (GroupNames \X Uids)]

EmptyDatabase ==
    [users |-> {},
     privilege |-> [u \in Uids |-> 0],
     friends |-> [p \in Pairs |-> 0],
     friend_requests |-> [p \in Pairs |-> 0],
     groups |-> {}]

Friends(db, u) == {v \in Uids : db.friends[<<u, v>>] > 0}

OnFailure(outcomes) == IF DbFails THEN outcomes ELSE {}

Inserted(table, pair) == [table EXCEPT ![pair] = @ + 1]
Deleted_one_way(table, u, v) == [table EXCEPT ![<<u, v>>] = 0]   \* mutant
Deleted(table, u, v) == [table EXCEPT ![<<u, v>>] = 0, ![<<v, u>>] = 0]

------------------------------------------------------------------------------
(* users *)

\* Only a login that reaches SQLV_SUCCESS matters to the caller: the row
\* exists and the client knows its password.
sql_ch_check_user_auth(db, name, password_ok) ==
    OnFailure({"SQLV_CONNECTION_ERROR"}) \union
    { IF UidOf[name] \notin db.users THEN "SQLV_USER_NOT_FOUND"
      ELSE IF password_ok THEN "SQLV_SUCCESS" ELSE "SQLV_WRONG_PASSWORD" }

sql_ch_add_user(db, name) ==
    OnFailure({[db |-> db, res |-> "SQLV_CONNECTION_ERROR"]}) \union
    { IF UidOf[name] \in db.users
      THEN [db |-> db, res |-> "SQLV_USER_EXISTS"]
      ELSE [db |-> [db EXCEPT !.users = @ \union {UidOf[name]},
                              !.privilege[UidOf[name]] = 0],
            res |-> "SQLV_SUCCESS"] }

\* A failed query leaves priv at 0.
sql_ch_load_privileges(db, uid) ==
    OnFailure({0}) \union {IF uid \in db.users THEN db.privilege[uid] ELSE 0}

sql_ch_update_privileges(db, uid, priv) ==
    OnFailure({db}) \union
    { IF uid \in db.users
      THEN [db EXCEPT !.privilege[uid] = ToUnsignedChar(priv)]
      ELSE db }

sql_ch_user_exists_unchecked(db, uid) == {TRUE}   \* mutant

\* A failed query answers "no".
sql_ch_user_exists(db, uid) == OnFailure({FALSE}) \union {uid \in db.users}

------------------------------------------------------------------------------
(* friends and friend_requests *)

\* A failed query answers "not friends".
sql_ch_are_friends(db, from, to) ==
    OnFailure({FALSE}) \union {db.friends[<<from, to>>] > 0}

\* Rows are streamed (mysql_use_result): an error ends the loop like the last
\* row does, after any part of them.
sql_ch_get_friends(db, uid) ==
    OnFailure(SUBSET Friends(db, uid)) \union {Friends(db, uid)}

\* mutant: the second SELECT is left out
sql_ch_create_friend_request_one_query(db, from, to) ==
    { IF db.friend_requests[<<from, to>>] > 0
      THEN [db |-> db, res |-> "SQLV_ENTRY_EXISTS"]
      ELSE [db |-> [db EXCEPT !.friend_requests = Inserted(@, <<from, to>>)],
            res |-> "SQLV_SUCCESS"] }

\* mutant: the two SELECTs have their arguments exchanged
sql_ch_create_friend_request_swapped(db, from, to) ==
    { IF db.friend_requests[<<to, from>>] > 0
      THEN [db |-> db, res |-> "SQLV_ENTRY_EXISTS"]
      ELSE IF db.friend_requests[<<from, to>>] > 0
      THEN [db |-> db, res |-> "SQLV_OTHER_EXISTS"]
      ELSE [db |-> [db EXCEPT !.friend_requests = Inserted(@, <<from, to>>)],
            res |-> "SQLV_SUCCESS"] }

\* A failed SELECT jumps to END with result still SQLV_SUCCESS, a failed fetch
\* with SQLV_NOPE, a failed connection or INSERT with SQLV_CONNECTION_ERROR;
\* nothing is inserted in any of them.
sql_ch_create_friend_request(db, from, to) ==
    OnFailure({[db |-> db, res |-> r] :
        r \in {"SQLV_SUCCESS", "SQLV_NOPE", "SQLV_CONNECTION_ERROR"}}) \union
    { IF db.friend_requests[<<from, to>>] > 0
      THEN [db |-> db, res |-> "SQLV_ENTRY_EXISTS"]
      ELSE IF db.friend_requests[<<to, from>>] > 0
      THEN [db |-> db, res |-> "SQLV_OTHER_EXISTS"]
      ELSE [db |-> [db EXCEPT !.friend_requests = Inserted(@, <<from, to>>)],
            res |-> "SQLV_SUCCESS"] }

\* mutant: the pending requests are not cleaned up
sql_ch_create_friends_keeps_requests(db, u, v) ==
    LET one  == [db EXCEPT !.friends = Inserted(@, <<u, v>>)]
    IN  {[one EXCEPT !.friends = Inserted(@, <<v, u>>)]}

\* Two INSERTs and a DELETE, each of which may fail and end the call.
sql_ch_create_friends(db, u, v) ==
    LET one  == [db EXCEPT !.friends = Inserted(@, <<u, v>>)]
        both == [one EXCEPT !.friends = Inserted(@, <<v, u>>)]
        done == [both EXCEPT !.friend_requests = Deleted(@, u, v)]
    IN  OnFailure({db, one, both}) \union {done}

\* Either the friendship is deleted or, if there is none, the requests.  A
\* failed SELECT jumps to END with result still SQLV_SUCCESS.
sql_ch_delete_friends(db, u, v) ==
    OnFailure({[db |-> db, res |-> r] :
                   r \in {"SQLV_SUCCESS", "SQLV_CONNECTION_ERROR"}}) \union
    { IF db.friends[<<u, v>>] > 0
      THEN [db |-> [db EXCEPT !.friends = Deleted(@, u, v)],
            res |-> "SQLV_ENTRY_EXISTS"]
      ELSE [db |-> [db EXCEPT !.friend_requests = Deleted(@, u, v)],
            res |-> "SQLV_SUCCESS"] }

------------------------------------------------------------------------------
(* groups *)

sql_ch_create_group(db, name, owner) ==
    OnFailure({db}) \union {[db EXCEPT !.groups = @ \union {<<name, owner>>}]}
==============================================================================
