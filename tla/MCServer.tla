------------------------------ MODULE MCServer ------------------------------
(***************************************************************************)
(* Values of the constants of Server for model checking: a few users with  *)
(* the rows they may find in the database, and the packets they send.      *)
(***************************************************************************)
EXTENDS Server, TLC

CONSTANTS Alice, Bob, Carol   \* ids of rows of users

\* Names compared as strings: one row each (a binary collation).
ExactUidOf == "alice" :> Alice @@ "bob" :> Bob @@ "carol" :> Carol
TwoUidOf == "alice" :> Alice @@ "bob" :> Bob

\* The default collation of MySQL ignores case: two names select one row.
FoldedUidOf == "alice" :> Alice @@ "bob" :> Bob @@ "Bob" :> Bob

\* Alice may kick; everybody is registered; friends is a symmetric relation.
RegisteredDb(friends) ==
    [EmptyDatabase EXCEPT
        !.users = Uids,
        !.privilege = [u \in Uids |-> IF u = Alice THEN KickLevel ELSE 0],
        !.friends = [p \in Pairs |-> IF p \in friends THEN 1 ELSE 0]]

Mutual(u, v) == {<<u, v>>, <<v, u>>}

\* Alice and Bob are friends; Carol, if she exists, is nobody's.
AliceAndBobAreFriends == {RegisteredDb(Mutual(Alice, Bob))}

\* Everybody is Alice's friend.
EverybodyKnowsAlice ==
    {RegisteredDb(UNION {Mutual(Alice, u) : u \in Uids \ {Alice}})}

NobodyRegistered == {EmptyDatabase}
AliceRegistered == {[RegisteredDb({}) EXCEPT !.users = {Alice}]}

\* Privilege levels: one that fits an unsigned char, one above, one below.
SomeLevels == {8, 264, -1}

SessionKinds ==
    {"MSG_REQ_LOGIN", "MSG_LOGOUT", "MSG_DISCONNECT", "MSG_BROADCAST"}
KickKinds == SessionKinds \union {"MSG_CMD_KICK_ID", "unknown"}
FriendKinds ==
    {"MSG_REQ_LOGIN", "MSG_ADD_FRIEND", "MSG_REMOVE_FRIEND"}
RequestKinds ==
    FriendKinds \union {"MSG_REQ_REGISTER", "MSG_FRIENDS", "MSG_WHO",
                        "MSG_WHISPER", "MSG_GRANT_PRIVILEGES", "MSG_GROUP_CREATE"}

\* Sessions and friendships together.
AnyKinds ==
    {"MSG_REQ_REGISTER", "MSG_REQ_LOGIN", "MSG_LOGOUT", "MSG_DISCONNECT",
     "MSG_CMD_KICK_ID", "MSG_BROADCAST", "MSG_ADD_FRIEND", "MSG_REMOVE_FRIEND"}
==============================================================================
