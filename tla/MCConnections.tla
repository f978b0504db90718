--------------------------- MODULE MCConnections ---------------------------
EXTENDS Connections
CONSTANTS m1, s1, x, y
MCMasters == <<m1>>
MCGiven == {<<"select_db", y>>, <<"set_charset", y>>, <<"change_user", x>>,
            <<"set_server_option", y>>, <<"ssl_set", y>>}
\* The sections of the servers: m1 names a db, s1 a user.
MCSection == (m1 :> [user |-> None, db |-> y]) @@ (s1 :> [user |-> y, db |-> None])
MCSlaves == <<s1>>
MCFabricAnswers == {<<>>, <<[host |-> m1, rw |-> TRUE], [host |-> s1, rw |-> FALSE]>>}
=============================================================================
