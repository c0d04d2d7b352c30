---------------------------- MODULE MCStatistics ----------------------------
(* Statistics on a small instance: three days, the second half of the third *)
(* is now.  Each situation lets some kinds of request happen, with the      *)
(* tables that these read filled in every way.                              *)
EXTENDS Statistics

CONSTANTS alice, bob, b1, b2, b3

Ends == {2, 3, 6}

Home == (b1 :> alice) @@ (b2 :> alice) @@ (b3 :> bob)

Accounts == (alice :> [created |-> 1, status |-> "active"])
            @@ (bob :> [created |-> 0, status |-> "trial"])

Bucket(owner, files) ==
    [id |-> 0, owner |-> owner,
     contents |-> [files |-> files, folders |-> 0, versions |-> files, bytes |-> files]]

Housed == [b \in Buckets |-> Bucket(Home[b], 1)]

SizeOf(b) == CASE b = b1 -> 1 [] b = b2 -> 2 [] OTHER -> 4

\* Tables of at most n of these rows, in the order of their instants.
Tables(rows, n) ==
    {t \in UNION {[1..k -> rows] : k \in 0..n} :
        \A i, j \in DOMAIN t : i < j => t[i].at <= t[j].at}

\* Buckets are measured any number of times a day.
PastStorage(n) ==
    Tables({[at |-> at, bucket |-> b, user |-> Home[b], size |-> SizeOf(b)] :
               at \in {0, 2, 3, 5}, b \in Buckets}, n)

\* One bucket, which grows, shrinks or is empty.
PastEmptied(n) ==
    Tables([at : {0, 2, 3, 5}, bucket : {b1}, user : {alice}, size : {0, 1, 3}], n)

PastTraffic(n) ==
    Tables({[at |-> at, user |-> alice, type |-> "upload", size |-> 1] : at \in 1..Now}
           \cup {[at |-> at, user |-> alice, type |-> "download", size |-> 2] : at \in 1..Now}
           \cup {[at |-> 4, user |-> bob, type |-> "upload", size |-> 4]}, n)

Recorded(requests, stored, traffic, housed, written, writes) ==
    [requests |-> requests, storage |-> stored, bandwidth |-> traffic, buckets |-> housed,
     users |-> Accounts, tables |-> written, writes |-> writes]

StatisticsSituations ==
    {Recorded({<<"customer", "storage">>}, t, <<>>, Housed, {"storage"}, 1) :
        t \in PastStorage(3)}
    \cup {Recorded({<<"admin", "storage">>}, t, <<>>, Housed, {"storage"}, 1) :
             t \in PastStorage(2)}
    \cup {Recorded({<<"customer", "storage">>}, t, <<>>, Housed, {"storage"}, 1) :
             t \in PastEmptied(3)}
    \cup {Recorded({<<"customer", "bandwidth">>}, <<>>, t, Housed, {}, 0) :
             t \in PastTraffic(3)}
    \cup {Recorded({<<"admin", "bandwidth">>}, <<>>, t, Housed, {"bandwidth"}, 1) :
             t \in PastTraffic(1)}
    \cup {Recorded({<<role, "statistics">>}, <<>>, <<>>, housed,
                    {"buckets", "bandwidth"}, 3) :
             role \in {"customer", "admin"},
             housed \in {Housed, [Housed EXCEPT ![b1] = Bucket(None, 0), ![b2] = Bucket(None, 0)]}}
    \cup {Recorded({<<"customer", "landing">>, <<"admin", "landing">>, <<"admin", "common">>},
                    <<>>, <<>>, Housed, {"buckets", "users"}, 2)}

=============================================================================
