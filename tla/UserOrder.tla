------------------------------ MODULE UserOrder ------------------------------
(***************************************************************************)
(* The Redis state behind app/model/user_order.py and the PPS() constructor*)
(* of app/model/pps.py, with the reads and writes the request handlers make*)
(* on it.  Every hot_redis operation is one Redis command, applied at once *)
(* and on its own: the objects are built with client=client, and           *)
(* hot_redis.transaction() only swaps the thread's *default* client, which *)
(* `self.client or default_client()' (lib/hot_redis/types.py:111) never    *)
(* consults here.  A "with hot_redis.transaction()" block is therefore a   *)
(* plain sequence of commands.                                             *)
(***************************************************************************)
EXTENDS Integers, Sequences, FiniteSets

CONSTANTS
  Names,     (* guest names, already lower-cased                           *)
  Payloads   (* the bodies of /sendChanges: one batch of tag -> char each  *)

VARIABLES
  users,       (* hash: name -> position in the order of registration      *)
  id,          (* integer: the last change id handed out                   *)
  changes,     (* hash: change id -> payload                               *)
  userChanges, (* hash: name -> the ids of the name's own changes          *)
  keys,        (* how often the document's key is in the list KEYS         *)
  tags         (* list: the position tags of the server's document         *)

store == <<users, id, changes, userChanges, keys, tags>>

(* HSET: set one field of a hash, creating it when it is missing.          *)
HSet(h, k, v) == [f \in DOMAIN h \cup {k} |-> IF f = k THEN v ELSE h[f]]

(* UserOrder.count: HLEN of the users hash.                                *)
Count == Cardinality(DOMAIN users)

(* What str(a) + str(b) reads back as, for ids below 1000.                 *)
Glue(a, b) == IF b < 10 THEN 10 * a + b
              ELSE IF b < 100 THEN 100 * a + b
              ELSE 1000 * a + b

(* The string of ids is kept as the sequence split(',') yields, empty      *)
(* pieces dropped.  `+= str(i)' (bare) on a non-empty string runs into its *)
(* last id; `+= "," + str(i)' starts a new one.                            *)
AppendId(own, i, bare) ==
  IF bare /\ own # << >>
  THEN [own EXCEPT ![Len(own)] = Glue(own[Len(own)], i)]
  ELSE Append(own, i)

(* The ids heartbeat() takes for a user's own.                             *)
OwnIds(name) == {userChanges[name][k] : k \in DOMAIN userChanges[name]}

(* An empty database: before the first request, and after flushall().      *)
EmptyHash == [f \in {} |-> 0]

StoreEmpty ==
  /\ users = EmptyHash
  /\ id = 0
  /\ changes = EmptyHash
  /\ userChanges = EmptyHash
  /\ keys = 0
  /\ tags = << >>

FlushAll ==
  /\ users' = EmptyHash
  /\ id' = 0
  /\ changes' = EmptyHash
  /\ userChanges' = EmptyHash
  /\ keys' = 0
  /\ tags' = << >>

StoreTypeOK ==
  /\ users \in [DOMAIN users -> Nat] /\ DOMAIN users \subseteq Names
  /\ id \in Nat
  /\ changes \in [DOMAIN changes -> Payloads] /\ DOMAIN changes \subseteq Nat
  /\ userChanges \in [DOMAIN userChanges -> Seq(Nat)]
  /\ DOMAIN userChanges \subseteq Names
  /\ keys \in Nat
  /\ tags \in Seq({"0", "1"})
=============================================================================
