------------------------------- MODULE Router -------------------------------
(***************************************************************************)
(* The request handlers of app/control/router.py, one action per Redis     *)
(* command.  A call is one HTTP request from its arrival to its answer; up *)
(* to Workers calls are handled at the same time: 1 under                  *)
(* app.run() (app/main.py:42, a single-threaded werkzeug server), more on  *)
(* App Engine, where app.yaml:5 says "threadsafe: yes".                    *)
(***************************************************************************)
EXTENDS UserOrder

CONSTANTS
  Calls,     (* handles of the HTTP requests that can be open at once      *)
  Workers,   (* how many requests the server handles concurrently          *)
  MaxStarts, (* bound: how often another server process may start up       *)
  None       (* no name, no payload                                        *)

ASSUME WorkersAssumption == Workers \in Nat \ {0}
ASSUME MaxStartsAssumption == MaxStarts \in Nat
ASSUME NoneAssumption == None \notin Names \cup Payloads

VARIABLES
  pc,    (* per call: where its handler is                                 *)
  req,   (* per call: the decoded request body                             *)
  loc,   (* per call: the handler's local variables, then its reply        *)
  starts (* how many further server processes have started                 *)

server == <<store, pc, req, loc, starts>>

LoginPcs == {"login_index", "login_get", "add_len", "add_user",
             "add_changes", "login_count", "login_keys", "login_position"}
HeartbeatPcs == {"hb_count", "hb_keys", "hb_position", "hb_changes",
                 "hb_own", "hb_fetch"}
PpsPcs == {"pps_check", "pps_zero", "pps_one", "pps_key"}
ChangeIdPcs == {"cid_get", "cid_set", "cid_reget"}
SendPcs == PpsPcs \cup ChangeIdPcs \cup
           {"log_change", "own_compare", "own_read", "own_write"}
HandlerPcs == LoginPcs \cup HeartbeatPcs \cup SendPcs \cup {"deinitialize", "names"}

(* replied: 200 with the result; invalid: 200 with "invalid" (login only); *)
(* failed: the handler raised (500), or its process died.                  *)
Answered == {"replied", "invalid", "failed"}
Labels == {"idle", "queued"} \cup HandlerPcs \cup Answered

Kinds == {"login", "heartbeat", "sendChanges", "deinitializeCall", "sendUserNames"}

(* The route table: where each handler starts.                             *)
Entry == [login |-> "login_index", heartbeat |-> "hb_count",
          sendChanges |-> "pps_check", deinitializeCall |-> "deinitialize",
          sendUserNames |-> "names"]

NoRequest == [kind |-> "none", user |-> None, change |-> None, last |-> -1]
Request == [kind: Kinds, user: Names, change: Payloads \cup {None}, last: Int]
             \cup {NoRequest}

(* n, pos: count and index; ids, got: the change ids still to fetch and    *)
(* the transactions <<id, payload>> fetched; cid: the change id; bare: see *)
(* AppendId; own: the id list read before it is written back.              *)
Locals == [n: Nat, pos: Int, ids: SUBSET Nat, got: SUBSET (Nat \X Payloads),
           cid: Nat, bare: BOOLEAN, own: Seq(Nat)]
NoLocals == [n |-> 0, pos |-> -1, ids |-> {}, got |-> {},
             cid |-> 0, bare |-> FALSE, own |-> << >>]

Busy == {c \in Calls : pc[c] \in HandlerPcs}
Waiting == {c \in Calls : pc[c] = "queued"}

Goto(c, label) == pc' = [pc EXCEPT ![c] = label]

(* A step that only reads Redis.                                           *)
ReadOnly == UNCHANGED <<store, req, starts>>

(***************************************************************************)
(* Accepting a request: a free worker takes a waiting call.                *)
(***************************************************************************)
Accept(c) ==
  /\ pc[c] = "queued"
  /\ Cardinality(Busy) < Workers
  /\ Goto(c, Entry[req[c].kind])
  /\ UNCHANGED <<store, req, loc, starts>>

(***************************************************************************)
(* POST /login: initialize().                                              *)
(***************************************************************************)
(* Slip: the name is not looked up before it is added.                     *)
LoginIndexBlind(c) ==
  /\ pc[c] = "login_index"
  /\ Goto(c, "add_len")
  /\ UNCHANGED loc /\ ReadOnly

(* index() == -1?  HKEYS finds the name or it does not.                    *)
LoginIndex(c) ==
  /\ pc[c] = "login_index"
  /\ Goto(c, IF req[c].user \in DOMAIN users THEN "login_get" ELSE "add_len")
  /\ UNCHANGED loc /\ ReadOnly

(* The name was there: HGET its position, which is not -1.                 *)
LoginTaken(c) ==
  /\ pc[c] = "login_get"
  /\ Goto(c, IF req[c].user \in DOMAIN users THEN "invalid" ELSE "failed")
  /\ UNCHANGED loc /\ ReadOnly

(* Slip: the position is the count less one, -1 for the first user.        *)
AddLenLess(c) ==
  /\ pc[c] = "add_len"
  /\ loc' = [loc EXCEPT ![c].n = Count - 1]
  /\ Goto(c, "add_user") /\ ReadOnly

(* Slip: positions counted from one.                                       *)
AddLenFromOne(c) ==
  /\ pc[c] = "add_len"
  /\ loc' = [loc EXCEPT ![c].n = Count + 1]
  /\ Goto(c, "add_user") /\ ReadOnly

(* UserOrder.add: len(self.users.items()).                                 *)
AddLen(c) ==
  /\ pc[c] = "add_len"
  /\ loc' = [loc EXCEPT ![c].n = Count]
  /\ Goto(c, "add_user") /\ ReadOnly

(* Slip: the list of own changes is not set up.                            *)
AddUserOnly(c) ==
  /\ pc[c] = "add_user"
  /\ users' = HSet(users, req[c].user, loc[c].n)
  /\ Goto(c, "login_count")
  /\ UNCHANGED <<id, changes, userChanges, keys, tags, req, loc, starts>>

(* Slip: a further user takes the position of the last one.                *)
AddUserShared(c) ==
  /\ pc[c] = "add_user"
  /\ users' = HSet(users, req[c].user, IF loc[c].n = 0 THEN 0 ELSE loc[c].n - 1)
  /\ Goto(c, "add_changes")
  /\ UNCHANGED <<id, changes, userChanges, keys, tags, req, loc, starts>>

AddUser(c) ==
  /\ pc[c] = "add_user"
  /\ users' = HSet(users, req[c].user, loc[c].n)
  /\ Goto(c, "add_changes")
  /\ UNCHANGED <<id, changes, userChanges, keys, tags, req, loc, starts>>

AddChanges(c) ==
  /\ pc[c] = "add_changes"
  /\ userChanges' = HSet(userChanges, req[c].user, << >>)
  /\ Goto(c, "login_count")
  /\ UNCHANGED <<users, id, changes, keys, tags, req, loc, starts>>

(* The reply: count() ...                                                  *)
LoginCount(c) ==
  /\ pc[c] = "login_count"
  /\ loc' = [loc EXCEPT ![c].n = Count]
  /\ Goto(c, "login_keys") /\ ReadOnly

(* ... and index(), -1 when the name is gone.                              *)
LoginKeys(c) ==
  /\ pc[c] = "login_keys"
  /\ Goto(c, IF req[c].user \in DOMAIN users THEN "login_position" ELSE "replied")
  /\ UNCHANGED loc /\ ReadOnly

(* HGET of a position that HKEYS has just shown; KeyError when it is gone. *)
Position(c, next) ==
  \/ /\ req[c].user \in DOMAIN users
     /\ loc' = [loc EXCEPT ![c].pos = users[req[c].user]]
     /\ Goto(c, next)
  \/ /\ req[c].user \notin DOMAIN users
     /\ Goto(c, "failed")
     /\ UNCHANGED loc

LoginPosition(c) ==
  /\ pc[c] = "login_position"
  /\ Position(c, "replied") /\ ReadOnly

(***************************************************************************)
(* POST /heartbeat: heartbeat().                                           *)
(***************************************************************************)
HeartbeatCount(c) ==
  /\ pc[c] = "hb_count"
  /\ loc' = [loc EXCEPT ![c].n = Count]
  /\ Goto(c, "hb_keys") /\ ReadOnly

HeartbeatKeys(c) ==
  /\ pc[c] = "hb_keys"
  /\ Goto(c, IF req[c].user \in DOMAIN users THEN "hb_position" ELSE "hb_changes")
  /\ UNCHANGED loc /\ ReadOnly

HeartbeatPosition(c) ==
  /\ pc[c] = "hb_position"
  /\ Position(c, "hb_changes") /\ ReadOnly

(* Slip: the last id received is asked for again.                          *)
HeartbeatChangesAgain(c) ==
  /\ pc[c] = "hb_changes"
  /\ loc' = [loc EXCEPT ![c].ids = {i \in DOMAIN changes : i >= req[c].last}]
  /\ Goto(c, "hb_own") /\ ReadOnly

(* Slip: the id after the last one received is left out.                   *)
HeartbeatChangesSkip(c) ==
  /\ pc[c] = "hb_changes"
  /\ loc' = [loc EXCEPT ![c].ids = {i \in DOMAIN changes : i > req[c].last + 1}]
  /\ Goto(c, "hb_own") /\ ReadOnly

(* The ids after the last one the browser has received.                    *)
HeartbeatChanges(c) ==
  /\ pc[c] = "hb_changes"
  /\ loc' = [loc EXCEPT ![c].ids = {i \in DOMAIN changes : i > req[c].last}]
  /\ Goto(c, "hb_own") /\ ReadOnly

(* Slip: the user's own changes are not taken out.                         *)
HeartbeatOwnKept(c) ==
  /\ pc[c] = "hb_own"
  /\ Goto(c, IF loc[c].ids = {} THEN "replied" ELSE "hb_fetch")
  /\ UNCHANGED loc /\ ReadOnly

(* Without the user's own; KeyError when the user has no entry.            *)
HeartbeatOwn(c) ==
  /\ pc[c] = "hb_own"
  /\ \/ /\ req[c].user \in DOMAIN userChanges
        /\ LET foreign == loc[c].ids \ OwnIds(req[c].user)
           IN  /\ loc' = [loc EXCEPT ![c].ids = foreign]
               /\ Goto(c, IF foreign = {} THEN "replied" ELSE "hb_fetch")
     \/ /\ req[c].user \notin DOMAIN userChanges
        /\ Goto(c, "failed")
        /\ UNCHANGED loc
  /\ ReadOnly

(* Slip: the loop returns after its first round.                           *)
HeartbeatFetchOne(c) ==
  /\ pc[c] = "hb_fetch"
  /\ \E i \in loc[c].ids \cap DOMAIN changes :
       loc' = [loc EXCEPT ![c].got = {<<i, changes[i]>>}]
  /\ Goto(c, "replied") /\ ReadOnly

(* One HGET per id, in the order a Python set is iterated in.              *)
HeartbeatFetch(c) ==
  /\ pc[c] = "hb_fetch"
  /\ \E i \in loc[c].ids :
       \/ /\ i \in DOMAIN changes
          /\ loc' = [loc EXCEPT ![c].ids = @ \ {i},
                                ![c].got = @ \cup {<<i, changes[i]>>}]
          /\ Goto(c, IF loc[c].ids = {i} THEN "replied" ELSE "hb_fetch")
       \/ /\ i \notin DOMAIN changes
          /\ Goto(c, "failed")
          /\ UNCHANGED loc
  /\ ReadOnly

(***************************************************************************)
(* POST /sendChanges: insertText().  The keys of the pending changes are   *)
(* position tags, never the words 'insert' or 'delete' that lines 91-95    *)
(* look for, so the loop over them does nothing.                           *)
(***************************************************************************)
(* PPS(): is the document's key in KEYS already?                           *)
PpsCheck(c) ==
  /\ pc[c] = "pps_check"
  /\ Goto(c, IF keys = 0 THEN "pps_zero" ELSE "cid_get")
  /\ UNCHANGED loc /\ ReadOnly

(* Four HSETs of constants no handler here reads, then the first RPUSH.    *)
PpsZero(c) ==
  /\ pc[c] = "pps_zero"
  /\ tags' = Append(tags, "0")
  /\ Goto(c, "pps_one")
  /\ UNCHANGED <<users, id, changes, userChanges, keys, req, loc, starts>>

(* Slip: the document's key never gets into KEYS.                          *)
PpsOneUnlisted(c) ==
  /\ pc[c] = "pps_one"
  /\ tags' = Append(tags, "1")
  /\ Goto(c, "cid_get")
  /\ UNCHANGED <<users, id, changes, userChanges, keys, req, loc, starts>>

PpsOne(c) ==
  /\ pc[c] = "pps_one"
  /\ tags' = Append(tags, "1")
  /\ Goto(c, "pps_key")
  /\ UNCHANGED <<users, id, changes, userChanges, keys, req, loc, starts>>

PpsKey(c) ==
  /\ pc[c] = "pps_key"
  /\ keys' = keys + 1
  /\ Goto(c, "cid_get")
  /\ UNCHANGED <<users, id, changes, userChanges, tags, req, loc, starts>>

(* get_change_id: read, write back plus one, read again.                   *)
ChangeIdGet(c) ==
  /\ pc[c] = "cid_get"
  /\ loc' = [loc EXCEPT ![c].cid = id]
  /\ Goto(c, "cid_set") /\ ReadOnly

(* Slip: the id is written back as it was read.                            *)
ChangeIdSetSame(c) ==
  /\ pc[c] = "cid_set"
  /\ id' = loc[c].cid
  /\ Goto(c, "cid_reget")
  /\ UNCHANGED <<users, changes, userChanges, keys, tags, req, loc, starts>>

ChangeIdSet(c) ==
  /\ pc[c] = "cid_set"
  /\ id' = loc[c].cid + 1
  /\ Goto(c, "cid_reget")
  /\ UNCHANGED <<users, changes, userChanges, keys, tags, req, loc, starts>>

ChangeIdReget(c) ==
  /\ pc[c] = "cid_reget"
  /\ loc' = [loc EXCEPT ![c].cid = id]
  /\ Goto(c, "log_change") /\ ReadOnly

LogChange(c) ==
  /\ pc[c] = "log_change"
  /\ changes' = HSet(changes, loc[c].cid, req[c].change)
  /\ Goto(c, "own_compare")
  /\ UNCHANGED <<users, id, userChanges, keys, tags, req, loc, starts>>

(* Slip: no separator before an id that is not the first.                  *)
OwnCompareBare(c) ==
  /\ pc[c] = "own_compare"
  /\ loc' = [loc EXCEPT ![c].bare = TRUE]
  /\ Goto(c, "own_read") /\ ReadOnly

(* users.user_changes[u] == '': the first of two reads of the same field.  *)
OwnCompare(c) ==
  /\ pc[c] = "own_compare"
  /\ \/ /\ req[c].user \in DOMAIN userChanges
        /\ loc' = [loc EXCEPT ![c].bare = (userChanges[req[c].user] = << >>)]
        /\ Goto(c, "own_read")
     \/ /\ req[c].user \notin DOMAIN userChanges
        /\ Goto(c, "failed")
        /\ UNCHANGED loc
  /\ ReadOnly

(* The read half of `+='.                                                  *)
OwnRead(c) ==
  /\ pc[c] = "own_read"
  /\ \/ /\ req[c].user \in DOMAIN userChanges
        /\ loc' = [loc EXCEPT ![c].own = userChanges[req[c].user]]
        /\ Goto(c, "own_write")
     \/ /\ req[c].user \notin DOMAIN userChanges
        /\ Goto(c, "failed")
        /\ UNCHANGED loc
  /\ ReadOnly

(* Slip: the new id replaces the list.                                     *)
OwnWriteFresh(c) ==
  /\ pc[c] = "own_write"
  /\ userChanges' = HSet(userChanges, req[c].user, <<loc[c].cid>>)
  /\ Goto(c, "replied")
  /\ UNCHANGED <<users, id, changes, keys, tags, req, loc, starts>>

OwnWrite(c) ==
  /\ pc[c] = "own_write"
  /\ userChanges' = HSet(userChanges, req[c].user,
                         AppendId(loc[c].own, loc[c].cid, loc[c].bare))
  /\ Goto(c, "replied")
  /\ UNCHANGED <<users, id, changes, keys, tags, req, loc, starts>>

(***************************************************************************)
(* POST /deinitializeCall: hot_redis.Dict has no pop(), so evaluating      *)
(* self.users.pop raises AttributeError before any command is sent; the    *)
(* bare except answers 'deinitialized successfully' all the same.          *)
(***************************************************************************)
Deinitialize(c) ==
  /\ pc[c] = "deinitialize"
  /\ Goto(c, "replied")
  /\ UNCHANGED loc /\ ReadOnly

(* POST /sendUserNames: HKEYS, shown in the page and used for nothing.     *)
SendUserNames(c) ==
  /\ pc[c] = "names"
  /\ Goto(c, "replied")
  /\ UNCHANGED loc /\ ReadOnly

(***************************************************************************)
(* Importing app/main.py empties the database (line 20).  It happens       *)
(* whenever a server process starts: the calls of another process go on,   *)
(* those of a process that died are lost.                                  *)
(***************************************************************************)
Startup ==
  /\ starts < MaxStarts
  /\ starts' = starts + 1
  /\ FlushAll
  /\ \E lost \in SUBSET (Busy \cup Waiting) :
       pc' = [c \in Calls |-> IF c \in lost THEN "failed" ELSE pc[c]]
  /\ UNCHANGED <<req, loc>>

LoginStep(c) ==
  \/ LoginIndex(c) \/ LoginTaken(c) \/ AddLen(c) \/ AddUser(c) \/ AddChanges(c)
  \/ LoginCount(c) \/ LoginKeys(c) \/ LoginPosition(c)

HeartbeatStep(c) ==
  \/ HeartbeatCount(c) \/ HeartbeatKeys(c) \/ HeartbeatPosition(c)
  \/ HeartbeatChanges(c) \/ HeartbeatOwn(c) \/ HeartbeatFetch(c)

PpsStep(c) == PpsCheck(c) \/ PpsZero(c) \/ PpsOne(c) \/ PpsKey(c)

SendStep(c) ==
  \/ PpsStep(c)
  \/ ChangeIdGet(c) \/ ChangeIdSet(c) \/ ChangeIdReget(c) \/ LogChange(c)
  \/ OwnCompare(c) \/ OwnRead(c) \/ OwnWrite(c)

(* The next command of a call's handler.                                   *)
HandlerStep(c) ==
  LoginStep(c) \/ HeartbeatStep(c) \/ SendStep(c) \/ Deinitialize(c) \/ SendUserNames(c)

ServerInit ==
  /\ StoreEmpty
  /\ pc = [c \in Calls |-> "idle"]
  /\ req = [c \in Calls |-> NoRequest]
  /\ loc = [c \in Calls |-> NoLocals]
  /\ starts = 0
=============================================================================
