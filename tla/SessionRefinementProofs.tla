----------------------- MODULE SessionRefinementProofs -----------------------
(***************************************************************************)
(* Under one worker the requests behave like atomic operations on the log  *)
(* of module SharedLog.  What a handler has read is still true when it     *)
(* answers (Steady); the step that answers is the operation, every other   *)
(* step changes nothing that module sees.                                  *)
(***************************************************************************)
EXTENDS SessionDelivery, SessionRefinement

-----------------------------------------------------------------------------
(***************************************************************************)
(* The inductive invariant.                                                *)
(***************************************************************************)
(* What a login has written and read.                                      *)
LoginSteady(c) ==
  /\ Registering(c) => users[req[c].user] = Count - 1
  /\ pc[c] \in {"login_count", "login_keys", "login_position"}
       => userChanges[req[c].user] = <<>>
  /\ pc[c] \in {"login_keys", "login_position"} => loc[c].n = Count

(* The changes a heartbeat is to bring, and those it has fetched of them.  *)
After(c) == {i \in DOMAIN changes : i > req[c].last}
Fresh(c) == After(c) \ OwnIds(req[c].user)
Fetched(c) == {<<i, changes[i]>> : i \in Fresh(c) \ loc[c].ids}

HeartbeatSteady(c) ==
  /\ pc[c] \in HeartbeatPcs \ {"hb_count"} => loc[c].n = Count
  /\ pc[c] \in {"hb_changes", "hb_own", "hb_fetch"} => loc[c].pos = users[req[c].user]
  /\ pc[c] = "hb_own" => loc[c].ids = After(c)
  /\ pc[c] = "hb_fetch" => loc[c].ids \subseteq Fresh(c) /\ loc[c].got = Fetched(c)
  /\ pc[c] \notin {"hb_fetch", "replied"} => loc[c].got = {}
  /\ req[c].kind = "heartbeat" => req[c].last \in {-1} \cup DOMAIN changes

(* Ids are handed out without a gap; the last one may not be logged yet.   *)
Numbering(c) == pc[c] \in {"cid_reget", "log_change"}
Numbered ==
  /\ (\E c \in Calls : Numbering(c)) => id > 0 /\ DOMAIN changes = 1..id - 1
  /\ ~ (\E c \in Calls : Numbering(c)) => DOMAIN changes = 1..id
  /\ \A c \in Calls : Recording(c) => loc[c].cid = id

(* Every registered name has a list of own changes, or gets it next.       *)
Listed(n) ==
  n \in DOMAIN userChanges \/ \E c \in Calls : pc[c] = "add_changes" /\ req[c].user = n

Steady ==
  /\ \A n \in DOMAIN users : Listed(n)
  /\ Numbered
  /\ \A c \in Calls : LoginSteady(c) /\ HeartbeatSteady(c)

-----------------------------------------------------------------------------
(***************************************************************************)
(* Every step keeps it.                                                    *)
(***************************************************************************)
(* A call that no handler works on.                                        *)
LEMMA UnhandledSteady ==
  ASSUME Steady, NEW d \in Calls, ~ Handled(d), ~ Handled(d)', Untouched(d), StoreGrows
  PROVE  LoginSteady(d)' /\ HeartbeatSteady(d)'
<1>1. LoginSteady(d) /\ HeartbeatSteady(d)
  BY DEF Steady
<1>2. pc[d] \notin LoginPcs \cup HeartbeatPcs
  BY DEF Handled, HandlerPcs
<1>3. ~ Registering(d)'
  BY <1>2 DEF Untouched, Registering, LoginPcs
<1>4. LoginSteady(d)'
  BY <1>2, <1>3 DEF Untouched, LoginSteady, LoginPcs
<1>5. HeartbeatSteady(d)'
  BY <1>1, <1>2 DEF Untouched, StoreGrows, HeartbeatSteady, HeartbeatPcs
<1> QED
  BY <1>4, <1>5

(* Timers, callbacks and the acceptance of requests.                       *)
LEMMA OutsideSteady ==
  ASSUME Base, Steady, OutsideStep,
         \A d \in Calls : Untouched(d) \/ loc'[d].got = {},
         \A d \in Calls : req'[d].kind = "heartbeat" => req'[d].last \in {-1} \cup DOMAIN changes
  PROVE  Steady'
<1>1. UNCHANGED <<users, id, changes, userChanges>> /\ UNCHANGED Count
  BY DEF OutsideStep, store, Count
<1>2. \A d \in Calls : \/ Untouched(d)
                       \/ pc'[d] \in Beginnings /\ pc[d] \notin HandlerPcs
  BY DEF OutsideStep, Handled
<1>3. \A d \in Calls : /\ Numbering(d)' <=> Numbering(d)
                       /\ Recording(d)' => Recording(d) /\ loc'[d].cid = loc[d].cid
                       /\ pc'[d] = "add_changes" <=> pc[d] = "add_changes"
                       /\ pc[d] = "add_changes" => req'[d] = req[d]
  BY <1>2 DEF Untouched, Beginnings, Numbering, Recording, HandlerPcs, SendPcs,
              ChangeIdPcs, LoginPcs
<1>4. Numbered'
  BY <1>1, <1>3 DEF Steady, Numbered
<1>5. \A n \in DOMAIN users : Listed(n)'
  BY <1>1, <1>3 DEF Steady, Listed
<1>6. ASSUME NEW d \in Calls PROVE LoginSteady(d)' /\ HeartbeatSteady(d)'
  <2>1. CASE Untouched(d)
    <3>1. LoginSteady(d) /\ HeartbeatSteady(d)
      BY DEF Steady
    <3>2. LoginSteady(d)'
      BY <1>1, <2>1, <3>1 DEF Untouched, LoginSteady, Registering
    <3>3. HeartbeatSteady(d)'
      BY <1>1, <2>1, <3>1
      DEF Untouched, HeartbeatSteady, After, Fresh, Fetched, OwnIds
    <3> QED
      BY <3>2, <3>3
  <2>2. CASE ~ Untouched(d)
    <3>1. pc'[d] \in Beginnings /\ loc'[d].got = {}
      BY <1>2, <2>2
    <3> QED
      BY <1>1, <3>1 DEF Beginnings, LoginSteady, Registering, HeartbeatSteady, HeartbeatPcs
  <2> QED
    BY <2>1, <2>2
<1> QED
  BY <1>1, <1>4, <1>5, <1>6 DEF Steady

(* A login, command by command.                                            *)
LEMMA LoginKeepsSteady ==
  ASSUME Base, Base', Serial, Registry, Dense, Steady, NEW c \in Calls, LoginStep(c)
  PROVE  Steady'
<1>1. /\ pc \in [Calls -> Labels] /\ loc \in [Calls -> Locals]
      /\ req' = req /\ StoreGrows /\ HandlerStep(c) /\ LoginSteady(c) /\ HeartbeatSteady(c)
      /\ \A d \in Calls \ {c} : pc'[d] = pc[d] /\ loc'[d] = loc[d]
  BY HandlerFrame DEF HandlerStep, Base, Types, TypeOK, Steady
<1>2. \A d \in Calls \ {c} : pc[d] \notin HandlerPcs /\ pc'[d] \notin HandlerPcs
  BY <1>1, OthersIdle DEF Base, Handled
<1>3. \A d \in Calls \ {c} : LoginSteady(d)' /\ HeartbeatSteady(d)'
  BY <1>1, <1>2, UnhandledSteady DEF Handled, Untouched
<1>4. /\ pc[c] \in LoginPcs /\ pc'[c] \in LoginPcs \cup {"invalid", "replied", "failed"}
      /\ UNCHANGED <<id, changes>> /\ loc'[c].got = loc[c].got
  BY <1>1
  DEF LoginStep, LoginIndex, LoginTaken, AddLen, AddUser, AddChanges, LoginCount,
      LoginKeys, LoginPosition, Position, Goto, ReadOnly, store, LoginPcs, Locals
<1>5. Numbered'
  <2>1. \A d \in Calls : ~ Numbering(d) /\ ~ Numbering(d)' /\ ~ Recording(d)'
    BY <1>2, <1>4 DEF Numbering, Recording, HandlerPcs, SendPcs, ChangeIdPcs, LoginPcs
  <2> QED
    BY <1>4, <2>1 DEF Steady, Numbered
<1>6. HeartbeatSteady(c)'
  <2>1. loc'[c].got = {} /\ req'[c].kind = "login"
    BY <1>1, <1>4, HandlerOf DEF HeartbeatSteady, LoginPcs
  <2> QED
    BY <1>4, <2>1 DEF HeartbeatSteady, HeartbeatPcs, LoginPcs
<1>7. Registered(req[c].user)
        \/ pc[c] \in {"login_index", "login_get", "add_len", "add_user", "add_changes"}
  BY <1>4 DEF Base, Served, CallServed, LoginPcs
<1>8. LoginSteady(c)' /\ \A n \in DOMAIN users' : Listed(n)'
  <2>1. CASE AddUser(c)
    <3> DEFINE n == req[c].user
    <3>1. n \notin DOMAIN users /\ loc[c].n = Count /\ users' = HSet(users, n, Count)
      BY <1>1, <2>1 DEF AddUser, Registry, Vacant, Dense
    <3>2. /\ DOMAIN users' = DOMAIN users \cup {n} /\ users'[n] = Count
          /\ Count \in Nat /\ Count' = Count + 1
      BY <3>1, NewUser DEF Base
    <3>3. pc[c] = "add_user" /\ pc'[c] = "add_changes" /\ userChanges' = userChanges
      BY <1>1, <2>1 DEF AddUser, Goto
    <3>4. LoginSteady(c)'
      BY <1>1, <3>2, <3>3 DEF LoginSteady
    <3>5. \A m \in DOMAIN users : m \in DOMAIN userChanges
      BY <1>2, <3>3 DEF Steady, Listed, HandlerPcs, LoginPcs
    <3> QED
      BY <1>1, <3>2, <3>3, <3>4, <3>5 DEF Listed
  <2>2. CASE AddChanges(c)
    <3>1. /\ pc[c] = "add_changes" /\ pc'[c] = "login_count" /\ UNCHANGED <<users, Count>>
          /\ userChanges' = HSet(userChanges, req[c].user, <<>>)
      BY <1>1, <2>2 DEF AddChanges, Goto, Count
    <3>2. LoginSteady(c)'
      BY <1>1, <3>1 DEF LoginSteady, Registering, HSet
    <3>3. \A m \in DOMAIN users : m \in DOMAIN userChanges \/ m = req[c].user
      BY <1>2, <3>1 DEF Steady, Listed, HandlerPcs, LoginPcs
    <3> QED
      BY <3>1, <3>2, <3>3 DEF Listed, HSet
  <2>3. CASE ~ AddUser(c) /\ ~ AddChanges(c)
    <3>1. /\ UNCHANGED <<users, userChanges, Count>> /\ pc[c] # "add_changes"
          /\ pc'[c] \notin {"add_user", "add_changes"} \/ pc[c] = "add_len"
      BY <1>1, <2>3
      DEF LoginStep, LoginIndex, LoginTaken, AddLen, LoginCount, LoginKeys,
          LoginPosition, Position, Goto, ReadOnly, store, Count
    <3>2. \A n \in DOMAIN users' : Listed(n)'
      <4>1. \A n \in DOMAIN users : n \in DOMAIN userChanges
        BY <1>2, <3>1 DEF Steady, Listed, HandlerPcs, LoginPcs
      <4> QED
        BY <3>1, <4>1 DEF Listed
    <3>3. CASE LoginIndex(c) \/ LoginTaken(c) \/ AddLen(c) \/ LoginPosition(c)
      <4>1. pc'[c] \in {"login_get", "add_len", "add_user", "invalid", "failed", "replied"}
        BY <1>1, <3>3 DEF LoginIndex, LoginTaken, AddLen, LoginPosition, Position, Goto
      <4> QED
        BY <3>2, <4>1 DEF LoginSteady, Registering
    <3>4. CASE LoginCount(c)
      <4>1. pc[c] = "login_count" /\ pc'[c] = "login_keys" /\ loc'[c].n = Count
        BY <1>1, <3>4 DEF LoginCount, Goto, Locals
      <4> QED
        BY <1>1, <3>1, <3>2, <4>1 DEF LoginSteady, Registering
    <3>5. CASE LoginKeys(c)
      <4>1. /\ pc[c] = "login_keys" /\ pc'[c] \in {"login_position", "replied"}
            /\ loc'[c] = loc[c]
        BY <1>1, <3>5 DEF LoginKeys, Goto
      <4> QED
        BY <1>1, <3>1, <3>2, <4>1 DEF LoginSteady, Registering
    <3> QED
      BY <2>3, <3>3, <3>4, <3>5 DEF LoginStep
  <2> QED
    BY <2>1, <2>2, <2>3
<1> QED
  BY <1>3, <1>5, <1>6, <1>8 DEF Steady

(* The last two rounds of a heartbeat: the answer is what was fresh.       *)
LEMMA HeartbeatBrings ==
  ASSUME Base, Base', Steady, NEW c \in Calls, HeartbeatOwn(c) \/ HeartbeatFetch(c)
  PROVE  /\ pc'[c] \in {"replied", "hb_fetch"}
         /\ pc'[c] = "replied" => loc'[c].ids = {}
         /\ loc'[c].ids \subseteq Fresh(c)
         /\ loc'[c].got = {<<i, changes[i]>> : i \in Fresh(c) \ loc'[c].ids}
         /\ loc'[c].n = loc[c].n /\ loc'[c].pos = loc[c].pos
<1>1. /\ pc \in [Calls -> Labels] /\ loc \in [Calls -> Locals]
      /\ HeartbeatSteady(c) /\ Registered(req[c].user) /\ pc'[c] # "failed"
  BY HandlerOf DEF HeartbeatStep, Base, Types, TypeOK, Steady, Served, CallServed
<1>2. CASE HeartbeatOwn(c)
  <2>1. /\ pc[c] = "hb_own"
        /\ loc' = [loc EXCEPT ![c].ids = loc[c].ids \ OwnIds(req[c].user)]
        /\ pc'[c] = IF loc[c].ids \ OwnIds(req[c].user) = {} THEN "replied" ELSE "hb_fetch"
    BY <1>1, <1>2 DEF HeartbeatOwn, Goto, Registered
  <2>2. /\ loc'[c].ids = loc[c].ids \ OwnIds(req[c].user) /\ loc'[c].got = loc[c].got
        /\ loc'[c].n = loc[c].n /\ loc'[c].pos = loc[c].pos
    BY <1>1, <2>1 DEF Locals
  <2>3. loc'[c].ids = Fresh(c) /\ loc'[c].got = {}
    BY <1>1, <2>1, <2>2 DEF HeartbeatSteady, Fresh
  <2> QED
    BY <2>1, <2>2, <2>3
<1>3. CASE HeartbeatFetch(c)
  <2>1. /\ pc[c] = "hb_fetch" /\ loc[c].ids \subseteq Fresh(c) /\ loc[c].got = Fetched(c)
        /\ Fresh(c) \subseteq DOMAIN changes
    BY <1>1, <1>3 DEF HeartbeatFetch, HeartbeatSteady, Fresh, After
  <2>2. PICK i \in loc[c].ids :
          /\ loc' = [loc EXCEPT ![c].ids = @ \ {i}, ![c].got = @ \cup {<<i, changes[i]>>}]
          /\ pc' = [pc EXCEPT ![c] = IF loc[c].ids = {i} THEN "replied" ELSE "hb_fetch"]
    BY <1>3, <2>1 DEF HeartbeatFetch, Goto
  <2>3. /\ loc'[c].ids = loc[c].ids \ {i}
        /\ loc'[c].got = loc[c].got \cup {<<i, changes[i]>>}
        /\ loc'[c].n = loc[c].n /\ loc'[c].pos = loc[c].pos
        /\ pc'[c] = IF loc[c].ids = {i} THEN "replied" ELSE "hb_fetch"
    BY <1>1, <2>2 DEF Locals
  <2>4. Fresh(c) \ loc'[c].ids = (Fresh(c) \ loc[c].ids) \cup {i}
    BY <2>1, <2>3
  <2>5. loc'[c].got = {<<j, changes[j]>> : j \in Fresh(c) \ loc'[c].ids}
    BY <2>1, <2>3, <2>4 DEF Fetched
  <2> QED
    BY <2>1, <2>3, <2>5
<1> QED
  BY <1>2, <1>3

(* A heartbeat, command by command.                                        *)
LEMMA HeartbeatKeepsSteady ==
  ASSUME Base, Base', Serial, Steady, NEW c \in Calls, HeartbeatStep(c)
  PROVE  Steady'
<1>1. /\ pc \in [Calls -> Labels] /\ loc \in [Calls -> Locals]
      /\ req' = req /\ StoreGrows /\ HandlerStep(c) /\ HeartbeatSteady(c)
      /\ req[c].kind = "heartbeat" /\ Registered(req[c].user) /\ pc'[c] # "failed"
      /\ \A d \in Calls \ {c} : pc'[d] = pc[d] /\ loc'[d] = loc[d]
  BY HandlerFrame, HandlerOf
  DEF HandlerStep, Base, Types, TypeOK, Steady, Served, CallServed
<1>2. \A d \in Calls \ {c} : pc[d] \notin HandlerPcs /\ pc'[d] \notin HandlerPcs
  BY <1>1, OthersIdle DEF Base, Handled
<1>3. \A d \in Calls \ {c} : LoginSteady(d)' /\ HeartbeatSteady(d)'
  BY <1>1, <1>2, UnhandledSteady DEF Handled, Untouched
<1>4. /\ pc[c] \in HeartbeatPcs /\ pc'[c] \in HeartbeatPcs \cup {"replied"}
      /\ UNCHANGED <<users, id, changes, userChanges>> /\ UNCHANGED Count
  BY <1>1
  DEF HeartbeatStep, HeartbeatCount, HeartbeatKeys, HeartbeatPosition, Position,
      HeartbeatChanges, HeartbeatOwn, HeartbeatFetch, Goto, ReadOnly, store,
      HeartbeatPcs, Count
<1>5. Numbered'
  <2>1. \A d \in Calls : ~ Numbering(d) /\ ~ Numbering(d)' /\ ~ Recording(d)'
    BY <1>2, <1>4 DEF Numbering, Recording, HandlerPcs, SendPcs, ChangeIdPcs, HeartbeatPcs
  <2> QED
    BY <1>4, <2>1 DEF Steady, Numbered
<1>6. LoginSteady(c)'
  BY <1>4 DEF LoginSteady, Registering, HeartbeatPcs
<1>7. \A n \in DOMAIN users' : Listed(n)'
  <2>1. \A n \in DOMAIN users : n \in DOMAIN userChanges
    BY <1>2, <1>4 DEF Steady, Listed, HandlerPcs, LoginPcs, HeartbeatPcs
  <2> QED
    BY <1>4, <2>1 DEF Listed
<1>8. HeartbeatSteady(c)'
  <2>1. CASE HeartbeatCount(c)
    <3>1. pc[c] = "hb_count" /\ pc'[c] = "hb_keys"
          /\ loc'[c].n = Count /\ loc'[c].got = loc[c].got
      BY <1>1, <2>1 DEF HeartbeatCount, Goto, Locals
    <3> QED
      BY <1>1, <1>4, <3>1 DEF HeartbeatSteady
  <2>2. CASE HeartbeatKeys(c)
    <3>1. pc[c] = "hb_keys" /\ pc'[c] = "hb_position" /\ loc'[c] = loc[c]
      BY <1>1, <2>2 DEF HeartbeatKeys, Goto, Registered
    <3> QED
      BY <1>1, <1>4, <3>1 DEF HeartbeatSteady, HeartbeatPcs
  <2>3. CASE HeartbeatPosition(c)
    <3>1. /\ pc[c] = "hb_position" /\ pc'[c] = "hb_changes"
          /\ loc' = [loc EXCEPT ![c].pos = users[req[c].user]]
      BY <1>1, <2>3 DEF HeartbeatPosition, Position, Goto, Registered
    <3>2. /\ loc'[c].pos = users[req[c].user]
          /\ loc'[c].n = loc[c].n /\ loc'[c].got = loc[c].got
      BY <1>1, <3>1 DEF Locals
    <3> QED
      BY <1>1, <1>4, <3>1, <3>2 DEF HeartbeatSteady, HeartbeatPcs
  <2>4. CASE HeartbeatChanges(c)
    <3>1. /\ pc[c] = "hb_changes" /\ pc'[c] = "hb_own"
          /\ loc'[c].ids = After(c) /\ loc'[c].n = loc[c].n
          /\ loc'[c].pos = loc[c].pos /\ loc'[c].got = loc[c].got
      BY <1>1, <2>4 DEF HeartbeatChanges, Goto, Locals, After
    <3> QED
      BY <1>1, <1>4, <3>1 DEF HeartbeatSteady, HeartbeatPcs, After
  <2>5. CASE HeartbeatOwn(c) \/ HeartbeatFetch(c)
    <3>1. /\ pc[c] \in {"hb_own", "hb_fetch"} /\ pc'[c] \in {"replied", "hb_fetch"}
          /\ loc'[c].ids \subseteq Fresh(c)
          /\ loc'[c].got = {<<i, changes[i]>> : i \in Fresh(c) \ loc'[c].ids}
          /\ loc'[c].n = loc[c].n /\ loc'[c].pos = loc[c].pos
      BY <2>5, HeartbeatBrings DEF HeartbeatOwn, HeartbeatFetch
    <3>2. Fresh(c)' = Fresh(c)
      BY <1>1, <1>4 DEF Fresh, After, OwnIds
    <3>3. Fetched(c)' = {<<i, changes[i]>> : i \in Fresh(c) \ loc'[c].ids}
      BY <1>4, <3>2 DEF Fetched
    <3> QED
      BY <1>1, <1>4, <3>1, <3>2, <3>3 DEF HeartbeatSteady, HeartbeatPcs
  <2> QED
    BY <2>1, <2>2, <2>3, <2>4, <2>5 DEF HeartbeatStep
<1> QED
  BY <1>3, <1>4, <1>5, <1>6, <1>7, <1>8 DEF Steady

(* A send, command by command.                                             *)
LEMMA SendKeepsSteady ==
  ASSUME Base, Base', Serial, Authorship, Steady, NEW c \in Calls, SendStep(c)
  PROVE  Steady'
<1>1. /\ pc \in [Calls -> Labels] /\ loc \in [Calls -> Locals] /\ id \in Nat
      /\ req' = req /\ StoreGrows /\ HandlerStep(c) /\ HeartbeatSteady(c) /\ FreshId(c)
      /\ req[c].kind = "sendChanges" /\ Registered(req[c].user) /\ pc'[c] # "failed"
      /\ \A d \in Calls \ {c} : pc'[d] = pc[d] /\ loc'[d] = loc[d]
  BY HandlerFrame, HandlerOf
  DEF HandlerStep, Base, Types, TypeOK, StoreTypeOK, Steady, Served, CallServed, Serial
<1>2. \A d \in Calls \ {c} : pc[d] \notin HandlerPcs /\ pc'[d] \notin HandlerPcs
  BY <1>1, OthersIdle DEF Base, Handled
<1>3. \A d \in Calls \ {c} : LoginSteady(d)' /\ HeartbeatSteady(d)'
  BY <1>1, <1>2, UnhandledSteady DEF Handled, Untouched
<1>4. /\ pc[c] \in SendPcs /\ pc'[c] \in SendPcs \cup {"replied"}
      /\ UNCHANGED users /\ UNCHANGED Count /\ loc'[c].got = loc[c].got
  BY <1>1
  DEF SendStep, PpsStep, PpsCheck, PpsZero, PpsOne, PpsKey, ChangeIdGet, ChangeIdSet,
      ChangeIdReget, LogChange, OwnCompare, OwnRead, OwnWrite, Goto, ReadOnly, store,
      SendPcs, PpsPcs, ChangeIdPcs, Count, Locals
<1>5. \A d \in Calls \ {c} : /\ ~ Numbering(d) /\ ~ Numbering(d)'
                             /\ ~ Recording(d) /\ ~ Recording(d)'
  BY <1>2 DEF Numbering, Recording, HandlerPcs, SendPcs, ChangeIdPcs
<1>6. LoginSteady(c)' /\ HeartbeatSteady(c)'
  <2>1. loc'[c].got = {}
    BY <1>1, <1>4 DEF HeartbeatSteady, SendPcs, PpsPcs, ChangeIdPcs
  <2> QED
    BY <1>1, <1>4, <2>1
    DEF LoginSteady, Registering, HeartbeatSteady, HeartbeatPcs, SendPcs, PpsPcs, ChangeIdPcs
<1>7. \A n \in DOMAIN users' : Listed(n)'
  <2>1. \A n \in DOMAIN users : n \in DOMAIN userChanges
    BY <1>2, <1>4 DEF Steady, Listed, HandlerPcs, LoginPcs, SendPcs, PpsPcs, ChangeIdPcs
  <2> QED
    BY <1>1, <1>4, <2>1 DEF Listed, StoreGrows
<1>8. Numbered'
  <2>1. /\ Numbering(c) => id > 0 /\ DOMAIN changes = 1..id - 1
        /\ ~ Numbering(c) => DOMAIN changes = 1..id
        /\ Recording(c) => loc[c].cid = id
    BY <1>5 DEF Steady, Numbered
  <2> SUFFICES /\ Numbering(c)' => id' > 0 /\ DOMAIN changes' = 1..id' - 1
               /\ ~ Numbering(c)' => DOMAIN changes' = 1..id'
               /\ Recording(c)' => loc'[c].cid = id'
    BY <1>5 DEF Numbered
  <2>2. CASE PpsStep(c) \/ ChangeIdGet(c)
    <3>1. /\ UNCHANGED <<id, changes>> /\ pc'[c] \in PpsPcs \cup {"cid_get", "cid_set"}
          /\ pc[c] \in PpsPcs \cup {"cid_get"}
      BY <1>1, <2>2
      DEF PpsStep, PpsCheck, PpsZero, PpsOne, PpsKey, ChangeIdGet, Goto, ReadOnly, store,
          PpsPcs
    <3> QED
      BY <2>1, <3>1 DEF Numbering, Recording, PpsPcs
  <2>3. CASE ChangeIdSet(c)
    <3>1. /\ pc[c] = "cid_set" /\ pc'[c] = "cid_reget" /\ changes' = changes /\ id' = id + 1
      BY <1>1, <2>3 DEF ChangeIdSet, Goto, FreshId
    <3> QED
      BY <1>1, <2>1, <3>1 DEF Numbering, Recording
  <2>4. CASE ChangeIdReget(c)
    <3>1. pc[c] = "cid_reget" /\ pc'[c] = "log_change" /\ UNCHANGED <<id, changes>>
      BY <1>1, <2>4 DEF ChangeIdReget, Goto, ReadOnly, store
    <3> QED
      BY <2>1, <3>1 DEF Numbering, Recording
  <2>5. CASE LogChange(c)
    <3>1. /\ pc[c] = "log_change" /\ pc'[c] = "own_compare" /\ id' = id
          /\ loc'[c] = loc[c] /\ loc[c].cid = id
          /\ DOMAIN changes' = DOMAIN changes \cup {id}
      BY <1>1, <2>5 DEF LogChange, Goto, FreshId, HSet
    <3>2. id > 0 /\ DOMAIN changes = 1..id - 1
      BY <2>1, <3>1 DEF Numbering
    <3>3. DOMAIN changes' = 1..id
      BY <1>1, <3>1, <3>2
    <3> QED
      BY <3>1, <3>3 DEF Numbering
  <2>6. CASE OwnCompare(c) \/ OwnRead(c) \/ OwnWrite(c)
    <3>1. /\ Recording(c) /\ pc'[c] \in {"own_read", "own_write", "replied"}
          /\ UNCHANGED <<id, changes>> /\ loc'[c].cid = loc[c].cid
      BY <1>1, <2>6
      DEF OwnCompare, OwnRead, OwnWrite, Goto, ReadOnly, store, Recording, Locals
    <3> QED
      BY <2>1, <3>1 DEF Numbering, Recording
  <2> QED
    BY <2>2, <2>3, <2>4, <2>5, <2>6 DEF SendStep
<1> QED
  BY <1>3, <1>6, <1>7, <1>8 DEF Steady

(* A free call gets a request, which asks from a logged id or from -1.     *)
LEMMA RequestKeepsSteady ==
  ASSUME Base, Heard, Steady, NEW g \in Guests, NEW c \in Calls, PageRequest(g, c)
  PROVE  Steady'
<1>1. OutsideStep /\ UNCHANGED loc /\ pc \in [Calls -> Labels]
  BY RequestOutside
  DEF Base, Types, TypeOK, PageRequest, LoginAsGuest, HeartbeatTimer, SendChangesTimer,
      SendTimeout, SendGiveUp, LogOut, GetUserNames, Issue, server
<1>2. \A d \in Calls : HeartbeatSteady(d)
  BY DEF Steady
<1>3. g \in joined => last[g] \in {-1} \cup DOMAIN changes
  BY DEF Heard, Reached
<1>4. CASE SendGiveUp(g, c)
  <2>1. UNCHANGED <<pc, req, loc>>
    BY <1>4 DEF SendGiveUp, server
  <2> QED
    BY <1>1, <1>2, <2>1, OutsideSteady DEF Untouched, HeartbeatSteady
<1>5. CASE ~ SendGiveUp(g, c)
  <2> DEFINE Asks(k, r) == /\ pc[k] = "idle" /\ pc' = [pc EXCEPT ![k] = "queued"]
                           /\ req' = [req EXCEPT ![k] = r]
                           /\ r.kind = "heartbeat" => r.last \in {-1} \cup DOMAIN changes
  <2>0. PICK k \in Calls : \E r : Asks(k, r)
    <3>1. ASSUME NEW kind, NEW x, NEW n, Issue(g, c, Body(kind, g, x, n)),
                 kind = "heartbeat" => n = last[g] /\ g \in joined
          PROVE  Asks(c, Body(kind, g, x, n))
      BY <1>3, <3>1 DEF Issue, Goto, Body
    <3>2. ASSUME NEW retry \in Calls, SendTimeout(g, c, retry) PROVE Asks(retry, req[c])
      BY <3>2 DEF SendTimeout, Goto, Open
    <3>3. CASE LoginAsGuest(g, c)
      BY <3>1, <3>3 DEF LoginAsGuest
    <3>4. CASE HeartbeatTimer(g, c)
      BY <3>1, <3>4 DEF HeartbeatTimer
    <3>5. ASSUME NEW x \in Payloads, SendChangesTimer(g, c, x)
          PROVE  \E k \in Calls : \E r : Asks(k, r)
      BY <3>1, <3>5 DEF SendChangesTimer
    <3>6. CASE LogOut(g, c) \/ GetUserNames(g, c)
      BY <3>1, <3>6 DEF LogOut, GetUserNames
    <3> HIDE DEF Asks
    <3> QED
      BY <1>5, <3>2, <3>3, <3>4, <3>5, <3>6 DEF PageRequest
  <2>1. PICK r : Asks(k, r)
    BY <2>0
  <2>2. \A d \in Calls \ {k} : Untouched(d)
    BY <1>1, <2>1 DEF Untouched
  <2>3. loc'[k].got = {}
    BY <1>1, <1>2, <2>1 DEF HeartbeatSteady
  <2>4. \A d \in Calls : req'[d].kind = "heartbeat" => req'[d].last \in {-1} \cup DOMAIN changes
    BY <1>2, <2>1 DEF HeartbeatSteady, Base, Types, TypeOK
  <2> QED
    BY <1>1, <2>2, <2>3, <2>4, OutsideSteady
<1> QED
  BY <1>4, <1>5

(* No step disturbs it, as long as one handler runs at a time.              *)
LEMMA NextSteady ==
  Base /\ Base' /\ Serial /\ Registry /\ Dense /\ Authorship /\ Heard /\ Steady /\ [Next]_vars
    => Steady'
<1> SUFFICES ASSUME Base, Base', Serial, Registry, Dense, Authorship, Heard, Steady, [Next]_vars
             PROVE  Steady'
  OBVIOUS
<1>1. /\ pc \in [Calls -> Labels] /\ req \in [Calls -> Request] /\ loc \in [Calls -> Locals]
      /\ Types /\ starts' = 0
  BY DEF Base, Types, TypeOK
<1>2. \A d \in Calls : HeartbeatSteady(d)
  BY DEF Steady
<1>3. ASSUME OutsideStep, UNCHANGED <<req, loc>>,
             \A d \in Calls : Untouched(d) \/ pc[d] = "queued"
      PROVE  Steady'
  BY <1>2, <1>3, OutsideSteady DEF HeartbeatSteady, Untouched
<1>4. CASE UNCHANGED vars
  BY <1>3, <1>4 DEF vars, server, OutsideStep, Untouched
<1>5. ASSUME NEW g \in Guests, NEW c \in Calls, PageRequest(g, c) PROVE Steady'
  BY <1>5, RequestKeepsSteady
<1>6. ASSUME NEW c \in Calls, Callback(c) PROVE Steady'
  <2>1. Free(c) /\ pc[c] \in Answered
    BY <1>6
    DEF Callback, LoginDone, HeartbeatDone, SendChangesDone, AnswerIgnored, Answer
  <2>2. ~ Handled(c)
    BY <2>1, PcsDisjoint DEF Handled, HandlerPcs, Answered
  <2>3. /\ \A d \in Calls \ {c} : Untouched(d)
        /\ pc'[c] = "idle" /\ loc'[c].got = {} /\ req'[c] = NoRequest
        /\ UNCHANGED <<store, starts>>
    BY <1>1, <2>1 DEF Free, Goto, Untouched, NoLocals
  <2>4. OutsideStep
    BY <2>2, <2>3 DEF OutsideStep, Beginnings
  <2>5. \A d \in Calls : req'[d].kind = "heartbeat" => req'[d].last \in {-1} \cup DOMAIN changes
    BY <1>2, <2>3 DEF HeartbeatSteady, Untouched, NoRequest
  <2> QED
    BY <2>3, <2>4, <2>5, OutsideSteady
<1>7. ASSUME NEW c \in Calls, Accept(c), UNCHANGED <<owner, page>> PROVE Steady'
  <2>1. pc[c] = "queued" /\ UNCHANGED <<store, req, loc, starts>>
        /\ \A d \in Calls \ {c} : Untouched(d)
    BY <1>1, <1>7 DEF Accept, Goto, Untouched
  <2>2. pc'[c] \in Beginnings
    BY <1>1, <1>7 DEF Accept, Goto, Entry, Beginnings, Types, TypeOK, Dispatched, Request, Kinds
  <2>3. OutsideStep
    BY <2>1, <2>2, PcsDisjoint DEF OutsideStep, Handled, HandlerPcs
  <2> QED
    BY <1>3, <2>1, <2>3
<1>8. ASSUME NEW c \in Calls, CommandStep(c) PROVE Steady'
  <2>1. CASE LoginStep(c)
    BY <2>1, LoginKeepsSteady
  <2>2. CASE HeartbeatStep(c)
    BY <2>2, HeartbeatKeepsSteady
  <2>3. CASE SendStep(c)
    BY <2>3, SendKeepsSteady
  <2>4. CASE Deinitialize(c) \/ SendUserNames(c)
    <3>1. /\ UNCHANGED <<store, req, loc>> /\ pc'[c] = "replied"
          /\ pc[c] \in {"deinitialize", "names"} /\ req[c].kind # "heartbeat"
          /\ \A d \in Calls \ {c} : pc'[d] = pc[d]
      BY <1>1, <2>4, HandlerOf DEF Deinitialize, SendUserNames, ReadOnly, Goto
    <3>2. \A d \in Calls \ {c} : pc[d] \notin HandlerPcs
      BY <1>8, <2>4, OthersIdle DEF CommandStep, Base, Handled
    <3>3. \A d \in Calls : /\ ~ Numbering(d) /\ ~ Numbering(d)' /\ ~ Recording(d)'
                           /\ pc[d] # "add_changes"
      BY <3>1, <3>2 DEF Numbering, Recording, HandlerPcs, SendPcs, ChangeIdPcs, LoginPcs
    <3>4. Numbered' /\ \A n \in DOMAIN users' : Listed(n)'
      BY <3>1, <3>3 DEF store, Steady, Numbered, Listed
    <3>5. ASSUME NEW d \in Calls PROVE LoginSteady(d)' /\ HeartbeatSteady(d)'
      <4>1. CASE d = c
        BY <1>2, <3>1, <4>1
        DEF LoginSteady, Registering, HeartbeatSteady, HeartbeatPcs
      <4>2. CASE d # c
        <5>1. ~ Handled(d) /\ ~ Handled(d)' /\ Untouched(d) /\ StoreGrows
          BY <3>1, <3>2, <4>2 DEF Handled, Untouched, StoreGrows, store
        <5> QED
          BY <5>1, UnhandledSteady
      <4> QED
        BY <4>1, <4>2
    <3> QED
      BY <3>4, <3>5 DEF Steady
  <2> QED
    BY <1>8, <2>1, <2>2, <2>3, <2>4 DEF CommandStep, HandlerStep
<1>9. ~ Startup
  BY <1>1 DEF Startup, Types, TypeOK
<1> QED
  BY <1>4, <1>5, <1>6, <1>7, <1>8, <1>9 DEF Next, ServerStep, CommandStep

-----------------------------------------------------------------------------
(***************************************************************************)
(* The refinement: what module SharedLog sees of a state.                  *)
(***************************************************************************)
(* While one handler runs it is the only one that hides anything.          *)
Hidden(c) == IF Registering(c) THEN {req[c].user} ELSE {}
Unrecorded(c) == IF Recording(c) THEN {loc[c].cid} ELSE {}

(* Only the handler that runs hides a name or a change.                     *)
LEMMA OneHides ==
  ASSUME NEW c \in Calls, \A d \in Calls \ {c} : ~ Handled(d) /\ ~ Handled(d)'
  PROVE  /\ MembersBar = [n \in DOMAIN users \ Hidden(c) |-> users[n]]
         /\ MembersBar' = [n \in DOMAIN users' \ Hidden(c)' |-> users'[n]]
         /\ LogBar = [i \in DOMAIN changes \ Unrecorded(c) |-> changes[i]]
         /\ LogBar' = [i \in DOMAIN changes' \ Unrecorded(c)' |-> changes'[i]]
         /\ OwnBar = [n \in DOMAIN users \ Hidden(c) |-> OwnIds(n)]
         /\ OwnBar' = [n \in DOMAIN users' \ Hidden(c)' |-> OwnIds(n)']
<1>1. \A d \in Calls \ {c} : /\ ~ Registering(d) /\ ~ Registering(d)'
                             /\ ~ Recording(d) /\ ~ Recording(d)'
  BY DEF Handled, HandlerPcs, LoginPcs, SendPcs, Registering, Recording
<1>2. /\ {req[d].user : d \in {e \in Calls : Registering(e)}} = Hidden(c)
      /\ {loc[d].cid : d \in {e \in Calls : Recording(e)}} = Unrecorded(c)
  BY <1>1 DEF Hidden, Unrecorded
<1>3. /\ {req[d].user : d \in {e \in Calls : Registering(e)}}' = Hidden(c)'
      /\ {loc[d].cid : d \in {e \in Calls : Recording(e)}}' = Unrecorded(c)'
  BY <1>1 DEF Hidden, Unrecorded
<1> HIDE DEF Hidden, Unrecorded
<1>4. MembersBar = [n \in DOMAIN users \ Hidden(c) |-> users[n]]
  BY <1>2 DEF MembersBar
<1>5. MembersBar' = [n \in DOMAIN users' \ Hidden(c)' |-> users'[n]]
  BY <1>3 DEF MembersBar
<1>6. LogBar = [i \in DOMAIN changes \ Unrecorded(c) |-> changes[i]]
  BY <1>2 DEF LogBar
<1>7. LogBar' = [i \in DOMAIN changes' \ Unrecorded(c)' |-> changes'[i]]
  BY <1>3 DEF LogBar
<1>8. OwnBar = [n \in DOMAIN users \ Hidden(c) |-> OwnIds(n)]
  BY <1>4 DEF OwnBar
<1>9. OwnBar' = [n \in DOMAIN users' \ Hidden(c)' |-> OwnIds(n)']
  BY <1>5 DEF OwnBar
<1> QED
  BY <1>4, <1>5, <1>6, <1>7, <1>8, <1>9

(* A step that changes nothing of what is not hidden.                      *)
LEMMA SameBars ==
  ASSUME NEW c \in Calls, \A d \in Calls \ {c} : ~ Handled(d) /\ ~ Handled(d)',
         DOMAIN users' \ Hidden(c)' = DOMAIN users \ Hidden(c),
         DOMAIN changes' \ Unrecorded(c)' = DOMAIN changes \ Unrecorded(c),
         \A n \in DOMAIN users \ Hidden(c) : users'[n] = users[n] /\ OwnIds(n)' = OwnIds(n),
         \A i \in DOMAIN changes \ Unrecorded(c) : changes'[i] = changes[i]
  PROVE  UNCHANGED <<MembersBar, LogBar, OwnBar>>
<1> DEFINE N == DOMAIN users \ Hidden(c)   I == DOMAIN changes \ Unrecorded(c)
<1>1. /\ MembersBar = [n \in N |-> users[n]] /\ MembersBar' = [n \in N |-> users'[n]]
      /\ LogBar = [i \in I |-> changes[i]] /\ LogBar' = [i \in I |-> changes'[i]]
      /\ OwnBar = [n \in N |-> OwnIds(n)] /\ OwnBar' = [n \in N |-> OwnIds(n)']
  BY OneHides
<1>2. /\ \A n \in N : users'[n] = users[n] /\ OwnIds(n)' = OwnIds(n)
      /\ \A i \in I : changes'[i] = changes[i]
  OBVIOUS
<1> HIDE DEF N, I
<1>3. MembersBar' = MembersBar
  BY <1>1, <1>2
<1>4. LogBar' = LogBar
  BY <1>1, <1>2
<1>5. OwnBar' = OwnBar
  BY <1>1, <1>2
<1> QED
  BY <1>3, <1>4, <1>5

(* A call has no answer before its handler has given one.                  *)
LEMMA NoAnswerYet ==
  ASSUME NEW c \in Calls
  PROVE  /\ pc[c] \notin {"invalid", "replied"} => AnswerBar[c] = Abstract!NoAnswer
         /\ pc'[c] \notin {"invalid", "replied"} => AnswerBar'[c] = Abstract!NoAnswer
BY DEF AnswerBar, Log!NoAnswer, Abstract!NoAnswer

(* An untouched call keeps its answer.                                     *)
LEMMA SameAnswer ==
  ASSUME NEW d \in Calls, Untouched(d)
  PROVE  AnswerBar'[d] = AnswerBar[d]
BY DEF AnswerBar, Untouched, Log!NoAnswer, Log!Refused, Log!Welcome, Log!News,
       Log!Logged, Log!Done

(* A handler's last step answers its call.                                 *)
LEMMA Gives ==
  ASSUME NEW c \in Calls, NEW a, \A d \in Calls \ {c} : Untouched(d),
         pc[c] \notin {"invalid", "replied"}, AnswerBar'[c] = a
  PROVE  Abstract!Give(c, a)
<1>1. AnswerBar[c] = Abstract!NoAnswer
  BY NoAnswerYet
<1>2. \A d \in Calls \ {c} : AnswerBar'[d] = AnswerBar[d]
  BY SameAnswer
<1>3. /\ AnswerBar = [d \in Calls |-> AnswerBar[d]]
      /\ AnswerBar' = [d \in Calls |-> AnswerBar'[d]]
  BY DEF AnswerBar
<1>4. AnswerBar' = [AnswerBar EXCEPT ![c] = a]
  BY <1>2, <1>3
<1> QED
  BY <1>1, <1>4 DEF Abstract!Give

(* Sizes are the same inside module SharedLog.                             *)
LEMMA SameSize ==
  \A S : Abstract!Cardinality(S) = Cardinality(S)
BY Zenon DEF Abstract!Cardinality, Cardinality

(* What holds of every state of one server process with one worker.        *)
OneAtATime ==
  Base /\ Serial /\ Registry /\ Dense /\ Authorship /\ Heard /\ Steady

(* While a handler runs no other hides anything, and the rest is untouched.*)
LEMMA CommandAlone ==
  ASSUME OneAtATime, Base', NEW c \in Calls, HandlerStep(c)
  PROVE  /\ pc \in [Calls -> Labels] /\ loc \in [Calls -> Locals] /\ id \in Nat
         /\ req' = req /\ pc[c] \in HandlerPcs /\ pc'[c] # "failed"
         /\ \A d \in Calls \ {c} : Untouched(d) /\ ~ Handled(d) /\ ~ Handled(d)'
         /\ users = [n \in DOMAIN users |-> users[n]]
         /\ changes = [i \in DOMAIN changes |-> changes[i]]
         /\ LoginSteady(c) /\ HeartbeatSteady(c) /\ CallServed(c)
<1>1. Handled(c)
  BY DEF Handled, HandlerPcs, LoginPcs, HeartbeatPcs, SendPcs, PpsPcs, ChangeIdPcs,
         HandlerStep, LoginStep, LoginIndex, LoginTaken, AddLen, AddUser, AddChanges,
         LoginCount, LoginKeys, LoginPosition, HeartbeatStep, HeartbeatCount,
         HeartbeatKeys, HeartbeatPosition, HeartbeatChanges, HeartbeatOwn,
         HeartbeatFetch, SendStep, PpsStep, PpsCheck, PpsZero, PpsOne, PpsKey,
         ChangeIdGet, ChangeIdSet, ChangeIdReget, LogChange, OwnCompare, OwnRead,
         OwnWrite, Deinitialize, SendUserNames
<1>2. /\ req' = req
      /\ \A d \in Calls \ {c} : Untouched(d) /\ ~ Handled(d) /\ ~ Handled(d)'
  BY HandlerFrame, OthersIdle DEF OneAtATime, Base, Untouched
<1>3. /\ pc \in [Calls -> Labels] /\ loc \in [Calls -> Locals] /\ id \in Nat
      /\ users \in [DOMAIN users -> Nat] /\ changes \in [DOMAIN changes -> Payloads]
  BY DEF OneAtATime, Base, Types, TypeOK, StoreTypeOK
<1>4. LoginSteady(c) /\ HeartbeatSteady(c) /\ CallServed(c) /\ CallServed(c)'
  BY DEF OneAtATime, Steady, Base, Served
<1> QED
  BY <1>1, <1>2, <1>3, <1>4 DEF Handled, CallServed

(* A user's name is out of sight until its login is answered ...           *)
LEMMA AddUserMaps ==
  ASSUME OneAtATime, Base', NEW c \in Calls, CommandStep(c), AddUser(c)
  PROVE  UNCHANGED <<MembersBar, LogBar, OwnBar>>
<1>1. HandlerStep(c)
  BY DEF CommandStep
<1>2. /\ pc \in [Calls -> Labels] /\ req' = req /\ loc' = loc /\ pc'[c] = "add_changes"
      /\ pc[c] = "add_user" /\ UNCHANGED <<changes, userChanges>>
      /\ \A d \in Calls \ {c} : ~ Handled(d) /\ ~ Handled(d)'
  BY <1>1, CommandAlone DEF AddUser, Goto
<1> DEFINE u == req[c].user
<1>3. u \notin DOMAIN users /\ users' = HSet(users, u, Count)
  BY <1>2 DEF AddUser, OneAtATime, Registry, Vacant, Dense
<1>4. Hidden(c) = {} /\ Hidden(c)' = {u} /\ Unrecorded(c) = {} /\ Unrecorded(c)' = {}
  BY <1>2 DEF Hidden, Unrecorded, Registering, Recording
<1>5. /\ DOMAIN users' \ {u} = DOMAIN users
      /\ \A n \in DOMAIN users : users'[n] = users[n]
  BY <1>3 DEF HSet
<1>6. \A n \in DOMAIN users : OwnIds(n)' = OwnIds(n)
  BY <1>2 DEF OwnIds
<1> HIDE DEF u
<1> QED
  BY <1>2, <1>4, <1>5, <1>6, SameBars

(* The list of own changes of a name that is still hidden shows nowhere.    *)
LEMMA AddChangesMaps ==
  ASSUME OneAtATime, Base', NEW c \in Calls, CommandStep(c), AddChanges(c)
  PROVE  UNCHANGED <<MembersBar, LogBar, OwnBar>>
<1>1. HandlerStep(c)
  BY DEF CommandStep
<1>2. /\ pc \in [Calls -> Labels] /\ req' = req /\ loc' = loc /\ pc'[c] = "login_count"
      /\ pc[c] = "add_changes" /\ UNCHANGED <<users, changes>>
      /\ userChanges' = HSet(userChanges, req[c].user, <<>>)
      /\ \A d \in Calls \ {c} : ~ Handled(d) /\ ~ Handled(d)'
  BY <1>1, CommandAlone DEF AddChanges, Goto
<1> DEFINE u == req[c].user
<1>3. Hidden(c) = {u} /\ Hidden(c)' = {u} /\ Unrecorded(c) = {} /\ Unrecorded(c)' = {}
  BY <1>2 DEF Hidden, Unrecorded, Registering, Recording
<1>4. \A n \in DOMAIN users \ {u} : n \in DOMAIN userChanges
  BY <1>2 DEF OneAtATime, Steady, Listed, Handled, HandlerPcs, LoginPcs
<1>5. \A n \in DOMAIN users \ {u} : OwnIds(n)' = OwnIds(n)
  BY <1>2, <1>4 DEF OwnIds, HSet
<1> HIDE DEF u
<1> QED
  BY <1>2, <1>3, <1>5, SameBars

(* ... and a change until it is recorded as its author's own.              *)
LEMMA LogChangeMaps ==
  ASSUME OneAtATime, Base', NEW c \in Calls, CommandStep(c), LogChange(c)
  PROVE  UNCHANGED <<MembersBar, LogBar, OwnBar>>
<1>1. HandlerStep(c)
  BY DEF CommandStep
<1>2. /\ pc \in [Calls -> Labels] /\ req' = req /\ loc' = loc /\ pc'[c] = "own_compare"
      /\ pc[c] = "log_change" /\ UNCHANGED <<users, userChanges>>
      /\ changes' = HSet(changes, loc[c].cid, req[c].change)
      /\ \A d \in Calls \ {c} : ~ Handled(d) /\ ~ Handled(d)'
  BY <1>1, CommandAlone DEF LogChange, Goto
<1> DEFINE i == loc[c].cid
<1>3. Hidden(c) = {} /\ Hidden(c)' = {} /\ Unrecorded(c) = {} /\ Unrecorded(c)' = {i}
  BY <1>2 DEF Hidden, Unrecorded, Registering, Recording
<1>4. i \notin DOMAIN changes
  <2>1. i = id /\ \A j \in DOMAIN changes : j < id
    BY <1>2 DEF OneAtATime, Serial, FreshId
  <2> QED
    BY <1>1, <2>1, CommandAlone
<1>5. /\ DOMAIN changes' \ {i} = DOMAIN changes
      /\ \A j \in DOMAIN changes : changes'[j] = changes[j]
  BY <1>2, <1>4 DEF HSet
<1>6. \A n \in DOMAIN users : OwnIds(n)' = OwnIds(n)
  BY <1>2 DEF OwnIds
<1> HIDE DEF i
<1> QED
  BY <1>2, <1>3, <1>5, <1>6, SameBars

(* A command that only reads, or writes what module SharedLog has not got, *)
(* and hides as much as before.                                            *)
LEMMA ReadMaps ==
  ASSUME OneAtATime, Base', NEW c \in Calls, HandlerStep(c),
         UNCHANGED <<users, changes, userChanges>>,
         Registering(c)' <=> Registering(c), Recording(c)' <=> Recording(c),
         Recording(c) => loc'[c].cid = loc[c].cid
  PROVE  UNCHANGED <<MembersBar, LogBar, OwnBar>>
<1>1. req' = req /\ \A d \in Calls \ {c} : ~ Handled(d) /\ ~ Handled(d)'
  BY CommandAlone
<1>2. Hidden(c)' = Hidden(c) /\ Unrecorded(c)' = Unrecorded(c)
  BY <1>1 DEF Hidden, Unrecorded
<1>3. \A n : OwnIds(n)' = OwnIds(n)
  BY DEF OwnIds
<1>4. \A n \in DOMAIN users \ Hidden(c) : OwnIds(n)' = OwnIds(n)
  BY <1>3
<1> QED
  BY <1>1, <1>2, <1>4, SameBars

(* A command after which the handler goes on is a stutter of the log.      *)
LEMMA QuietMaps ==
  ASSUME OneAtATime, Base', NEW c \in Calls, CommandStep(c),
         pc'[c] \notin {"replied", "invalid"}
  PROVE  UNCHANGED (Abstract!vars)
<1>1. HandlerStep(c)
  BY DEF CommandStep
<1>2. /\ pc \in [Calls -> Labels] /\ loc \in [Calls -> Locals] /\ req' = req
      /\ pc[c] \in HandlerPcs /\ pc'[c] # "failed"
      /\ \A d \in Calls \ {c} : Untouched(d)
  BY <1>1, CommandAlone
<1>3. UNCHANGED AnswerBar
  <2>0. pc[c] \notin {"invalid", "replied"}
    BY <1>2 DEF HandlerPcs, LoginPcs, HeartbeatPcs, SendPcs, PpsPcs, ChangeIdPcs
  <2>1. AnswerBar'[c] = AnswerBar[c]
    BY <2>0, NoAnswerYet
  <2>2. \A d \in Calls : AnswerBar'[d] = AnswerBar[d]
    BY <1>2, <2>1, SameAnswer
  <2>3. /\ AnswerBar = [d \in Calls |-> AnswerBar[d]]
        /\ AnswerBar' = [d \in Calls |-> AnswerBar'[d]]
    BY DEF AnswerBar
  <2> QED
    BY <2>2, <2>3
<1>4. UNCHANGED <<MembersBar, LogBar, OwnBar>>
  <2>1. CASE AddUser(c)
    BY <2>1, AddUserMaps
  <2>2. CASE AddChanges(c)
    BY <2>2, AddChangesMaps
  <2>3. CASE LogChange(c)
    BY <2>3, LogChangeMaps
  <2>4. CASE ~ AddUser(c) /\ ~ AddChanges(c) /\ ~ LogChange(c)
    <3>1. ~ OwnWrite(c) /\ ~ Deinitialize(c) /\ ~ SendUserNames(c) /\ ~ LoginPosition(c)
      BY <1>2 DEF OwnWrite, Deinitialize, SendUserNames, LoginPosition, Position, Goto
    <3>2. UNCHANGED <<users, changes, userChanges>>
      BY <1>1, <2>4, <3>1
      DEF HandlerStep, LoginStep, LoginIndex, LoginTaken, AddLen, LoginCount, LoginKeys,
          HeartbeatStep, HeartbeatCount, HeartbeatKeys, HeartbeatPosition, Position,
          HeartbeatChanges, HeartbeatOwn, HeartbeatFetch, SendStep, PpsStep, PpsCheck,
          PpsZero, PpsOne, PpsKey, ChangeIdGet, ChangeIdSet, ChangeIdReget, OwnCompare,
          OwnRead, ReadOnly, store
    <3>3. CASE LoginStep(c)
      <4>1. Registering(c)' <=> Registering(c)
        BY <1>2, <2>4, <3>1, <3>3
        DEF LoginStep, LoginIndex, LoginTaken, AddLen, LoginCount, LoginKeys, Goto, Registering
      <4>2. ~ Recording(c) /\ ~ Recording(c)'
        BY <1>2, <2>4, <3>1, <3>3
        DEF LoginStep, LoginIndex, LoginTaken, AddLen, LoginCount, LoginKeys, Goto, Recording
      <4> QED
        BY <1>1, <3>2, <4>1, <4>2, ReadMaps
    <3>4. CASE HeartbeatStep(c)
      <4>1. pc[c] \in HeartbeatPcs /\ pc'[c] \in HeartbeatPcs
        BY <1>2, <3>4
        DEF HeartbeatStep, HeartbeatCount, HeartbeatKeys, HeartbeatPosition, Position,
            HeartbeatChanges, HeartbeatOwn, HeartbeatFetch, Goto, HeartbeatPcs
      <4> QED
        BY <1>1, <3>2, <4>1, ReadMaps DEF Registering, Recording, HeartbeatPcs
    <3>5. CASE SendStep(c)
      <4>1. ~ Registering(c) /\ ~ Registering(c)'
        BY <1>2, <2>4, <3>1, <3>5
        DEF SendStep, PpsStep, PpsCheck, PpsZero, PpsOne, PpsKey, ChangeIdGet,
            ChangeIdSet, ChangeIdReget, OwnCompare, OwnRead, Goto, Registering
      <4>2. /\ Recording(c)' <=> Recording(c)
            /\ Recording(c) => loc'[c].cid = loc[c].cid
        BY <1>2, <2>4, <3>1, <3>5
        DEF SendStep, PpsStep, PpsCheck, PpsZero, PpsOne, PpsKey, ChangeIdGet,
            ChangeIdSet, ChangeIdReget, OwnCompare, OwnRead, Goto, Recording, Locals
      <4> QED
        BY <1>1, <3>2, <4>1, <4>2, ReadMaps
    <3> QED
      BY <1>1, <3>1, <3>3, <3>4, <3>5 DEF HandlerStep
  <2> QED
    BY <2>1, <2>2, <2>3, <2>4
<1> QED
  BY <1>3, <1>4 DEF Abstract!vars

(* A login is answered: the name is taken, or registered in this step.     *)
LEMMA LoginMaps ==
  ASSUME OneAtATime, Base', NEW c \in Calls, CommandStep(c), LoginStep(c),
         pc'[c] \in {"replied", "invalid"}
  PROVE  Abstract!Next
<1> DEFINE u == req[c].user
<1>1. /\ HandlerStep(c) /\ req[c].kind = "login" /\ u \in Names
      /\ UNCHANGED <<users, changes, userChanges>>
  <2>1. HandlerStep(c) /\ req[c].kind = "login"
    BY HandlerOf DEF CommandStep, OneAtATime
  <2>2. u \in Names
    BY <2>1 DEF OneAtATime, Base, Types, TypeOK, Request, NoRequest
  <2>3. ~ AddUser(c) /\ ~ AddChanges(c)
    BY DEF AddUser, AddChanges, Goto, OneAtATime, Base, Types, TypeOK
  <2> QED
    BY <2>1, <2>2, <2>3
    DEF LoginStep, LoginIndex, LoginTaken, AddLen, LoginCount, LoginKeys, LoginPosition,
        ReadOnly, store
<1>2. /\ pc \in [Calls -> Labels] /\ loc \in [Calls -> Locals] /\ req' = req
      /\ pc[c] \in HandlerPcs /\ LoginSteady(c) /\ CallServed(c)
      /\ \A d \in Calls \ {c} : Untouched(d) /\ ~ Handled(d) /\ ~ Handled(d)'
      /\ users = [n \in DOMAIN users |-> users[n]]
  BY <1>1, CommandAlone
<1>3. CASE LoginTaken(c)
  <2>1. pc[c] = "login_get" /\ pc'[c] = "invalid" /\ u \in DOMAIN users
    BY <1>2, <1>3 DEF LoginTaken, Goto
  <2>2. /\ ~ Registering(c) /\ ~ Registering(c)' /\ ~ Recording(c) /\ ~ Recording(c)'
    BY <2>1 DEF Registering, Recording
  <2>3. UNCHANGED <<MembersBar, LogBar, OwnBar>>
    BY <1>1, <2>2, ReadMaps
  <2>4. u \in DOMAIN MembersBar
    BY <1>2, <2>1, <2>2, OneHides DEF Hidden
  <2>5. AnswerBar'[c] = Abstract!Refused(u)
    BY <1>2, <2>1 DEF AnswerBar, Log!Refused, Abstract!Refused
  <2>6. Abstract!Give(c, Abstract!Refused(u))
    BY <1>2, <2>1, <2>5, Gives
  <2>7. Abstract!Refuse(c, u)
    BY <2>3, <2>4, <2>6 DEF Abstract!Refuse
  <2> QED
    BY <1>1, <2>7 DEF Abstract!Next
<1>4. CASE LoginPosition(c)
  <2>1. /\ pc[c] = "login_position" /\ Registered(u) /\ pc'[c] = "replied"
        /\ loc'[c].n = loc[c].n /\ loc'[c].pos = users[u]
    BY <1>2, <1>4
    DEF LoginPosition, Position, Goto, CallServed, Registered, Locals
  <2>2. userChanges[u] = <<>> /\ loc[c].n = Count /\ users[u] = Count - 1
    BY <1>2, <2>1 DEF LoginSteady, Registering
  <2>3. /\ Hidden(c) = {u} /\ Hidden(c)' = {} /\ Unrecorded(c) = {} /\ Unrecorded(c)' = {}
    BY <1>2, <2>1 DEF Hidden, Unrecorded, Registering, Recording
  <2> DEFINE N == DOMAIN users \ {u}
  <2>4. /\ MembersBar = [n \in N |-> users[n]]
        /\ MembersBar' = [n \in DOMAIN users |-> users[n]]
        /\ LogBar' = LogBar
        /\ OwnBar = [n \in N |-> OwnIds(n)]
        /\ OwnBar' = [n \in DOMAIN users |-> OwnIds(n)']
    <3>1. /\ DOMAIN users \ Hidden(c) = N /\ DOMAIN users' \ Hidden(c)' = DOMAIN users
          /\ DOMAIN changes \ Unrecorded(c) = DOMAIN changes
          /\ DOMAIN changes' \ Unrecorded(c)' = DOMAIN changes
      BY <1>1, <2>3
    <3>2. /\ MembersBar = [n \in DOMAIN users \ Hidden(c) |-> users[n]]
          /\ MembersBar' = [n \in DOMAIN users' \ Hidden(c)' |-> users'[n]]
          /\ LogBar = [i \in DOMAIN changes \ Unrecorded(c) |-> changes[i]]
          /\ LogBar' = [i \in DOMAIN changes' \ Unrecorded(c)' |-> changes'[i]]
          /\ OwnBar = [n \in DOMAIN users \ Hidden(c) |-> OwnIds(n)]
          /\ OwnBar' = [n \in DOMAIN users' \ Hidden(c)' |-> OwnIds(n)']
      BY <1>2, OneHides
    <3> HIDE DEF N
    <3> QED
      BY <1>1, <3>1, <3>2
  <2>5. \A n \in DOMAIN users : OwnIds(n)' = IF n = u THEN {} ELSE OwnIds(n)
    BY <1>1, <2>2 DEF OwnIds
  <2>6. Cardinality(N) = Count - 1 /\ Count \in Nat
    BY <2>1, FS_RemoveElement, CountType
    DEF Registered, OneAtATime, Base, Types, FiniteHashes, Count
  <2>7. u \in DOMAIN users /\ DOMAIN MembersBar = N /\ DOMAIN OwnBar = N
    BY <2>1, <2>4 DEF Registered
  <2> HIDE DEF u, N
  <2>8. MembersBar' = Abstract!With(MembersBar, u, Cardinality(N))
    <3>1. DOMAIN users = N \cup {u}
      BY <2>7 DEF N
    <3> QED
      BY <2>2, <2>4, <2>6, <2>7, <3>1 DEF Abstract!With
  <2>9. OwnBar' = Abstract!With(OwnBar, u, {})
    <3>1. DOMAIN users = N \cup {u}
      BY <2>7 DEF N
    <3> QED
      BY <2>4, <2>5, <2>7, <3>1 DEF Abstract!With
  <2>10. AnswerBar'[c] = Abstract!Welcome(u, Cardinality(N) + 1, Cardinality(N))
    <3>1. AnswerBar'[c] = Abstract!Welcome(u, loc'[c].n, loc'[c].pos)
      BY <1>1, <1>2, <2>1 DEF AnswerBar, Log!Welcome, Abstract!Welcome, u
    <3> QED
      BY <2>1, <2>2, <2>6, <3>1
  <2>11. Abstract!Give(c, Abstract!Welcome(u, Cardinality(N) + 1, Cardinality(N)))
    BY <1>2, <2>1, <2>10, Gives
  <2>12. Abstract!Register(c, u)
    <3>1. u \notin DOMAIN MembersBar
      BY <2>7 DEF N
    <3> QED
      BY <2>4, <2>7, <2>8, <2>9, <2>11, <3>1, SameSize DEF Abstract!Register
  <2> QED
    BY <1>1, <2>12 DEF Abstract!Next, u
<1>5. LoginTaken(c) \/ LoginPosition(c)
  BY <1>2
  DEF LoginStep, LoginIndex, AddLen, AddUser, AddChanges, LoginCount, LoginKeys, Goto,
      CallServed, Registered
<1> QED
  BY <1>3, <1>4, <1>5

(* A heartbeat is answered: all changes of the others after its last id.   *)
LEMMA HeartbeatMaps ==
  ASSUME OneAtATime, Base', NEW c \in Calls, CommandStep(c), HeartbeatStep(c),
         pc'[c] = "replied"
  PROVE  Abstract!Next
<1> DEFINE u == req[c].user   k == req[c].last
<1>1. /\ HandlerStep(c) /\ req[c].kind = "heartbeat" /\ u \in Names /\ Registered(u)
      /\ UNCHANGED <<users, changes, userChanges>>
  <2>1. HandlerStep(c) /\ req[c].kind = "heartbeat" /\ Registered(u)
    BY HandlerOf DEF CommandStep, OneAtATime
  <2>2. u \in Names
    BY <2>1 DEF OneAtATime, Base, Types, TypeOK, Request, NoRequest
  <2> QED
    BY <2>1, <2>2
    DEF HeartbeatStep, HeartbeatCount, HeartbeatKeys, HeartbeatPosition,
        HeartbeatChanges, HeartbeatOwn, HeartbeatFetch, ReadOnly, store
<1>2. /\ pc \in [Calls -> Labels] /\ req' = req /\ HeartbeatSteady(c)
      /\ \A d \in Calls \ {c} : Untouched(d) /\ ~ Handled(d) /\ ~ Handled(d)'
      /\ users = [n \in DOMAIN users |-> users[n]]
      /\ changes = [i \in DOMAIN changes |-> changes[i]]
  BY <1>1, CommandAlone
<1>3. HeartbeatOwn(c) \/ HeartbeatFetch(c)
  BY <1>2
  DEF HeartbeatStep, HeartbeatCount, HeartbeatKeys, HeartbeatPosition, Position,
      HeartbeatChanges, Goto
<1>4. /\ pc[c] \in {"hb_own", "hb_fetch"} /\ loc'[c].got = {<<i, changes[i]>> : i \in Fresh(c)}
      /\ loc'[c].n = loc[c].n /\ loc'[c].pos = loc[c].pos
  BY <1>3, HeartbeatBrings DEF HeartbeatOwn, HeartbeatFetch, OneAtATime
<1>5. loc[c].n = Count /\ loc[c].pos = users[u] /\ k \in {-1} \cup DOMAIN changes
  BY <1>1, <1>2, <1>4 DEF HeartbeatSteady, HeartbeatPcs
<1>6. ~ Registering(c) /\ ~ Registering(c)' /\ ~ Recording(c) /\ ~ Recording(c)'
  BY <1>4 DEF Registering, Recording
<1>7. UNCHANGED <<MembersBar, LogBar, OwnBar>>
  BY <1>1, <1>6, ReadMaps
<1>8. /\ MembersBar = users /\ LogBar = changes
      /\ OwnBar = [n \in DOMAIN users |-> OwnIds(n)]
  <2>1. /\ DOMAIN users \ Hidden(c) = DOMAIN users
        /\ DOMAIN users' \ Hidden(c)' = DOMAIN users
        /\ DOMAIN changes \ Unrecorded(c) = DOMAIN changes
        /\ DOMAIN changes' \ Unrecorded(c)' = DOMAIN changes
    BY <1>1, <1>6 DEF Hidden, Unrecorded
  <2>2. /\ MembersBar = [n \in DOMAIN users \ Hidden(c) |-> users[n]]
        /\ LogBar = [i \in DOMAIN changes \ Unrecorded(c) |-> changes[i]]
        /\ OwnBar = [n \in DOMAIN users \ Hidden(c) |-> OwnIds(n)]
    BY <1>2, OneHides
  <2> QED
    BY <1>1, <1>2, <2>1, <2>2
<1>9. Fresh(c) = {i \in DOMAIN LogBar : i > k} \ OwnBar[u]
  BY <1>1, <1>8 DEF Fresh, After, Registered
<1> DEFINE got == {<<i, LogBar[i]>> : i \in {j \in DOMAIN LogBar : j > k} \ OwnBar[u]}
<1>10. loc'[c].got = got
  BY <1>4, <1>8, <1>9
<1> HIDE DEF got
<1>11. AnswerBar'[c] = Abstract!News(u, k, Cardinality(DOMAIN MembersBar), MembersBar[u], got)
  <2>1. AnswerBar'[c] = Abstract!News(u, k, loc'[c].n, loc'[c].pos, loc'[c].got)
    BY <1>1, <1>2 DEF AnswerBar, Log!News, Abstract!News
  <2> QED
    BY <1>4, <1>5, <1>8, <1>10, <2>1 DEF Count
<1>12. Abstract!Give(c, Abstract!News(u, k, Cardinality(DOMAIN MembersBar), MembersBar[u], got))
  BY <1>2, <1>4, <1>11, Gives
<1>13. u \in DOMAIN MembersBar
  BY <1>1, <1>8 DEF Registered
<1>14. Abstract!Poll(c, u, k)
  BY <1>7, <1>12, <1>13, SameSize DEF Abstract!Poll, got
<1>15. k \in {-1} \cup DOMAIN LogBar
  BY <1>5, <1>8
<1> HIDE DEF u, k
<1>16. u \in Names
  BY <1>1
<1> QED
  BY <1>14, <1>15, <1>16 DEF Abstract!Next

(* A send is answered: its change is the next one in the log.              *)
LEMMA PublishMaps ==
  ASSUME OneAtATime, Base', NEW c \in Calls, CommandStep(c), SendStep(c),
         pc'[c] = "replied"
  PROVE  Abstract!Next
<1> DEFINE u == req[c].user   x == req[c].change   i == loc[c].cid
<1>1. /\ HandlerStep(c) /\ req[c].kind = "sendChanges" /\ u \in Names /\ x \in Payloads
      /\ Registered(u)
  <2>1. HandlerStep(c) /\ req[c].kind = "sendChanges" /\ Registered(u)
    BY HandlerOf DEF CommandStep, OneAtATime
  <2> QED
    BY <2>1 DEF OneAtATime, Base, Types, TypeOK, Dispatched, Request, NoRequest
<1>2. /\ pc \in [Calls -> Labels] /\ req' = req /\ id \in Nat
      /\ \A d \in Calls \ {c} : Untouched(d) /\ ~ Handled(d) /\ ~ Handled(d)'
      /\ users = [n \in DOMAIN users |-> users[n]]
      /\ changes = [j \in DOMAIN changes |-> changes[j]]
  BY <1>1, CommandAlone
<1>3. OwnWrite(c)
  BY <1>2
  DEF SendStep, PpsStep, PpsCheck, PpsZero, PpsOne, PpsKey, ChangeIdGet, ChangeIdSet,
      ChangeIdReget, LogChange, OwnCompare, OwnRead, Goto
<1>4. /\ pc[c] = "own_write" /\ UNCHANGED <<users, changes>> /\ loc' = loc
  BY <1>3 DEF OwnWrite
<1>5. /\ i \in DOMAIN changes /\ DOMAIN userChanges' = DOMAIN userChanges
      /\ \A n \in DOMAIN userChanges :
           OwnIds(n)' = IF n = u THEN OwnIds(n) \cup {i} ELSE OwnIds(n)
  BY <1>3, OwnWriteLists, SerialAttempts DEF OneAtATime
<1>6. \A n \in DOMAIN users : n \in DOMAIN userChanges
  BY <1>2, <1>4 DEF OneAtATime, Steady, Listed, Handled, HandlerPcs, LoginPcs
<1>7. /\ Hidden(c) = {} /\ Hidden(c)' = {} /\ Unrecorded(c) = {i} /\ Unrecorded(c)' = {}
  BY <1>2, <1>4 DEF Hidden, Unrecorded, Registering, Recording
<1>8. DOMAIN changes = 1..id /\ i = id
  <2>1. \A d \in Calls : ~ Numbering(d)
    BY <1>2, <1>4 DEF Numbering, Handled, HandlerPcs, SendPcs, ChangeIdPcs
  <2> QED
    BY <1>4, <2>1 DEF OneAtATime, Steady, Numbered, Recording
<1>9. changes[i] = x
  BY <1>4 DEF OneAtATime, Heard, Chronicle, Recording
<1> DEFINE I == DOMAIN changes \ {i}
<1>10. /\ MembersBar' = MembersBar /\ MembersBar = users
       /\ LogBar = [j \in I |-> changes[j]] /\ LogBar' = changes
       /\ OwnBar = [n \in DOMAIN users |-> OwnIds(n)]
       /\ OwnBar' = [n \in DOMAIN users |-> OwnIds(n)']
  <2>1. /\ DOMAIN users \ Hidden(c) = DOMAIN users
        /\ DOMAIN users' \ Hidden(c)' = DOMAIN users
        /\ DOMAIN changes \ Unrecorded(c) = I
        /\ DOMAIN changes' \ Unrecorded(c)' = DOMAIN changes
    BY <1>4, <1>7
  <2>2. /\ MembersBar = [n \in DOMAIN users \ Hidden(c) |-> users[n]]
        /\ MembersBar' = [n \in DOMAIN users' \ Hidden(c)' |-> users'[n]]
        /\ LogBar = [j \in DOMAIN changes \ Unrecorded(c) |-> changes[j]]
        /\ LogBar' = [j \in DOMAIN changes' \ Unrecorded(c)' |-> changes'[j]]
        /\ OwnBar = [n \in DOMAIN users \ Hidden(c) |-> OwnIds(n)]
        /\ OwnBar' = [n \in DOMAIN users' \ Hidden(c)' |-> OwnIds(n)']
    BY <1>2, OneHides
  <2> HIDE DEF I
  <2> QED
    BY <1>2, <1>4, <2>1, <2>2
<1> HIDE DEF u, x, i
<1>11. I = 1..id - 1 /\ Cardinality(I) + 1 = i /\ DOMAIN LogBar = I
  <2>1. I = 1..id - 1
    BY <1>2, <1>5, <1>8
  <2>2. id >= 1
    BY <1>2, <1>5, <1>8
  <2>3. Cardinality(1..id - 1) = id - 1
    BY <1>2, <2>2, FS_Interval
  <2> HIDE DEF I
  <2>4. Cardinality(I) = id - 1
    BY <2>1, <2>3
  <2>5. DOMAIN LogBar = I
    BY <1>10
  <2> QED
    BY <1>2, <1>8, <2>1, <2>4, <2>5
<1>12. LogBar' = Abstract!With(LogBar, i, x)
  <2>1. DOMAIN changes = I \cup {i}
    BY <1>5
  <2> HIDE DEF I
  <2>2. Abstract!With(LogBar, i, x) = [j \in I \cup {i} |-> IF j = i THEN x ELSE LogBar[j]]
    BY <1>11 DEF Abstract!With
  <2>3. \A j \in I \cup {i} : (IF j = i THEN x ELSE LogBar[j]) = changes[j]
    BY <1>9, <1>10
  <2>4. changes = [j \in I \cup {i} |-> changes[j]]
    BY <1>2, <2>1
  <2> QED
    BY <1>10, <2>2, <2>3, <2>4
<1>13. OwnBar' = [OwnBar EXCEPT ![u] = @ \cup {i}]
  BY <1>1, <1>5, <1>6, <1>10 DEF Registered
<1>14. AnswerBar'[c] = Abstract!Logged(u, x, i)
  BY <1>1, <1>2, <1>4 DEF AnswerBar, Log!Logged, Abstract!Logged, u, x, i
<1>15. Abstract!Give(c, Abstract!Logged(u, x, i))
  BY <1>2, <1>4, <1>14, Gives
<1>16. u \in DOMAIN MembersBar
  BY <1>1, <1>10 DEF Registered
<1>17. Abstract!Publish(c, u, x)
  BY <1>10, <1>11, <1>12, <1>13, <1>15, <1>16, SameSize DEF Abstract!Publish
<1> QED
  BY <1>1, <1>17 DEF Abstract!Next

(* The routes that do nothing are answered.                                *)
LEMMA AcknowledgeMaps ==
  ASSUME OneAtATime, Base', NEW c \in Calls, CommandStep(c),
         Deinitialize(c) \/ SendUserNames(c)
  PROVE  Abstract!Next
<1>1. /\ HandlerStep(c) /\ req[c].kind \in {"deinitializeCall", "sendUserNames"}
      /\ UNCHANGED <<users, changes, userChanges>>
  BY HandlerOf DEF CommandStep, OneAtATime, Deinitialize, SendUserNames, ReadOnly, store
<1>2. req' = req /\ pc \in [Calls -> Labels] /\ \A d \in Calls \ {c} : Untouched(d)
  BY <1>1, CommandAlone
<1>3. pc'[c] = "replied" /\ pc[c] \in {"deinitialize", "names"}
  BY <1>2 DEF Deinitialize, SendUserNames, Goto
<1>4. UNCHANGED <<MembersBar, LogBar, OwnBar>>
  BY <1>1, <1>3, ReadMaps DEF Registering, Recording
<1>5. AnswerBar'[c] = Abstract!Done
  BY <1>1, <1>2, <1>3 DEF AnswerBar, Log!Done, Abstract!Done
<1>6. Abstract!Give(c, Abstract!Done)
  BY <1>2, <1>3, <1>5, Gives
<1> QED
  BY <1>4, <1>6 DEF Abstract!Acknowledge, Abstract!Next

(* What the pages do is a stutter of the log, except that an answer is     *)
(* collected.                                                              *)
LEMMA OutsideBars ==
  ASSUME Types, OutsideStep
  PROVE  UNCHANGED <<MembersBar, LogBar, OwnBar>>
<1>1. UNCHANGED <<users, changes, userChanges>>
  BY DEF OutsideStep, store
<1>2. \A d \in Calls : /\ Registering(d)' <=> Registering(d)
                       /\ Registering(d) => req'[d] = req[d]
                       /\ Recording(d)' <=> Recording(d)
                       /\ Recording(d) => loc'[d] = loc[d]
  BY DEF OutsideStep, Untouched, Beginnings, Handled, HandlerPcs, LoginPcs, SendPcs,
         Registering, Recording
<1>3. MembersBar' = MembersBar
  BY <1>1, <1>2 DEF MembersBar
<1>4. LogBar' = LogBar
  BY <1>1, <1>2 DEF LogBar
<1>5. OwnBar' = OwnBar
  BY <1>1, <1>3 DEF OwnBar, OwnIds
<1> QED
  BY <1>3, <1>4, <1>5

(* A page takes an answer: it is collected.                                 *)
LEMMA CallbackMaps ==
  ASSUME Base, NEW c \in Calls, Callback(c), OutsideStep
  PROVE  Abstract!Next
<1>1. Free(c) /\ pc[c] \in Answered
  BY DEF Callback, LoginDone, HeartbeatDone, SendChangesDone, AnswerIgnored, Answer
<1>2. pc \in [Calls -> Labels] /\ req \in [Calls -> Request] /\ loc \in [Calls -> Locals]
  BY DEF Base, Types, TypeOK
<1>3. pc'[c] = "idle" /\ \A d \in Calls \ {c} : Untouched(d)
  BY <1>1, <1>2 DEF Free, Goto, Untouched
<1>4. pc[c] # "failed" /\ (pc[c] = "replied" => req[c].kind \in Kinds)
  BY <1>2 DEF Base, Served, CallServed, Types, TypeOK, Dispatched, Request
<1>5. AnswerBar[c] # Abstract!NoAnswer
  BY <1>1, <1>4
  DEF AnswerBar, Answered, Kinds, Log!Refused, Log!Welcome, Log!News, Log!Logged, Log!Done,
      Abstract!NoAnswer
<1>6. AnswerBar' = [AnswerBar EXCEPT ![c] = Abstract!NoAnswer]
  <2>1. AnswerBar'[c] = Abstract!NoAnswer
    BY <1>3, NoAnswerYet
  <2>2. \A d \in Calls \ {c} : AnswerBar'[d] = AnswerBar[d]
    BY <1>3, SameAnswer
  <2>3. /\ AnswerBar = [d \in Calls |-> AnswerBar[d]]
        /\ AnswerBar' = [d \in Calls |-> AnswerBar'[d]]
    BY DEF AnswerBar
  <2> QED
    BY <2>1, <2>2, <2>3
<1>7. Abstract!Collect(c)
  BY <1>5, <1>6, OutsideBars DEF Abstract!Collect, Base
<1> QED
  BY <1>7 DEF Abstract!Next

(* Sending a request and accepting it shows nowhere.                        *)
LEMMA OtherOutsideMaps ==
  ASSUME Types, OutsideStep,
         \A d \in Calls : Untouched(d) \/ (pc[d] \in {"idle", "queued"} /\ pc'[d] \in Beginnings)
  PROVE  UNCHANGED (Abstract!vars)
<1>1. \A d \in Calls : AnswerBar'[d] = AnswerBar[d]
  BY SameAnswer, NoAnswerYet DEF Beginnings
<1>2. /\ AnswerBar = [d \in Calls |-> AnswerBar[d]]
      /\ AnswerBar' = [d \in Calls |-> AnswerBar'[d]]
  BY DEF AnswerBar
<1>3. AnswerBar' = AnswerBar
  BY <1>1, <1>2
<1> QED
  BY <1>3, OutsideBars DEF Abstract!vars

(* Every step is one of the log or changes nothing of it.                  *)
LEMMA NextMaps ==
  OneAtATime /\ Base' /\ [Next]_vars => [Abstract!Next]_(Abstract!vars)
<1> SUFFICES ASSUME OneAtATime, Base', [Next]_vars
             PROVE  Abstract!Next \/ UNCHANGED (Abstract!vars)
  OBVIOUS
<1>1. /\ Base /\ Types /\ starts' = 0
      /\ pc \in [Calls -> Labels] /\ req \in [Calls -> Request] /\ loc \in [Calls -> Locals]
  BY DEF OneAtATime, Base, Types, TypeOK
<1>2. CASE UNCHANGED vars
  BY <1>1, <1>2, OtherOutsideMaps DEF vars, server, OutsideStep, Untouched
<1>3. ASSUME NEW g \in Guests, NEW c \in Calls, PageRequest(g, c)
      PROVE  UNCHANGED (Abstract!vars)
  <2>1. OutsideStep
    BY <1>1, <1>3, RequestOutside
  <2>2. CASE SendGiveUp(g, c)
    BY <1>1, <2>1, <2>2, OtherOutsideMaps DEF SendGiveUp, server, Untouched
  <2>3. CASE ~ SendGiveUp(g, c)
    <3>1. PICK k \in Calls : /\ pc[k] = "idle" /\ pc' = [pc EXCEPT ![k] = "queued"]
                             /\ \E r : req' = [req EXCEPT ![k] = r]
                             /\ loc' = loc
      BY <1>3, <2>3
      DEF PageRequest, LoginAsGuest, HeartbeatTimer, SendChangesTimer, SendTimeout,
          LogOut, GetUserNames, Issue, Goto
    <3>2. /\ pc[k] = "idle" /\ pc'[k] = "queued" /\ \A d \in Calls \ {k} : Untouched(d)
      BY <1>1, <3>1 DEF Untouched
    <3> QED
      BY <1>1, <2>1, <3>2, OtherOutsideMaps DEF Beginnings
  <2> QED
    BY <2>2, <2>3
<1>4. ASSUME NEW c \in Calls, Callback(c) PROVE Abstract!Next
  <2>1. Free(c) /\ pc[c] \in Answered
    BY <1>4
    DEF Callback, LoginDone, HeartbeatDone, SendChangesDone, AnswerIgnored, Answer
  <2>2. ~ Handled(c)
    BY <2>1, PcsDisjoint DEF Handled, HandlerPcs, Answered
  <2>3. OutsideStep
    BY <1>1, <2>1, <2>2 DEF Free, Goto, OutsideStep, Untouched, Beginnings
  <2> QED
    BY <1>1, <1>4, <2>3, CallbackMaps
<1>5. ASSUME NEW c \in Calls, Accept(c), UNCHANGED <<owner, page>>
      PROVE  UNCHANGED (Abstract!vars)
  <2>1. pc[c] = "queued" /\ UNCHANGED <<store, req, loc, starts>>
        /\ \A d \in Calls \ {c} : Untouched(d)
    BY <1>1, <1>5 DEF Accept, Goto, Untouched
  <2>2. pc'[c] \in Beginnings
    BY <1>1, <1>5 DEF Accept, Goto, Entry, Beginnings, Types, TypeOK, Dispatched, Request, Kinds
  <2>3. OutsideStep
    BY <2>1, <2>2, PcsDisjoint DEF OutsideStep, Handled, HandlerPcs
  <2> QED
    BY <1>1, <2>1, <2>2, <2>3, OtherOutsideMaps
<1>6. ASSUME NEW c \in Calls, CommandStep(c)
      PROVE  Abstract!Next \/ UNCHANGED (Abstract!vars)
  <2>1. CASE pc'[c] \notin {"replied", "invalid"}
    BY <1>6, <2>1, QuietMaps
  <2>2. CASE pc'[c] \in {"replied", "invalid"} /\ LoginStep(c)
    BY <1>6, <2>2, LoginMaps
  <2>3. CASE pc'[c] = "replied" /\ HeartbeatStep(c)
    BY <1>6, <2>3, HeartbeatMaps
  <2>4. CASE pc'[c] = "replied" /\ SendStep(c)
    BY <1>6, <2>4, PublishMaps
  <2>5. CASE Deinitialize(c) \/ SendUserNames(c)
    BY <1>6, <2>5, AcknowledgeMaps
  <2>6. HeartbeatStep(c) \/ SendStep(c) => pc'[c] # "invalid"
    BY <1>1
    DEF HeartbeatStep, HeartbeatCount, HeartbeatKeys, HeartbeatPosition, Position,
        HeartbeatChanges, HeartbeatOwn, HeartbeatFetch, SendStep, PpsStep, PpsCheck,
        PpsZero, PpsOne, PpsKey, ChangeIdGet, ChangeIdSet, ChangeIdReget, LogChange,
        OwnCompare, OwnRead, OwnWrite, Goto
  <2> QED
    BY <1>6, <2>1, <2>2, <2>3, <2>4, <2>5, <2>6 DEF CommandStep, HandlerStep
<1>7. ~ Startup
  BY <1>1 DEF Startup, Types, TypeOK
<1> QED
  BY <1>2, <1>3, <1>4, <1>5, <1>6, <1>7 DEF Next, ServerStep, CommandStep

(* So it holds always, of one server process.                               *)
LEMMA SteadyAlways ==
  ASSUME Workers = 1
  PROVE  Spec => [](starts = 0 => Steady)
<1>1. Init => Steady
  <2> SUFFICES ASSUME Init PROVE Steady
    OBVIOUS
  <2>1. /\ DOMAIN users = {} /\ DOMAIN changes = {} /\ id = 0
        /\ \A c \in Calls : pc[c] = "idle" /\ req[c] = NoRequest /\ loc[c] = NoLocals
    BY DEF Init, ServerInit, StoreEmpty, EmptyHash
  <2>2. Numbered
    <3>1. 1..id = {}
      BY <2>1
    <3> QED
      BY <2>1, <3>1 DEF Numbered, Numbering, Recording
  <2> QED
    BY <2>1, <2>2
    DEF Steady, LoginSteady, HeartbeatSteady, HeartbeatPcs, Registering, NoRequest, NoLocals
<1>2. Types /\ Served /\ (Types /\ Served)' /\ (starts = 0 => Serial)
      /\ (starts = 0 => Registry) /\ (starts = 0 => Dense)
      /\ (starts = 0 => Authorship) /\ (starts = 0 => Heard)
      /\ (starts = 0 => Steady) /\ [Next]_vars
        => (starts = 0 => Steady)'
  BY StepBase, NextSteady DEF Base
<1> QED
  BY <1>1, <1>2, BaseAlways, SerialAlways, RegistryAlways, DenseAlways,
     AuthorshipAlways, HeardAlways, PTL DEF Spec, OneWorker

(* With one worker, as under app.run(), and one server process, the pages  *)
(* cannot tell the handlers' commands from requests that take effect at    *)
(* once, on a registry of names and a log that only grows.                 *)
THEOREM RequestsAreAtomic ==
  ASSUME Workers = 1, MaxStarts = 0
  PROVE  Spec => ImplementsSharedLog
<1>1. Init => Abstract!Init
  <2> SUFFICES ASSUME Init PROVE Abstract!Init
    OBVIOUS
  <2>1. /\ DOMAIN users = {} /\ DOMAIN changes = {}
        /\ \A c \in Calls : pc[c] = "idle"
    BY DEF Init, ServerInit, StoreEmpty, EmptyHash
  <2>2. MembersBar = [n \in {} |-> 0]
    BY <2>1 DEF MembersBar
  <2>3. LogBar = [i \in {} |-> 0]
    BY <2>1 DEF LogBar
  <2>4. OwnBar = [n \in {} |-> {}]
    BY <2>2 DEF OwnBar
  <2>5. AnswerBar = [c \in Calls |-> Abstract!NoAnswer]
    <3>1. \A c \in Calls : AnswerBar[c] = Abstract!NoAnswer
      BY <2>1, NoAnswerYet
    <3>2. AnswerBar = [c \in Calls |-> AnswerBar[c]]
      BY DEF AnswerBar
    <3> QED
      BY <3>1, <3>2
  <2> QED
    BY <2>2, <2>3, <2>4, <2>5 DEF Abstract!Init
<1>2. Types /\ Served /\ (Types /\ Served)' /\ starts = 0 /\ (starts = 0)'
      /\ (starts = 0 => Serial) /\ (starts = 0 => Registry) /\ (starts = 0 => Dense)
      /\ (starts = 0 => Authorship) /\ (starts = 0 => Heard) /\ (starts = 0 => Steady)
      /\ [Next]_vars => [Abstract!Next]_(Abstract!vars)
  BY NextMaps DEF OneAtATime, Base
<1> QED
  BY <1>1, <1>2, BaseAlways, OneProcess, SerialAlways, RegistryAlways, DenseAlways,
     AuthorshipAlways, HeardAlways, SteadyAlways, PTL
  DEF Spec, OneWorker, ImplementsSharedLog, Abstract!Spec
=============================================================================
