---------------------------- MODULE SessionSafety ----------------------------
(***************************************************************************)
(* Safety of module Session, for every value of its constants.             *)
(***************************************************************************)
EXTENDS SessionProofs

-----------------------------------------------------------------------------
(***************************************************************************)
(* No handler raises while no server process starts up: hashes only grow,  *)
(* a guest is registered before it is told so, and only a guest that was   *)
(* told so sends anything but a login.                                     *)
(***************************************************************************)
Registered(n) == n \in DOMAIN users /\ n \in DOMAIN userChanges

(* What a call may rely on at each label.                                  *)
CallServed(c) ==
  /\ pc[c] # "failed"
  /\ owner[c] # None => req[c].user = NameOf[owner[c]]
  /\ req[c].kind \in Kinds \ {"login"} => Registered(req[c].user)
  /\ pc[c] \in {"login_get", "add_changes"} => req[c].user \in DOMAIN users
  /\ pc[c] \in {"login_count", "login_keys", "login_position", "replied"}
       => Registered(req[c].user)
  /\ pc[c] \in {"hb_own", "hb_fetch"} => loc[c].ids \subseteq DOMAIN changes

Served ==
  starts = 0 => /\ \A c \in Calls : CallServed(c)
                /\ \A g \in joined : Registered(NameOf[g])

StoreGrows ==
  /\ DOMAIN users \subseteq DOMAIN users'
  /\ DOMAIN userChanges \subseteq DOMAIN userChanges'
  /\ DOMAIN changes \subseteq DOMAIN changes'

(* What a handler's step leaves alone, and that it only adds to hashes.    *)
LEMMA HandlerFrame ==
  ASSUME Types, NEW c \in Calls, HandlerStep(c)
  PROVE  /\ req' = req /\ starts' = starts /\ StoreGrows
         /\ \A d \in Calls \ {c} : pc'[d] = pc[d] /\ loc'[d] = loc[d]
<1>1. pc \in [Calls -> Labels] /\ loc \in [Calls -> Locals]
  BY DEF Types, TypeOK
<1>2. CASE LoginStep(c)
  BY <1>1, <1>2
  DEF LoginStep, LoginIndex, LoginTaken, AddLen, AddUser, AddChanges, LoginCount,
      LoginKeys, LoginPosition, Position, Goto, ReadOnly, store, StoreGrows, HSet
<1>3. CASE HeartbeatStep(c)
  BY <1>1, <1>3
  DEF HeartbeatStep, HeartbeatCount, HeartbeatKeys, HeartbeatPosition,
      HeartbeatChanges, HeartbeatOwn, HeartbeatFetch, Position, Goto, ReadOnly,
      store, StoreGrows
<1>4. CASE SendStep(c)
  BY <1>1, <1>4
  DEF SendStep, PpsStep, PpsCheck, PpsZero, PpsOne, PpsKey, ChangeIdGet, ChangeIdSet,
      ChangeIdReget, LogChange, OwnCompare, OwnRead, OwnWrite, Goto, ReadOnly,
      store, StoreGrows, HSet
<1>5. CASE Deinitialize(c) \/ SendUserNames(c)
  BY <1>1, <1>5 DEF Deinitialize, SendUserNames, Goto, ReadOnly, store, StoreGrows
<1> QED
  BY <1>2, <1>3, <1>4, <1>5 DEF HandlerStep

(* A call no step is made for.                                             *)
LEMMA OtherServed ==
  ASSUME NEW d \in Calls, CallServed(d), StoreGrows,
         pc'[d] = pc[d], req'[d] = req[d], loc'[d] = loc[d],
         owner'[d] \in {owner[d], None}
  PROVE  CallServed(d)'
BY DEF CallServed, Registered, StoreGrows

(* The steps of the three handlers that can raise.                         *)
LEMMA LoginServed ==
  ASSUME Types, NEW c \in Calls, CallServed(c), LoginStep(c), UNCHANGED owner
  PROVE  CallServed(c)'
<1>1. pc \in [Calls -> Labels]
  BY DEF Types, TypeOK
<1>2. req' = req /\ StoreGrows
  BY HandlerFrame DEF HandlerStep
<1>3. req[c].kind = "login"
  BY DEF Types, TypeOK, Dispatched, LoginPcs, LoginStep, LoginIndex, LoginTaken,
         AddLen, AddUser, AddChanges, LoginCount, LoginKeys, LoginPosition
<1>4. CASE LoginIndex(c)
  BY <1>1, <1>2, <1>3, <1>4 DEF LoginIndex, Goto, ReadOnly, store, CallServed
<1>5. CASE LoginTaken(c)
  BY <1>1, <1>2, <1>3, <1>5 DEF LoginTaken, Goto, CallServed
<1>6. CASE AddLen(c)
  BY <1>1, <1>2, <1>3, <1>6 DEF AddLen, Goto, CallServed
<1>7. CASE AddUser(c)
  BY <1>1, <1>2, <1>3, <1>7 DEF AddUser, Goto, CallServed, HSet
<1>8. CASE AddChanges(c)
  BY <1>1, <1>2, <1>3, <1>8 DEF AddChanges, Goto, CallServed, Registered, HSet
<1>9. CASE LoginCount(c) \/ LoginKeys(c) \/ LoginPosition(c)
  BY <1>1, <1>2, <1>3, <1>9
  DEF LoginCount, LoginKeys, LoginPosition, Position, Goto, ReadOnly, store,
      CallServed, Registered
<1> QED
  BY <1>4, <1>5, <1>6, <1>7, <1>8, <1>9 DEF LoginStep

(* heartbeat() reads only fields that are there.                           *)
LEMMA HeartbeatServed ==
  ASSUME Types, NEW c \in Calls, CallServed(c), HeartbeatStep(c), UNCHANGED owner
  PROVE  CallServed(c)'
<1>1. pc \in [Calls -> Labels] /\ loc \in [Calls -> Locals]
  BY DEF Types, TypeOK
<1>2. req' = req /\ UNCHANGED store
  BY DEF HeartbeatStep, HeartbeatCount, HeartbeatKeys, HeartbeatPosition,
         HeartbeatChanges, HeartbeatOwn, HeartbeatFetch, ReadOnly
<1>3. req[c].kind = "heartbeat" /\ Registered(req[c].user)
  BY DEF Types, TypeOK, Dispatched, HeartbeatPcs, HeartbeatStep, HeartbeatCount,
         HeartbeatKeys, HeartbeatPosition, HeartbeatChanges, HeartbeatOwn,
         HeartbeatFetch, CallServed, Kinds
<1>4. CASE HeartbeatCount(c) \/ HeartbeatKeys(c) \/ HeartbeatPosition(c)
  BY <1>1, <1>2, <1>3, <1>4
  DEF HeartbeatCount, HeartbeatKeys, HeartbeatPosition, Position, Goto,
      CallServed, Registered, store
<1>5. CASE HeartbeatChanges(c)
  BY <1>1, <1>2, <1>3, <1>5 DEF HeartbeatChanges, Goto, CallServed, Registered, store, Locals
<1>6. CASE HeartbeatOwn(c)
  BY <1>1, <1>2, <1>3, <1>6 DEF HeartbeatOwn, Goto, CallServed, Registered, store, Locals
<1>7. CASE HeartbeatFetch(c)
  BY <1>1, <1>2, <1>3, <1>7 DEF HeartbeatFetch, Goto, CallServed, Registered, store, Locals
<1> QED
  BY <1>4, <1>5, <1>6, <1>7 DEF HeartbeatStep

(* insertText() finds its user's list of own changes.                      *)
LEMMA SendServed ==
  ASSUME Types, NEW c \in Calls, CallServed(c), SendStep(c), UNCHANGED owner
  PROVE  CallServed(c)'
<1>1. pc \in [Calls -> Labels]
  BY DEF Types, TypeOK
<1>2. req' = req /\ StoreGrows
  BY HandlerFrame DEF HandlerStep
<1>3. req[c].kind = "sendChanges" /\ Registered(req[c].user)
  BY DEF Types, TypeOK, Dispatched, SendPcs, PpsPcs, ChangeIdPcs, SendStep, PpsStep,
         PpsCheck, PpsZero, PpsOne, PpsKey, ChangeIdGet, ChangeIdSet, ChangeIdReget,
         LogChange, OwnCompare, OwnRead, OwnWrite, CallServed, Kinds
<1>4. pc'[c] \in SendPcs \cup {"replied"}
  BY <1>1, <1>3
  DEF Registered, SendPcs, PpsPcs, ChangeIdPcs, SendStep, PpsStep, PpsCheck, PpsZero,
      PpsOne, PpsKey, ChangeIdGet, ChangeIdSet, ChangeIdReget, LogChange,
      OwnCompare, OwnRead, OwnWrite, Goto
<1> QED
  BY <1>2, <1>3, <1>4
  DEF CallServed, Registered, StoreGrows, SendPcs, PpsPcs, ChangeIdPcs

(* Call k is put on its way with request r of guest g.                     *)
Sent(g, k, r) ==
  /\ pc' = [pc EXCEPT ![k] = "queued"] /\ req' = [req EXCEPT ![k] = r]
  /\ r.kind \in Kinds \ {"login"} => Registered(r.user)
  /\ r.user = NameOf[g] /\ owner'[k] = g
  /\ \A d \in Calls \ {k} : owner'[d] \in {owner[d], None}
  /\ UNCHANGED <<store, loc, starts, joined>>

(* A request that was sent by a registered guest, or is a login.           *)
LEMMA SentServed ==
  ASSUME Types, Served, starts = 0, NEW g \in Guests, NEW k \in Calls, NEW r, Sent(g, k, r)
  PROVE  Served'
<1>1. StoreGrows
  BY DEF Sent, StoreGrows, store
<1>2. CallServed(k)'
  BY DEF Sent, CallServed, Registered, store, Types, TypeOK
<1>3. \A d \in Calls \ {k} : CallServed(d)'
  BY <1>1, OtherServed DEF Sent, Served, Types, TypeOK
<1> QED
  BY <1>2, <1>3 DEF Sent, Served, Registered, store

(* The requests of the pages are such requests.                            *)
LEMMA RequestServed ==
  ASSUME Types, Served, starts = 0, NEW g \in Guests, NEW c \in Calls, PageRequest(g, c)
  PROVE  Served'
<1>1. g \in joined => Registered(NameOf[g])
  BY DEF Served
<1>2. ASSUME NEW kind \in Kinds, NEW x, NEW n, kind = "login" \/ g \in joined,
             Issue(g, c, Body(kind, g, x, n)), UNCHANGED joined
      PROVE  Served'
  <2>1. Sent(g, c, Body(kind, g, x, n))
    BY <1>1, <1>2 DEF Sent, Issue, Goto, Body, Types, TypeOK
  <2> QED
    BY <2>1, SentServed
<1>3. CASE LoginAsGuest(g, c)
  BY <1>2, <1>3 DEF LoginAsGuest, Kinds, page
<1>4. CASE HeartbeatTimer(g, c)
  BY <1>2, <1>4 DEF HeartbeatTimer, Kinds, page
<1>5. ASSUME NEW x \in Payloads, SendChangesTimer(g, c, x)
      PROVE  Served'
  BY <1>2, <1>5 DEF SendChangesTimer, Kinds
<1>6. CASE LogOut(g, c) \/ GetUserNames(g, c)
  BY <1>2, <1>6 DEF LogOut, GetUserNames, Kinds, page
<1>7. ASSUME NEW retry \in Calls, SendTimeout(g, c, retry)
      PROVE  Served'
  <2>1. owner[c] = g /\ req[c].kind = "sendChanges" /\ c # retry
    BY <1>7 DEF SendTimeout, Open, Types, TypeOK, Dispatched, NoRequest
  <2>2. req[c].user = NameOf[g] /\ Registered(req[c].user)
    BY <2>1, GuestsAssumption DEF Served, CallServed, Kinds
  <2>3. Sent(g, retry, req[c])
    BY <1>7, <2>1, <2>2 DEF SendTimeout, Sent, Goto, Types, TypeOK
  <2> QED
    BY <2>3, SentServed
<1>8. CASE SendGiveUp(g, c)
  <2>1. /\ UNCHANGED <<pc, req, loc, starts, joined, store>>
        /\ \A d \in Calls : owner'[d] \in {owner[d], None}
    BY <1>8 DEF SendGiveUp, server, page, Types, TypeOK
  <2>2. StoreGrows
    BY <2>1 DEF StoreGrows, store
  <2>3. \A d \in Calls : CallServed(d)'
    BY <2>1, <2>2, OtherServed DEF Served
  <2> QED
    BY <2>1, <2>3 DEF Served, Registered, store
<1> QED
  BY <1>3, <1>4, <1>5, <1>6, <1>7, <1>8 DEF PageRequest

(* A guest joins when the server has said it is registered.                *)
LEMMA CallbackServed ==
  ASSUME Types, Served, starts = 0, NEW c \in Calls, Callback(c)
  PROVE  Served'
<1>1. Free(c) /\ UNCHANGED <<store, starts>>
  BY DEF Callback, LoginDone, HeartbeatDone, SendChangesDone, AnswerIgnored, Free
<1>2. StoreGrows
  BY <1>1 DEF StoreGrows, store
<1>3. CallServed(c)'
  BY <1>1 DEF Free, Goto, CallServed, NoRequest, Kinds, Types, TypeOK
<1>4. \A d \in Calls \ {c} : CallServed(d)'
  BY <1>1, <1>2, OtherServed DEF Free, Goto, Served, Types, TypeOK
<1>5. \A g \in joined' : Registered(NameOf[g])
  BY DEF Callback, LoginDone, HeartbeatDone, SendChangesDone, AnswerIgnored, Answer,
         page, Served, CallServed
<1> QED
  BY <1>1, <1>3, <1>4, <1>5 DEF Served, Registered, store

(* Server processes are counted, and only Startup starts one.              *)
LEMMA StartsGrow ==
  ASSUME Types, [Next]_vars
  PROVE  /\ starts \in Nat /\ starts' \in Nat /\ starts <= starts'
         /\ starts' # starts => Startup /\ starts' # 0 /\ MaxStarts # 0
<1>1. ASSUME NEW g \in Guests, NEW c \in Calls, PageRequest(g, c) PROVE starts' = starts
  BY <1>1
  DEF PageRequest, LoginAsGuest, HeartbeatTimer, SendChangesTimer, SendTimeout,
      SendGiveUp, LogOut, GetUserNames, Issue, server
<1>2. ASSUME NEW c \in Calls, ServerStep(c) \/ Callback(c) PROVE starts' = starts
  BY <1>2, HandlerFrame
  DEF ServerStep, Accept, Callback, LoginDone, HeartbeatDone, SendChangesDone,
      AnswerIgnored, Free
<1>3. starts \in Nat /\ (Startup => starts' = starts + 1 /\ MaxStarts # 0)
  BY MaxStartsAssumption DEF Startup, Types, TypeOK
<1>4. UNCHANGED vars => starts' = starts
  BY DEF vars, server
<1> QED
  BY <1>1, <1>2, <1>3, <1>4 DEF Next

(* Every step.                                                             *)
LEMMA NextServed == Types /\ Served /\ [Next]_vars => Served'
<1> SUFFICES ASSUME Types, Served, [Next]_vars PROVE Served'
  OBVIOUS
<1>1. CASE UNCHANGED vars
  BY <1>1 DEF vars, server, store, page, Served, CallServed, Registered
<1>2. CASE Startup /\ UNCHANGED <<owner, page>>
  BY <1>2 DEF Startup, Served, Types, TypeOK
<1>3. ASSUME starts = 0, NEW c \in Calls, HandlerStep(c), UNCHANGED <<owner, page>>
      PROVE  Served'
  <2>1. CallServed(c)'
    <3>1. CASE Deinitialize(c) \/ SendUserNames(c)
      BY <1>3, <3>1 
      DEF Deinitialize, SendUserNames, Goto, ReadOnly, store, Served, CallServed,
          Registered, Types, TypeOK, Dispatched, Kinds
    <3> QED
      BY <1>3, <3>1, LoginServed, HeartbeatServed, SendServed DEF HandlerStep, Served
  <2>2. \A d \in Calls \ {c} : CallServed(d)'
    BY <1>3, HandlerFrame, OtherServed DEF Served
  <2> QED
    BY <1>3, <2>1, <2>2, HandlerFrame DEF Served, StoreGrows, Registered, page
<1>4. ASSUME starts = 0, NEW c \in Calls, Accept(c), UNCHANGED <<owner, page>>
      PROVE  Served'
  <2>1. pc'[c] \in {"login_index", "hb_count", "pps_check", "deinitialize", "names"}
    BY <1>4 DEF Accept, Goto, Entry, Types, TypeOK, Dispatched, Request, Kinds
  <2>2. CallServed(c)'
    BY <1>4, <2>1 DEF Accept, Served, CallServed, Registered, store
  <2>3. \A d \in Calls \ {c} : CallServed(d)'
    BY <1>4 DEF Accept, Goto, Served, CallServed, Registered, store
  <2> QED
    BY <1>4, <2>2, <2>3 DEF Accept, Served, Registered, store, page
<1>5. ASSUME starts = 0, NEW g \in Guests, NEW c \in Calls, PageRequest(g, c)
      PROVE  Served'
  BY <1>5, RequestServed
<1>6. ASSUME starts = 0, NEW c \in Calls, Callback(c)
      PROVE  Served'
  BY <1>6, CallbackServed
<1>7. CASE starts # 0
  BY <1>7, StartsGrow DEF Served
<1> QED
  BY <1>1, <1>2, <1>3, <1>4, <1>5, <1>6, <1>7 DEF Next, ServerStep

(* No handler raises while no server process starts up: the fields it reads*)
(* after listing the keys of a hash, or after its guest was registered, are*)
(* there, whatever other requests do in between.                           *)
THEOREM NoServerErrors == Spec => []NoServerError
<1>1. Init => Served
  BY DEF Init, ServerInit, Served, CallServed, NoRequest, Kinds
<1>2. Types /\ Served => NoServerError
  BY DEF Types, TypeOK, Served, CallServed, NoServerError
<1> QED
  BY <1>1, <1>2, InitTypes, NextTypes, NextServed, PTL DEF Spec

-----------------------------------------------------------------------------
(***************************************************************************)
(* One request at a time: the log is append-only.                          *)
(***************************************************************************)
Handled(c) == pc[c] \in HandlerPcs

(* The id a handler is about to log under is above all logged ids.         *)
FreshId(c) ==
  /\ pc[c] = "cid_set" => loc[c].cid = id
  /\ pc[c] \in {"cid_reget", "log_change"} => \A i \in DOMAIN changes : i < id
  /\ pc[c] = "log_change" => loc[c].cid = id

Serial ==
  /\ starts = 0 /\ Workers = 1
  /\ \A c, d \in Calls : Handled(c) /\ Handled(d) => c = d
  /\ \A i \in DOMAIN changes : i <= id
  /\ \A c \in Calls : FreshId(c)

OnlyAdds ==
  \A i \in DOMAIN changes : i \in DOMAIN changes' /\ changes'[i] = changes[i]

(* A step that calls no handler and leaves the store alone.                *)
LEMMA OutsideSerial ==
  ASSUME Serial, NEW c \in Calls, NEW label, ~ (label \in HandlerPcs),
         pc \in [Calls -> Labels], pc' = [pc EXCEPT ![c] = label],
         UNCHANGED <<store, starts>>, \A d \in Calls \ {c} : loc'[d] = loc[d]
  PROVE  Serial' /\ OnlyAdds
<1>1. \A d \in Calls : Handled(d)' => d # c /\ Handled(d)
  BY DEF Handled
<1>2. \A d \in Calls : FreshId(d)'
  BY PcsDisjoint
  DEF Serial, FreshId, store, HandlerPcs, SendPcs, ChangeIdPcs
<1>3. UNCHANGED <<id, changes>>
  BY DEF store
<1> QED
  BY <1>1, <1>2, <1>3 DEF Serial, OnlyAdds

(* The step of the one handler that is running.                            *)
LEMMA HandlerSerial ==
  ASSUME Types, Serial, NEW c \in Calls, HandlerStep(c)
  PROVE  Serial' /\ OnlyAdds
<1>1. pc \in [Calls -> Labels] /\ loc \in [Calls -> Locals] /\ id \in Nat
      /\ DOMAIN changes \subseteq Nat
  BY DEF Types, TypeOK, StoreTypeOK
<1>2. Handled(c)
  BY DEF Handled, HandlerPcs, LoginPcs, HeartbeatPcs, SendPcs, PpsPcs, ChangeIdPcs,
         HandlerStep, LoginStep, LoginIndex, LoginTaken, AddLen, AddUser, AddChanges,
         LoginCount, LoginKeys, LoginPosition, HeartbeatStep, HeartbeatCount,
         HeartbeatKeys, HeartbeatPosition, HeartbeatChanges, HeartbeatOwn,
         HeartbeatFetch, SendStep, PpsStep, PpsCheck, PpsZero, PpsOne, PpsKey,
         ChangeIdGet, ChangeIdSet, ChangeIdReget, LogChange, OwnCompare, OwnRead,
         OwnWrite, Deinitialize, SendUserNames
<1>3. \A d \in Calls \ {c} : ~ Handled(d) /\ ~ Handled(d)'
  BY <1>2, HandlerFrame DEF Serial, Handled
<1>4. \A d \in Calls \ {c} : FreshId(d)'
  BY <1>3 DEF FreshId, Handled, HandlerPcs, SendPcs, ChangeIdPcs
<1>5. starts' = 0 /\ \A d, e \in Calls : Handled(d)' /\ Handled(e)' => d = e
  BY <1>3, HandlerFrame DEF Serial
<1>6. SUFFICES FreshId(c)' /\ OnlyAdds /\ \A i \in DOMAIN changes' : i <= id'
  BY <1>4, <1>5 DEF Serial
<1>7. FreshId(c) /\ \A i \in DOMAIN changes : i <= id
  BY DEF Serial
<1>8. CASE LoginStep(c) \/ HeartbeatStep(c) \/ Deinitialize(c) \/ SendUserNames(c)
  <2>1. UNCHANGED <<id, changes>>
    BY <1>8
    DEF LoginStep, LoginIndex, LoginTaken, AddLen, AddUser, AddChanges, LoginCount,
        LoginKeys, LoginPosition, HeartbeatStep, HeartbeatCount, HeartbeatKeys,
        HeartbeatPosition, HeartbeatChanges, HeartbeatOwn, HeartbeatFetch,
        Deinitialize, SendUserNames, ReadOnly, store
  <2>2. pc'[c] \notin SendPcs
    BY <1>1, <1>8
    DEF LoginStep, LoginIndex, LoginTaken, AddLen, AddUser, AddChanges, LoginCount,
        LoginKeys, LoginPosition, HeartbeatStep, HeartbeatCount, HeartbeatKeys,
        HeartbeatPosition, HeartbeatChanges, HeartbeatOwn, HeartbeatFetch, Position,
        Deinitialize, SendUserNames, Goto, SendPcs, PpsPcs, ChangeIdPcs
  <2> QED
    BY <1>7, <2>1, <2>2 DEF FreshId, OnlyAdds, SendPcs, ChangeIdPcs
<1>9. CASE PpsStep(c) \/ ChangeIdGet(c)
  BY <1>1, <1>7, <1>9
  DEF PpsStep, PpsCheck, PpsZero, PpsOne, PpsKey, ChangeIdGet, Goto, ReadOnly, store,
      FreshId, OnlyAdds, Locals
<1>10. CASE ChangeIdSet(c)
  BY <1>1, <1>7, <1>10 DEF ChangeIdSet, Goto, FreshId, OnlyAdds
<1>11. CASE ChangeIdReget(c)
  BY <1>1, <1>7, <1>11 DEF ChangeIdReget, Goto, ReadOnly, store, FreshId, OnlyAdds, Locals
<1>12. CASE LogChange(c)
  BY <1>1, <1>7, <1>12 DEF LogChange, Goto, FreshId, OnlyAdds, HSet
<1>13. CASE OwnCompare(c) \/ OwnRead(c) \/ OwnWrite(c)
  BY <1>1, <1>7, <1>13
  DEF OwnCompare, OwnRead, OwnWrite, Goto, ReadOnly, store, FreshId, OnlyAdds
<1> QED
  BY <1>8, <1>9, <1>10, <1>11, <1>12, <1>13 DEF HandlerStep, SendStep

(* Every step.                                                             *)
LEMMA NextSerial ==
  ASSUME Workers = 1
  PROVE  Types /\ Serial /\ [Next]_vars /\ starts' = 0 => Serial' /\ [OnlyAdds]_changes
<1> SUFFICES ASSUME Types, Serial, [Next]_vars, starts' = 0
             PROVE  Serial' /\ [OnlyAdds]_changes
  OBVIOUS
<1>1. pc \in [Calls -> Labels]
  BY DEF Types, TypeOK
<1>2. "queued" \notin HandlerPcs /\ "idle" \notin HandlerPcs
  BY PcsDisjoint DEF HandlerPcs
<1>3. ASSUME NEW g \in Guests, NEW c \in Calls, PageRequest(g, c)
      PROVE  Serial' /\ OnlyAdds
  <2>1. CASE SendGiveUp(g, c)
    BY <2>1 DEF SendGiveUp, server, store, Serial, FreshId, Handled, OnlyAdds
  <2>2. CASE ~ SendGiveUp(g, c)
    <3>1. PICK k \in Calls : /\ pc' = [pc EXCEPT ![k] = "queued"]
                             /\ UNCHANGED <<store, loc, starts>>
      BY <1>3, <2>2
      DEF PageRequest, LoginAsGuest, HeartbeatTimer, SendChangesTimer, SendTimeout,
          LogOut, GetUserNames, Issue, Goto
    <3> QED
      BY <1>1, <1>2, <3>1, OutsideSerial
  <2> QED
    BY <2>1, <2>2
<1>4. ASSUME NEW c \in Calls, Callback(c)
      PROVE  Serial' /\ OnlyAdds
  <2>1. Free(c)
    BY <1>4 DEF Callback, LoginDone, HeartbeatDone, SendChangesDone, AnswerIgnored
  <2>2. \A d \in Calls \ {c} : loc'[d] = loc[d]
    BY <2>1 DEF Free, Types, TypeOK
  <2> QED
    BY <1>1, <1>2, <2>1, <2>2, OutsideSerial DEF Free, Goto
<1>5. ASSUME NEW c \in Calls, Accept(c)
      PROVE  Serial' /\ OnlyAdds
  <2>1. \A d \in Calls : ~ Handled(d)
    <3> SUFFICES ASSUME NEW d \in Calls, Handled(d) PROVE FALSE
      OBVIOUS
    <3>1. Busy = {d}
      BY DEF Busy, Serial, Handled
    <3>2. Cardinality(Busy) = 1
      BY <3>1, FS_Singleton
    <3> QED
      BY <1>5, <3>2 DEF Accept
  <2>2. pc'[c] \in {"login_index", "hb_count", "pps_check", "deinitialize", "names"}
    BY <1>5 DEF Accept, Goto, Entry, Types, TypeOK, Dispatched, Request, Kinds
  <2>3. \A d \in Calls \ {c} : pc'[d] = pc[d]
    BY <1>1, <1>5 DEF Accept, Goto
  <2>4. UNCHANGED <<id, changes, loc, starts>>
    BY <1>5 DEF Accept, store
  <2> QED
    BY <2>1, <2>2, <2>3, <2>4 DEF Serial, Handled, FreshId, OnlyAdds
<1>6. ~ Startup
  BY DEF Startup, Serial, Types, TypeOK
<1>7. CASE UNCHANGED vars
  BY <1>7 DEF vars, server, store, Serial, FreshId, Handled
<1>8. ASSUME NEW c \in Calls, ServerStep(c)
      PROVE  Serial' /\ OnlyAdds
  BY <1>5, <1>8, HandlerSerial DEF ServerStep
<1> QED
  BY <1>3, <1>4, <1>6, <1>7, <1>8 DEF Next, vars, server, store

(* One worker and no restart: a logged change is never replaced or removed,*)
(* get_change_id's read, write and second read notwithstanding.            *)
THEOREM SerialLogAppendOnly ==
  ASSUME Workers = 1, MaxStarts = 0
  PROVE  Spec => LogAppendOnly
<1>1. Init => Serial
  BY PcsDisjoint
  DEF Init, ServerInit, StoreEmpty, EmptyHash, Serial, Handled, FreshId, HandlerPcs
<1>2. [OnlyAdds]_changes =>
        [\A i \in DOMAIN changes : i \in DOMAIN changes' /\ changes'[i] = changes[i]]_changes
  BY DEF OnlyAdds
<1>3. Types /\ Serial /\ [Next]_vars => Serial' /\ [OnlyAdds]_changes
  BY NextSerial, StartsGrow DEF Serial
<1> QED
  BY <1>1, <1>2, <1>3, InitTypes, NextTypes, PTL DEF Spec, LogAppendOnly
=============================================================================
