---------------------------- MODULE SessionProofs ----------------------------
(***************************************************************************)
(* Type correctness of module Session, for every value of its constants.   *)
(* TypeOK is inductive together with the finiteness of the hashes, which   *)
(* makes the cardinalities the handlers take numbers.                      *)
(***************************************************************************)
EXTENDS Session, TLAPS, FiniteSetTheorems

FiniteHashes ==
  /\ IsFiniteSet(DOMAIN users)
  /\ \A c \in Calls : IsFiniteSet(loc[c].got)

Types == TypeOK /\ FiniteHashes

(* Assigning one local variable of a handler.                              *)
LEMMA LocalFields ==
  ASSUME NEW l \in Locals
  PROVE  /\ \A v \in Nat : [l EXCEPT !.n = v] \in Locals /\ [l EXCEPT !.n = v].got = l.got
         /\ \A v \in Int : [l EXCEPT !.pos = v] \in Locals /\ [l EXCEPT !.pos = v].got = l.got
         /\ \A v \in SUBSET Nat : [l EXCEPT !.ids = v] \in Locals /\ [l EXCEPT !.ids = v].got = l.got
         /\ \A v \in Nat : [l EXCEPT !.cid = v] \in Locals /\ [l EXCEPT !.cid = v].got = l.got
         /\ \A v \in BOOLEAN : [l EXCEPT !.bare = v] \in Locals /\ [l EXCEPT !.bare = v].got = l.got
         /\ \A v \in Seq(Nat) : [l EXCEPT !.own = v] \in Locals /\ [l EXCEPT !.own = v].got = l.got
         /\ \A v \in SUBSET Nat, w \in SUBSET (Nat \X Payloads) :
              [l EXCEPT !.ids = v, !.got = w] \in Locals
BY DEF Locals

(* The labels the handler of call c may go to.                             *)
Follows(c, label) ==
  \/ pc[c] \in LoginPcs /\ label \in LoginPcs \cup {"invalid"}
  \/ pc[c] \in HeartbeatPcs /\ label \in HeartbeatPcs
  \/ pc[c] \in SendPcs /\ label \in SendPcs
  \/ pc[c] # "idle" /\ label \in {"replied", "failed"}

(* A label belongs to one handler only.                                    *)
LEMMA PcsDisjoint ==
  /\ "idle" \notin HandlerPcs \cup Answered \cup {"queued"}
  /\ LoginPcs \cap HeartbeatPcs = {}
  /\ LoginPcs \cap SendPcs = {}
  /\ HeartbeatPcs \cap SendPcs = {}
  /\ {"queued", "replied", "failed", "invalid", "deinitialize", "names"}
       \cap (LoginPcs \cup HeartbeatPcs \cup SendPcs) = {}
BY DEF LoginPcs, HeartbeatPcs, SendPcs, PpsPcs, ChangeIdPcs, HandlerPcs, Answered

(* A step of a handler, from what it assigns.                              *)
LEMMA HandlerTypes ==
  ASSUME Types, NEW c \in Calls, NEW label, Goto(c, label), Follows(c, label),
         NEW l \in Locals, loc' = [loc EXCEPT ![c] = l], IsFiniteSet(l.got),
         StoreTypeOK', IsFiniteSet(DOMAIN users'),
         UNCHANGED <<req, starts, owner, page>>
  PROVE  Types'
<1>1. label \in Labels /\ label # "idle" /\ pc[c] # "idle"
  BY PcsDisjoint DEF Follows, Labels, HandlerPcs, Answered
<1>2. pc' \in [Calls -> Labels]
  BY <1>1 DEF Types, TypeOK, Goto
<1>3. \A d \in Calls : Dispatched(d)'
  <2> SUFFICES ASSUME NEW d \in Calls PROVE Dispatched(d)'
    OBVIOUS
  <2>1. CASE d = c
    <3>1. pc'[c] = label /\ Dispatched(c)
      BY DEF Types, TypeOK, Goto
    <3> QED
      BY <1>1, <2>1, <3>1, PcsDisjoint DEF Dispatched, Follows
  <2>2. CASE d # c
    BY <2>2 DEF Types, TypeOK, Goto, Dispatched
  <2> QED
    BY <2>1, <2>2
<1>4. loc' \in [Calls -> Locals]
  BY DEF Types, TypeOK
<1>5. FiniteHashes'
  BY DEF Types, TypeOK, FiniteHashes
<1> QED
  BY <1>2, <1>3, <1>4, <1>5 DEF Types, TypeOK, page

(* A step that only reads.                                                 *)
LEMMA ReaderTypes ==
  ASSUME Types, NEW c \in Calls, NEW label, Goto(c, label), Follows(c, label),
         NEW l \in Locals, loc' = [loc EXCEPT ![c] = l], IsFiniteSet(l.got),
         ReadOnly, UNCHANGED <<owner, page>>
  PROVE  Types'
<1>1. StoreTypeOK' /\ IsFiniteSet(DOMAIN users')
  BY DEF Types, TypeOK, FiniteHashes, ReadOnly, store, StoreTypeOK
<1> QED
  BY <1>1, HandlerTypes DEF ReadOnly

(* POST /login. *)
LEMMA LoginStepTypes ==
  ASSUME Types, NEW c \in Calls, LoginStep(c), UNCHANGED <<owner, page>>
  PROVE  Types'
<1>1. loc \in [Calls -> Locals] /\ loc[c] \in Locals /\ IsFiniteSet(loc[c].got)
  BY DEF Types, TypeOK, FiniteHashes
<1>2. loc = [loc EXCEPT ![c] = loc[c]]
  BY <1>1
<1>3. Count \in Nat
  BY FS_CardinalityType DEF FiniteHashes, Count, Types
<1>0. StoreTypeOK /\ IsFiniteSet(DOMAIN users)
  BY DEF Types, TypeOK, FiniteHashes
<1>4. CASE LoginIndex(c)
  BY <1>1, <1>2, <1>4, ReaderTypes DEF LoginIndex, Follows, LoginPcs
<1>5. CASE LoginTaken(c)
  BY <1>1, <1>2, <1>5, ReaderTypes DEF LoginTaken, Follows, LoginPcs
<1>6. CASE AddLen(c)
  <2> DEFINE l == [loc[c] EXCEPT !.n = Count]
  <2>1. l \in Locals /\ l.got = loc[c].got
    BY <1>1, <1>3, LocalFields
  <2>2. loc' = [loc EXCEPT ![c] = l]
    BY <1>6 DEF AddLen
  <2> HIDE DEF l
  <2> QED
    BY <1>1, <1>6, <2>1, <2>2, ReaderTypes DEF AddLen, Follows, LoginPcs
<1>7. CASE AddUser(c)
  <2>1. StoreTypeOK' /\ IsFiniteSet(DOMAIN users')
    <3>1. /\ users \in [DOMAIN users -> Nat] /\ DOMAIN users \subseteq Names
          /\ IsFiniteSet(DOMAIN users)
          /\ req[c].user \in Names /\ loc[c].n \in Nat
      BY <1>1, <1>7 DEF Types, TypeOK, StoreTypeOK, FiniteHashes, Dispatched,
                        Request, NoRequest, AddUser, LoginPcs, Locals
    <3>2. users' = HSet(users, req[c].user, loc[c].n)
      BY <1>7 DEF AddUser
    <3>3. /\ users' \in [DOMAIN users' -> Nat]
          /\ DOMAIN users' = DOMAIN users \cup {req[c].user}
      BY <3>1, <3>2 DEF HSet
    <3>4. IsFiniteSet(DOMAIN users')
      BY <3>1, <3>3, FS_AddElement
    <3> QED
      BY <1>0, <1>7, <3>1, <3>3, <3>4 DEF StoreTypeOK, AddUser
  <2> QED
    BY <1>1, <1>2, <1>7, <2>1, HandlerTypes DEF AddUser, Follows, LoginPcs
<1>8. CASE AddChanges(c)
  <2>1. StoreTypeOK' /\ IsFiniteSet(DOMAIN users')
    <3>1. /\ userChanges \in [DOMAIN userChanges -> Seq(Nat)]
          /\ DOMAIN userChanges \subseteq Names
          /\ req[c].user \in Names /\ << >> \in Seq(Nat)
      BY <1>8 DEF Types, TypeOK, StoreTypeOK, Dispatched, Request, NoRequest,
                  AddChanges, LoginPcs
    <3>2. userChanges' = HSet(userChanges, req[c].user, << >>)
      BY <1>8 DEF AddChanges
    <3>3. /\ userChanges' \in [DOMAIN userChanges' -> Seq(Nat)]
          /\ DOMAIN userChanges' = DOMAIN userChanges \cup {req[c].user}
      BY <3>1, <3>2 DEF HSet
    <3> QED
      BY <1>0, <1>8, <3>1, <3>3 DEF StoreTypeOK, AddChanges
  <2> QED
    BY <1>1, <1>2, <1>8, <2>1, HandlerTypes DEF AddChanges, Follows, LoginPcs
<1>9. CASE LoginCount(c)
  <2> DEFINE l == [loc[c] EXCEPT !.n = Count]
  <2>1. l \in Locals /\ l.got = loc[c].got
    BY <1>1, <1>3, LocalFields
  <2>2. loc' = [loc EXCEPT ![c] = l]
    BY <1>9 DEF LoginCount
  <2> HIDE DEF l
  <2> QED
    BY <1>1, <1>9, <2>1, <2>2, ReaderTypes DEF LoginCount, Follows, LoginPcs
<1>10. CASE LoginKeys(c)
  BY <1>1, <1>2, <1>10, ReaderTypes DEF LoginKeys, Follows, LoginPcs
<1>11. CASE LoginPosition(c)
  <2>1. CASE req[c].user \in DOMAIN users
    <3> DEFINE l == [loc[c] EXCEPT !.pos = users[req[c].user]]
    <3>1. users[req[c].user] \in Int
      BY <2>1 DEF Types, TypeOK, StoreTypeOK
    <3>2. l \in Locals /\ l.got = loc[c].got
      BY <1>1, <3>1, LocalFields
    <3>3. loc' = [loc EXCEPT ![c] = l]
      BY <1>11, <2>1 DEF LoginPosition, Position
    <3> HIDE DEF l
    <3> QED
      BY <1>1, <1>11, <2>1, <3>2, <3>3, ReaderTypes DEF LoginPosition, Position, Follows, LoginPcs
  <2>2. CASE req[c].user \notin DOMAIN users
    BY <1>1, <1>2, <1>11, <2>2, ReaderTypes DEF LoginPosition, Position, Follows, LoginPcs
  <2> QED
    BY <2>1, <2>2
<1> QED
  BY <1>4, <1>5, <1>6, <1>7, <1>8, <1>9, <1>10, <1>11 DEF LoginStep

(* POST /heartbeat. *)
LEMMA HeartbeatStepTypes ==
  ASSUME Types, NEW c \in Calls, HeartbeatStep(c), UNCHANGED <<owner, page>>
  PROVE  Types'
<1>1. loc \in [Calls -> Locals] /\ loc[c] \in Locals /\ IsFiniteSet(loc[c].got)
  BY DEF Types, TypeOK, FiniteHashes
<1>2. loc = [loc EXCEPT ![c] = loc[c]]
  BY <1>1
<1>3. Count \in Nat
  BY FS_CardinalityType DEF FiniteHashes, Count, Types
<1>4. CASE HeartbeatCount(c)
  <2> DEFINE l == [loc[c] EXCEPT !.n = Count]
  <2>1. l \in Locals /\ l.got = loc[c].got
    BY <1>1, <1>3, LocalFields
  <2>2. loc' = [loc EXCEPT ![c] = l]
    BY <1>4 DEF HeartbeatCount
  <2> HIDE DEF l
  <2> QED
    BY <1>1, <1>4, <2>1, <2>2, ReaderTypes DEF HeartbeatCount, Follows, HeartbeatPcs
<1>5. CASE HeartbeatKeys(c)
  BY <1>1, <1>2, <1>5, ReaderTypes DEF HeartbeatKeys, Follows, HeartbeatPcs
<1>6. CASE HeartbeatPosition(c)
  <2>1. CASE req[c].user \in DOMAIN users
    <3> DEFINE l == [loc[c] EXCEPT !.pos = users[req[c].user]]
    <3>1. users[req[c].user] \in Int
      BY <2>1 DEF Types, TypeOK, StoreTypeOK
    <3>2. l \in Locals /\ l.got = loc[c].got
      BY <1>1, <3>1, LocalFields
    <3>3. loc' = [loc EXCEPT ![c] = l]
      BY <1>6, <2>1 DEF HeartbeatPosition, Position
    <3> HIDE DEF l
    <3> QED
      BY <1>1, <1>6, <2>1, <3>2, <3>3, ReaderTypes DEF HeartbeatPosition, Position, Follows, HeartbeatPcs
  <2>2. CASE req[c].user \notin DOMAIN users
    BY <1>1, <1>2, <1>6, <2>2, ReaderTypes DEF HeartbeatPosition, Position, Follows, HeartbeatPcs
  <2> QED
    BY <2>1, <2>2
<1>7. CASE HeartbeatChanges(c)
  <2> DEFINE l == [loc[c] EXCEPT !.ids = {i \in DOMAIN changes : i > req[c].last}]
  <2>1. l \in Locals /\ l.got = loc[c].got
    BY <1>1, LocalFields DEF Types, TypeOK, StoreTypeOK
  <2>2. loc' = [loc EXCEPT ![c] = l]
    BY <1>7 DEF HeartbeatChanges
  <2> HIDE DEF l
  <2> QED
    BY <1>1, <1>7, <2>1, <2>2, ReaderTypes DEF HeartbeatChanges, Follows, HeartbeatPcs
<1>8. CASE HeartbeatOwn(c)
  <2>1. CASE req[c].user \in DOMAIN userChanges
    <3> DEFINE foreign == loc[c].ids \ OwnIds(req[c].user)
               l == [loc[c] EXCEPT !.ids = foreign]
    <3>1. foreign \in SUBSET Nat
      BY <1>1 DEF Locals
    <3>2. l \in Locals /\ l.got = loc[c].got
      BY <1>1, <3>1, LocalFields
    <3>3. loc' = [loc EXCEPT ![c] = l]
      BY <1>8, <2>1 DEF HeartbeatOwn
    <3> HIDE DEF l
    <3> QED
      BY <1>1, <1>8, <2>1, <3>2, <3>3, ReaderTypes DEF HeartbeatOwn, Follows, HeartbeatPcs
  <2>2. CASE req[c].user \notin DOMAIN userChanges
    BY <1>1, <1>2, <1>8, <2>2, ReaderTypes DEF HeartbeatOwn, Follows, HeartbeatPcs
  <2> QED
    BY <2>1, <2>2
<1>9. CASE HeartbeatFetch(c)
  <2>1. PICK i \in loc[c].ids :
          \/ /\ i \in DOMAIN changes
             /\ loc' = [loc EXCEPT ![c] =
                  [loc[c] EXCEPT !.ids = loc[c].ids \ {i},
                                 !.got = loc[c].got \cup {<<i, changes[i]>>}]]
             /\ Goto(c, IF loc[c].ids = {i} THEN "replied" ELSE "hb_fetch")
          \/ i \notin DOMAIN changes /\ Goto(c, "failed") /\ UNCHANGED loc
    BY <1>9 DEF HeartbeatFetch
  <2>2. CASE i \in DOMAIN changes
    <3> DEFINE l == [loc[c] EXCEPT !.ids = loc[c].ids \ {i},
                                   !.got = loc[c].got \cup {<<i, changes[i]>>}]
    <3>1. changes[i] \in Payloads /\ i \in Nat
      BY <2>2 DEF Types, TypeOK, StoreTypeOK
    <3>2. /\ loc[c].ids \ {i} \in SUBSET Nat
          /\ loc[c].got \cup {<<i, changes[i]>>} \in SUBSET (Nat \X Payloads)
      BY <1>1, <3>1 DEF Locals
    <3>3. l \in Locals
      BY <1>1, <3>2, LocalFields
    <3>4. IsFiniteSet(l.got)
      BY <1>1, FS_AddElement DEF Locals
    <3>5. loc' = [loc EXCEPT ![c] = l]
      BY <2>1, <2>2
    <3> HIDE DEF l
    <3> QED
      BY <1>9, <2>1, <2>2, <3>3, <3>4, <3>5, ReaderTypes
      DEF HeartbeatFetch, Follows, HeartbeatPcs
  <2>3. CASE i \notin DOMAIN changes
    BY <1>1, <1>2, <1>9, <2>1, <2>3, ReaderTypes DEF HeartbeatFetch, Follows, HeartbeatPcs
  <2> QED
    BY <2>2, <2>3
<1> QED
  BY <1>4, <1>5, <1>6, <1>7, <1>8, <1>9 DEF HeartbeatStep

(* The id list of a user stays a list of ids, glued or not.                *)
LEMMA AppendIdType ==
  ASSUME NEW own \in Seq(Nat), NEW i \in Nat, NEW bare \in BOOLEAN
  PROVE  AppendId(own, i, bare) \in Seq(Nat)
<1>1. CASE bare /\ own # << >>
  <2>1. Len(own) \in 1..Len(own) /\ own[Len(own)] \in Nat
    BY <1>1
  <2>2. Glue(own[Len(own)], i) \in Nat
    BY SMTT(30), <2>1 DEF Glue
  <2> QED
    BY <1>1, <2>1, <2>2 DEF AppendId
<1>2. CASE ~(bare /\ own # << >>)
  BY <1>2 DEF AppendId
<1> QED
  BY <1>1, <1>2

(* POST /sendChanges. *)
LEMMA SendStepTypes ==
  ASSUME Types, NEW c \in Calls, SendStep(c), UNCHANGED <<owner, page>>
  PROVE  Types'
<1>1. loc \in [Calls -> Locals] /\ loc[c] \in Locals /\ IsFiniteSet(loc[c].got)
  BY DEF Types, TypeOK, FiniteHashes
<1>2. loc = [loc EXCEPT ![c] = loc[c]]
  BY <1>1
<1>3. StoreTypeOK /\ IsFiniteSet(DOMAIN users)
  BY DEF Types, TypeOK, FiniteHashes
<1>4. CASE PpsCheck(c)
  BY <1>1, <1>2, <1>4, ReaderTypes DEF PpsCheck, Follows, SendPcs, PpsPcs, ChangeIdPcs
<1>5. CASE PpsZero(c)
  <2>1. StoreTypeOK' /\ IsFiniteSet(DOMAIN users')
    BY <1>3, <1>5 DEF StoreTypeOK, PpsZero
  <2> QED
    BY <1>1, <1>2, <1>5, <2>1, HandlerTypes DEF PpsZero, Follows, SendPcs, PpsPcs, ChangeIdPcs
<1>6. CASE PpsOne(c)
  <2>1. StoreTypeOK' /\ IsFiniteSet(DOMAIN users')
    BY <1>3, <1>6 DEF StoreTypeOK, PpsOne
  <2> QED
    BY <1>1, <1>2, <1>6, <2>1, HandlerTypes DEF PpsOne, Follows, SendPcs, PpsPcs, ChangeIdPcs
<1>7. CASE PpsKey(c)
  <2>1. StoreTypeOK' /\ IsFiniteSet(DOMAIN users')
    BY <1>3, <1>7 DEF StoreTypeOK, PpsKey
  <2> QED
    BY <1>1, <1>2, <1>7, <2>1, HandlerTypes DEF PpsKey, Follows, SendPcs, PpsPcs, ChangeIdPcs
<1>8. CASE ChangeIdGet(c)
  <2> DEFINE l == [loc[c] EXCEPT !.cid = id]
  <2>1. l \in Locals /\ l.got = loc[c].got
    BY <1>1, <1>3, LocalFields DEF StoreTypeOK
  <2>2. loc' = [loc EXCEPT ![c] = l]
    BY <1>8 DEF ChangeIdGet
  <2> HIDE DEF l
  <2> QED
    BY <1>1, <1>8, <2>1, <2>2, ReaderTypes DEF ChangeIdGet, Follows, SendPcs, PpsPcs, ChangeIdPcs
<1>9. CASE ChangeIdSet(c)
  <2>1. StoreTypeOK' /\ IsFiniteSet(DOMAIN users')
    <3>1. loc[c].cid \in Nat
      BY <1>1 DEF Locals
    <3> QED
      BY <1>3, <1>9, <3>1 DEF StoreTypeOK, ChangeIdSet
  <2> QED
    BY <1>1, <1>2, <1>9, <2>1, HandlerTypes DEF ChangeIdSet, Follows, SendPcs, PpsPcs, ChangeIdPcs
<1>10. CASE ChangeIdReget(c)
  <2> DEFINE l == [loc[c] EXCEPT !.cid = id]
  <2>1. l \in Locals /\ l.got = loc[c].got
    BY <1>1, <1>3, LocalFields DEF StoreTypeOK
  <2>2. loc' = [loc EXCEPT ![c] = l]
    BY <1>10 DEF ChangeIdReget
  <2> HIDE DEF l
  <2> QED
    BY <1>1, <1>10, <2>1, <2>2, ReaderTypes DEF ChangeIdReget, Follows, SendPcs, PpsPcs, ChangeIdPcs
<1>11. CASE LogChange(c)
  <2>1. StoreTypeOK' /\ IsFiniteSet(DOMAIN users')
    <3>1. loc[c].cid \in Nat /\ req[c].change \in Payloads
      BY <1>1, <1>11 DEF Types, TypeOK, Dispatched, Locals, LogChange, SendPcs
    <3>2. changes' = HSet(changes, loc[c].cid, req[c].change)
      BY <1>11 DEF LogChange
    <3>3. /\ changes' \in [DOMAIN changes' -> Payloads]
          /\ DOMAIN changes' = DOMAIN changes \cup {loc[c].cid}
      BY <1>3, <3>1, <3>2 DEF HSet, StoreTypeOK
    <3> QED
      BY <1>3, <1>11, <3>1, <3>3 DEF StoreTypeOK, LogChange
  <2> QED
    BY <1>1, <1>2, <1>11, <2>1, HandlerTypes DEF LogChange, Follows, SendPcs, PpsPcs, ChangeIdPcs
<1>12. CASE OwnCompare(c)
  <2>1. CASE req[c].user \in DOMAIN userChanges
    <3> DEFINE l == [loc[c] EXCEPT !.bare = (userChanges[req[c].user] = << >>)]
    <3>1. l \in Locals /\ l.got = loc[c].got
      BY <1>1, LocalFields
    <3>2. loc' = [loc EXCEPT ![c] = l]
      BY <1>12, <2>1 DEF OwnCompare
    <3> HIDE DEF l
    <3> QED
      BY <1>1, <1>12, <2>1, <3>1, <3>2, ReaderTypes
      DEF OwnCompare, Follows, SendPcs
  <2>2. CASE req[c].user \notin DOMAIN userChanges
    BY <1>1, <1>2, <1>12, <2>2, ReaderTypes DEF OwnCompare, Follows, SendPcs
  <2> QED
    BY <2>1, <2>2
<1>13. CASE OwnRead(c)
  <2>1. CASE req[c].user \in DOMAIN userChanges
    <3> DEFINE l == [loc[c] EXCEPT !.own = userChanges[req[c].user]]
    <3>1. userChanges[req[c].user] \in Seq(Nat)
      BY <1>3, <2>1 DEF StoreTypeOK
    <3>2. l \in Locals /\ l.got = loc[c].got
      BY <1>1, <3>1, LocalFields
    <3>3. loc' = [loc EXCEPT ![c] = l]
      BY <1>13, <2>1 DEF OwnRead
    <3> HIDE DEF l
    <3> QED
      BY <1>1, <1>13, <2>1, <3>2, <3>3, ReaderTypes
      DEF OwnRead, Follows, SendPcs
  <2>2. CASE req[c].user \notin DOMAIN userChanges
    BY <1>1, <1>2, <1>13, <2>2, ReaderTypes DEF OwnRead, Follows, SendPcs
  <2> QED
    BY <2>1, <2>2
<1>14. CASE OwnWrite(c)
  <2>1. StoreTypeOK' /\ IsFiniteSet(DOMAIN users')
    <3> DEFINE ids == AppendId(loc[c].own, loc[c].cid, loc[c].bare)
    <3>1. ids \in Seq(Nat)
      BY <1>1, AppendIdType DEF Locals
    <3>2. req[c].user \in Names
      BY <1>14 DEF Types, TypeOK, Dispatched, Request, NoRequest, OwnWrite, SendPcs
    <3>3. userChanges' = HSet(userChanges, req[c].user, ids)
      BY <1>14 DEF OwnWrite
    <3> HIDE DEF ids
    <3>4. /\ userChanges' \in [DOMAIN userChanges' -> Seq(Nat)]
          /\ DOMAIN userChanges' = DOMAIN userChanges \cup {req[c].user}
      BY <1>3, <3>1, <3>3 DEF HSet, StoreTypeOK
    <3> QED
      BY <1>3, <1>14, <3>2, <3>4 DEF StoreTypeOK, OwnWrite
  <2> QED
    BY <1>1, <1>2, <1>14, <2>1, HandlerTypes DEF OwnWrite, Follows, SendPcs, PpsPcs, ChangeIdPcs
<1> QED
  BY <1>4, <1>5, <1>6, <1>7, <1>8, <1>9, <1>10, <1>11, <1>12, <1>13, <1>14 DEF SendStep, PpsStep

(* Any handler. *)
LEMMA HandlerStepTypes ==
  ASSUME Types, NEW c \in Calls, HandlerStep(c), UNCHANGED <<owner, page>>
  PROVE  Types'
<1>1. loc \in [Calls -> Locals] /\ loc[c] \in Locals /\ IsFiniteSet(loc[c].got)
  BY DEF Types, TypeOK, FiniteHashes
<1>2. loc = [loc EXCEPT ![c] = loc[c]]
  BY <1>1
<1>3. CASE Deinitialize(c)
  BY <1>1, <1>2, <1>3, ReaderTypes DEF Deinitialize, Follows
<1>4. CASE SendUserNames(c)
  BY <1>1, <1>2, <1>4, ReaderTypes DEF SendUserNames, Follows
<1> QED
  BY <1>3, <1>4, LoginStepTypes, HeartbeatStepTypes, SendStepTypes DEF HandlerStep

(* Taking a call into use, and giving it back.                             *)
LEMMA CallTypes ==
  ASSUME Types, NEW c \in Calls, NEW label \in {"idle", "queued"},
         NEW r \in Request, NEW l \in Locals, IsFiniteSet(l.got),
         label = "idle" <=> r = NoRequest,
         r.kind = "sendChanges" => r.change \in Payloads,
         pc' = [pc EXCEPT ![c] = label], req' = [req EXCEPT ![c] = r],
         loc' = [loc EXCEPT ![c] = l], UNCHANGED <<store, starts>>
  PROVE  /\ StoreTypeOK' /\ starts' \in Nat
         /\ pc' \in [Calls -> Labels]
         /\ req' \in [Calls -> Request]
         /\ loc' \in [Calls -> Locals]
         /\ \A d \in Calls : Dispatched(d)'
         /\ FiniteHashes'
<1>1. /\ pc \in [Calls -> Labels]
      /\ req \in [Calls -> Request]
      /\ loc \in [Calls -> Locals]
      /\ \A d \in Calls : Dispatched(d)
      /\ StoreTypeOK /\ starts \in Nat
      /\ FiniteHashes
  BY DEF Types, TypeOK
<1>2. label \in Labels
  BY DEF Labels
<1>3. \A d \in Calls : Dispatched(d)'
  <2> SUFFICES ASSUME NEW d \in Calls PROVE Dispatched(d)'
    OBVIOUS
  <2>1. CASE d = c
    <3>1. pc'[c] = label /\ req'[c] = r
      BY <1>1
    <3>2. label \notin LoginPcs \cup HeartbeatPcs \cup SendPcs
                        \cup {"invalid", "deinitialize", "names"}
      BY PcsDisjoint DEF HandlerPcs, Answered
    <3> QED
      BY <2>1, <3>1, <3>2 DEF Dispatched
  <2>2. CASE d # c
    BY <1>1, <2>2 DEF Dispatched
  <2> QED
    BY <2>1, <2>2
<1>4. StoreTypeOK'
  BY <1>1 DEF StoreTypeOK, store
<1>5. FiniteHashes'
  BY <1>1 DEF FiniteHashes, store
<1> QED
  BY <1>1, <1>2, <1>3, <1>4, <1>5

(* A request leaves a page.                                               *)
LEMMA IssueTypes ==
  ASSUME Types, NEW g \in Guests, NEW c \in Calls, NEW r \in Request,
         r # NoRequest, r.kind = "sendChanges" => r.change \in Payloads,
         Issue(g, c, r)
  PROVE  /\ StoreTypeOK' /\ starts' \in Nat
         /\ pc' \in [Calls -> Labels]
         /\ req' \in [Calls -> Request]
         /\ loc' \in [Calls -> Locals]
         /\ \A d \in Calls : Dispatched(d)'
         /\ owner' \in [Calls -> Guests \cup {None}]
         /\ FiniteHashes'
<1>1. loc[c] \in Locals /\ IsFiniteSet(loc[c].got) /\ loc = [loc EXCEPT ![c] = loc[c]]
  BY DEF Types, TypeOK, FiniteHashes
<1>2. owner' \in [Calls -> Guests \cup {None}]
  BY DEF Types, TypeOK, Issue
<1>3. /\ pc' = [pc EXCEPT ![c] = "queued"] /\ req' = [req EXCEPT ![c] = r]
      /\ loc' = [loc EXCEPT ![c] = loc[c]] /\ UNCHANGED <<store, starts>>
  BY <1>1 DEF Issue, Goto
<1> QED
  BY <1>1, <1>2, <1>3, CallTypes

(* The body of a request is a request.                                     *)
LEMMA BodyType ==
  ASSUME NEW kind \in Kinds, NEW g \in Guests, NEW x \in Payloads \cup {None}, NEW k \in Int
  PROVE  /\ Body(kind, g, x, k) \in Request
         /\ Body(kind, g, x, k) # NoRequest
         /\ Body(kind, g, x, k).kind = kind
         /\ Body(kind, g, x, k).change = x
<1>1. NameOf[g] \in Names
  BY GuestsAssumption
<1>2. Body(kind, g, x, k)
        \in [kind: Kinds, user: Names, change: Payloads \cup {None}, last: Int]
  BY <1>1 DEF Body
<1>3. Body(kind, g, x, k) # NoRequest
  BY DEF Body, Kinds, NoRequest
<1> QED
  BY <1>2, <1>3 DEF Request, Body

(* The types of the pages' variables.                                      *)
PageTypes ==
  /\ joined \subseteq Guests
  /\ unacked \subseteq Guests
  /\ last \in [Guests -> Int]
  /\ author \in [DOMAIN author -> Guests] /\ DOMAIN author \subseteq Payloads
  /\ tries \in [Payloads -> Nat]
  /\ applied \in [Guests -> [Payloads -> 0..AppliedCap]]

(* Timers, buttons and the error callback of a page.                       *)
LEMMA PageRequestTypes ==
  ASSUME Types, NEW g \in Guests, NEW c \in Calls, PageRequest(g, c)
  PROVE  Types'
<1>1. PageTypes /\ last[g] \in Int /\ req \in [Calls -> Request]
  BY DEF Types, TypeOK, PageTypes
<1>2. AppliedCap' = AppliedCap
  BY DEF AppliedCap
<1>3. /\ Body("login", g, None, -1).kind = "login" /\ Body("login", g, None, -1) \in Request \ {NoRequest}
      /\ Body("deinitializeCall", g, None, -1).kind = "deinitializeCall"
      /\ Body("deinitializeCall", g, None, -1) \in Request \ {NoRequest}
      /\ Body("sendUserNames", g, None, -1).kind = "sendUserNames"
      /\ Body("sendUserNames", g, None, -1) \in Request \ {NoRequest}
  BY BodyType DEF Kinds
<1>4. CASE LoginAsGuest(g, c)
  BY <1>1, <1>3, <1>4, IssueTypes DEF LoginAsGuest, Types, TypeOK, PageTypes, page
<1>5. CASE HeartbeatTimer(g, c)
  <2> DEFINE r == Body("heartbeat", g, None, last[g])
  <2>1. r \in Request /\ r # NoRequest /\ r.kind = "heartbeat"
    BY <1>1, BodyType DEF Kinds
  <2>2. Issue(g, c, r) /\ UNCHANGED page
    BY <1>5 DEF HeartbeatTimer
  <2> HIDE DEF r
  <2> QED
    BY <1>1, <2>1, <2>2, IssueTypes DEF Types, TypeOK, PageTypes, page
<1>6. ASSUME NEW x \in Payloads, SendChangesTimer(g, c, x)
      PROVE  Types'
  <2> DEFINE r == Body("sendChanges", g, x, -1)
  <2>1. r \in Request /\ r # NoRequest /\ r.change = x
    BY BodyType DEF Kinds
  <2>2. Issue(g, c, r) /\ UNCHANGED <<joined, last, tries, applied>>
    BY <1>6 DEF SendChangesTimer
  <2>3. unacked' \subseteq Guests
    BY <1>1, <1>6 DEF SendChangesTimer, PageTypes
  <2>4. /\ author' \in [DOMAIN author' -> Guests] /\ DOMAIN author' \subseteq Payloads
    BY <1>1, <1>6 DEF SendChangesTimer, PageTypes, HSet
  <2> HIDE DEF r
  <2> QED
    BY <1>1, <2>1, <2>2, <2>3, <2>4, IssueTypes DEF Types, TypeOK, PageTypes
<1>7. ASSUME NEW retry \in Calls, SendTimeout(g, c, retry)
      PROVE  Types'
  <2>1. /\ req[c] \in Request /\ req[c].kind = "sendChanges"
        /\ req[c] # NoRequest /\ req[c].change \in Payloads
    BY <1>1, <1>7 DEF SendTimeout, Open, NoRequest, Types, TypeOK, Dispatched
  <2>2. /\ loc[retry] \in Locals /\ IsFiniteSet(loc[retry].got)
        /\ loc = [loc EXCEPT ![retry] = loc[retry]]
    BY DEF Types, TypeOK, FiniteHashes
  <2>3. /\ pc' = [pc EXCEPT ![retry] = "queued"]
        /\ req' = [req EXCEPT ![retry] = req[c]]
        /\ loc' = [loc EXCEPT ![retry] = loc[retry]]
        /\ UNCHANGED <<store, starts, joined, unacked, last, author, applied>>
    BY <1>7, <2>2 DEF SendTimeout, Goto
  <2>4. owner' \in [Calls -> Guests \cup {None}]
    BY <1>7 DEF SendTimeout, Types, TypeOK
  <2>5. tries' \in [Payloads -> Nat]
    BY <1>1, <1>7, <2>1 DEF SendTimeout, PageTypes
  <2> QED
    BY <1>1, <2>1, <2>2, <2>3, <2>4, <2>5, CallTypes DEF Types, TypeOK, PageTypes
<1>8. CASE SendGiveUp(g, c)
  <2>1. owner' \in [Calls -> Guests \cup {None}]
    BY <1>8 DEF SendGiveUp, Types, TypeOK
  <2> QED
    BY <1>8, <2>1
    DEF SendGiveUp, server, page, store, Types, TypeOK, StoreTypeOK, FiniteHashes, Dispatched
<1>9. CASE LogOut(g, c)
  BY <1>1, <1>3, <1>9, IssueTypes DEF LogOut, Types, TypeOK, PageTypes, page
<1>10. CASE GetUserNames(g, c)
  BY <1>1, <1>3, <1>10, IssueTypes DEF GetUserNames, Types, TypeOK, PageTypes, page
<1> QED
  BY <1>4, <1>5, <1>6, <1>7, <1>8, <1>9, <1>10 DEF PageRequest

(* An answered call is given back.                                         *)
LEMMA FreeTypes ==
  ASSUME Types, NEW c \in Calls, Free(c)
  PROVE  /\ StoreTypeOK' /\ starts' \in Nat
         /\ pc' \in [Calls -> Labels]
         /\ req' \in [Calls -> Request]
         /\ loc' \in [Calls -> Locals]
         /\ \A d \in Calls : Dispatched(d)'
         /\ owner' \in [Calls -> Guests \cup {None}]
         /\ FiniteHashes'
<1>1. NoLocals \in Locals /\ IsFiniteSet(NoLocals.got)
  BY FS_EmptySet DEF NoLocals, Locals
<1>2. NoRequest \in Request /\ NoRequest.kind # "sendChanges"
  BY DEF NoRequest, Request
<1>3. owner' \in [Calls -> Guests \cup {None}]
  BY DEF Types, TypeOK, Free
<1>4. /\ pc' = [pc EXCEPT ![c] = "idle"] /\ req' = [req EXCEPT ![c] = NoRequest]
      /\ loc' = [loc EXCEPT ![c] = NoLocals] /\ UNCHANGED <<store, starts>>
  BY DEF Free, Goto
<1> QED
  BY <1>1, <1>2, <1>3, <1>4, CallTypes

(* The callbacks of a page.                                                *)
LEMMA CallbackTypes ==
  ASSUME Types, NEW c \in Calls, Callback(c)
  PROVE  Types'
<1>1. PageTypes /\ owner[c] \in Guests \cup {None} /\ loc[c] \in Locals
      /\ IsFiniteSet(loc[c].got)
  BY DEF Types, TypeOK, PageTypes, FiniteHashes
<1>2. AppliedCap' = AppliedCap
  BY DEF AppliedCap
<1>3. CASE LoginDone(c)
  <2>1. owner[c] \in Guests
    BY <1>1, <1>3 DEF LoginDone, Answer
  <2>2. joined' \subseteq Guests /\ last' \in [Guests -> Int]
    BY <1>1, <1>3, <2>1 DEF LoginDone, PageTypes
  <2> QED
    BY <1>1, <1>3, <2>2, FreeTypes DEF LoginDone, Types, TypeOK, PageTypes
<1>4. CASE HeartbeatDone(c)
  <2> DEFINE got == loc[c].got
             seen == {last[owner[c]]} \cup {u[1] : u \in got}
  <2>1. owner[c] \in Guests
    BY <1>1, <1>4 DEF HeartbeatDone, Answer
  <2>2. seen \subseteq Int
    BY <1>1, <2>1 DEF PageTypes, Locals
  <2>3. CASE pc[c] = "replied"
    <3>1. PICK m \in seen : last' = [last EXCEPT ![owner[c]] = m]
      BY <1>4, <2>3 DEF HeartbeatDone
    <3>2. last' \in [Guests -> Int]
      BY <1>1, <2>1, <2>2, <3>1 DEF PageTypes
    <3>3. AppliedCap \in Nat
      BY LimitsAssumption DEF AppliedCap
    <3>4. ASSUME NEW x \in Payloads
          PROVE  AtMost(applied[owner[c]][x] + Copies(got, x), AppliedCap) \in 0..AppliedCap
      <4>1. applied[owner[c]][x] \in 0..AppliedCap
        BY <1>1, <2>1 DEF PageTypes
      <4>2. Copies(got, x) \in Nat
        <5>1. IsFiniteSet({u \in got : u[2] = x})
          BY <1>1, FS_Subset
        <5> QED
          BY <5>1, FS_CardinalityType DEF Copies
      <4> HIDE DEF got
      <4> QED
        BY <3>3, <4>1, <4>2 DEF AtMost
    <3>5. applied' = [applied EXCEPT ![owner[c]] =
             [x \in Payloads |-> AtMost(applied[owner[c]][x] + Copies(got, x), AppliedCap)]]
      BY <1>4, <2>3 DEF HeartbeatDone
    <3>6. applied' \in [Guests -> [Payloads -> 0..AppliedCap]]
      BY <1>1, <2>1, <3>4, <3>5 DEF PageTypes
    <3> QED
      BY <1>1, <1>2, <1>4, <3>2, <3>6, FreeTypes DEF HeartbeatDone, Types, TypeOK, PageTypes
  <2>4. CASE pc[c] # "replied"
    BY <1>1, <1>2, <1>4, <2>4, FreeTypes DEF HeartbeatDone, Types, TypeOK, PageTypes
  <2> QED
    BY <2>3, <2>4
<1>5. CASE SendChangesDone(c)
  <2>1. unacked' \subseteq Guests
    BY <1>1, <1>5 DEF SendChangesDone, PageTypes
  <2> QED
    BY <1>1, <1>2, <1>5, <2>1, FreeTypes DEF SendChangesDone, Types, TypeOK, PageTypes
<1>6. CASE AnswerIgnored(c)
  BY <1>1, <1>2, <1>6, FreeTypes DEF AnswerIgnored, page, Types, TypeOK, PageTypes
<1> QED
  BY <1>3, <1>4, <1>5, <1>6 DEF Callback

(* A worker takes a request.                                               *)
LEMMA AcceptTypes ==
  ASSUME Types, NEW c \in Calls, Accept(c), UNCHANGED <<owner, page>>
  PROVE  Types'
<1>1. req[c].kind \in Kinds
  BY DEF Accept, Types, TypeOK, Dispatched, Request
<1>2. pc' = [pc EXCEPT ![c] = Entry[req[c].kind]] /\ UNCHANGED <<store, req, loc, starts>>
  BY DEF Accept, Goto
<1>3. /\ Entry[req[c].kind] \in HandlerPcs
      /\ req[c].kind = "login" => Entry[req[c].kind] = "login_index"
      /\ req[c].kind = "heartbeat" => Entry[req[c].kind] = "hb_count"
      /\ req[c].kind = "sendChanges" => Entry[req[c].kind] = "pps_check"
      /\ req[c].kind = "deinitializeCall" => Entry[req[c].kind] = "deinitialize"
      /\ req[c].kind = "sendUserNames" => Entry[req[c].kind] = "names"
  BY <1>1 DEF Kinds, Entry, HandlerPcs, LoginPcs, HeartbeatPcs, SendPcs, PpsPcs
<1>4. pc' \in [Calls -> Labels]
  BY <1>2, <1>3 DEF Types, TypeOK, Labels
<1>5. \A d \in Calls : Dispatched(d)'
  <2> SUFFICES ASSUME NEW d \in Calls PROVE Dispatched(d)'
    OBVIOUS
  <2>1. CASE d = c
    <3>1. pc'[c] = Entry[req[c].kind] /\ req' = req /\ pc[c] = "queued" /\ Dispatched(c)
      BY <1>2 DEF Types, TypeOK, Accept
    <3> HIDE DEF Entry
    <3>2. pc'[c] \in {"login_index", "hb_count", "pps_check", "deinitialize", "names"}
      BY <1>1, <1>3, <3>1 DEF Kinds
    <3> QED
      BY <1>1, <1>3, <2>1, <3>1, <3>2
      DEF Dispatched, Kinds, LoginPcs, HeartbeatPcs, SendPcs, PpsPcs, ChangeIdPcs
  <2>2. CASE d # c
    BY <1>2, <2>2 DEF Types, TypeOK, Dispatched
  <2> QED
    BY <2>1, <2>2
<1>6. StoreTypeOK' /\ FiniteHashes'
  BY <1>2 DEF Types, TypeOK, StoreTypeOK, FiniteHashes, store
<1> QED
  BY <1>2, <1>4, <1>5, <1>6 DEF Types, TypeOK, page

(* The empty hash has every type a hash here has.                          *)
LEMMA EmptyStoreType ==
  /\ EmptyHash \in [DOMAIN EmptyHash -> Nat] /\ DOMAIN EmptyHash = {}
  /\ EmptyHash \in [DOMAIN EmptyHash -> Payloads]
  /\ EmptyHash \in [DOMAIN EmptyHash -> Seq(Nat)]
  /\ EmptyHash \in [DOMAIN EmptyHash -> Guests]
  /\ << >> \in Seq({"0", "1"})
BY DEF EmptyHash

(* Another server process starts.                                          *)
LEMMA StartupTypes ==
  ASSUME Types, Startup, UNCHANGED <<owner, page>>
  PROVE  Types'
<1>1. PICK lost \in SUBSET (Busy \cup Waiting) :
        pc' = [c \in Calls |-> IF c \in lost THEN "failed" ELSE pc[c]]
  BY DEF Startup
<1>2. pc' \in [Calls -> Labels]
  BY <1>1 DEF Types, TypeOK, Labels, Answered
<1>3. \A d \in Calls : Dispatched(d)'
  <2> SUFFICES ASSUME NEW d \in Calls PROVE Dispatched(d)'
    OBVIOUS
  <2>1. req' = req /\ Dispatched(d)
    BY DEF Startup, Types, TypeOK
  <2>2. pc'[d] = pc[d] \/ (pc'[d] = "failed" /\ pc[d] # "idle")
    BY <1>1, PcsDisjoint DEF Busy, Waiting
  <2>3. "failed" \notin LoginPcs \cup HeartbeatPcs \cup SendPcs
    BY PcsDisjoint
  <2> QED
    BY <2>1, <2>2, <2>3 DEF Dispatched
<1>4. StoreTypeOK' /\ starts' \in Nat /\ FiniteHashes'
  BY EmptyStoreType, FS_EmptySet
  DEF Startup, FlushAll, Types, TypeOK, StoreTypeOK, FiniteHashes
<1> QED
  BY <1>2, <1>3, <1>4 DEF Startup, Types, TypeOK, page

(* The initial state.                                                      *)
LEMMA InitTypes == Init => Types
<1> SUFFICES ASSUME Init PROVE Types
  OBVIOUS
<1>1. StoreTypeOK /\ FiniteHashes
  BY EmptyStoreType, FS_EmptySet
  DEF Init, ServerInit, StoreEmpty, StoreTypeOK, FiniteHashes, NoLocals
<1>2. pc \in [Calls -> Labels] /\ req \in [Calls -> Request] /\ loc \in [Calls -> Locals]
  BY DEF Init, ServerInit, Labels, Request, NoRequest, NoLocals, Locals
<1>3. \A c \in Calls : Dispatched(c)
  BY PcsDisjoint DEF Init, ServerInit, Dispatched, NoRequest, HandlerPcs, Answered
<1>4. AppliedCap \in Nat
  BY LimitsAssumption DEF AppliedCap
<1>5. PageTypes
  BY <1>4, EmptyStoreType DEF Init, PageTypes
<1> QED
  BY <1>1, <1>2, <1>3, <1>5 DEF Types, TypeOK, PageTypes, Init, ServerInit

(* Every step.                                                             *)
LEMMA NextTypes == Types /\ [Next]_vars => Types'
<1> SUFFICES ASSUME Types, [Next]_vars PROVE Types'
  OBVIOUS
<1>1. ASSUME NEW g \in Guests, NEW c \in Calls, PageRequest(g, c) PROVE Types'
  BY <1>1, PageRequestTypes
<1>2. ASSUME NEW c \in Calls, ServerStep(c) PROVE Types'
  BY <1>2, AcceptTypes, HandlerStepTypes DEF ServerStep
<1>3. ASSUME NEW c \in Calls, Callback(c) PROVE Types'
  BY <1>3, CallbackTypes
<1>4. CASE Startup /\ UNCHANGED <<owner, page>>
  BY <1>4, StartupTypes
<1>5. CASE UNCHANGED vars
  BY <1>5 DEF vars, server, store, page, Types, TypeOK, StoreTypeOK, FiniteHashes,
              Dispatched, AppliedCap
<1> QED
  BY <1>1, <1>2, <1>3, <1>4, <1>5 DEF Next

(* The state keeps its types, and the hashes stay finite, whatever the     *)
(* numbers of guests, workers, retries and restarts.                       *)
THEOREM TypeCorrect == Spec => []TypeOK
<1>1. Types => TypeOK
  BY DEF Types
<1> QED
  BY <1>1, InitTypes, NextTypes, PTL DEF Spec

=============================================================================
