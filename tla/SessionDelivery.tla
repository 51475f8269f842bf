--------------------------- MODULE SessionDelivery ---------------------------
(***************************************************************************)
(* What the pages of module Session may rely on: sending gets stuck only   *)
(* when the retries are used up, the heartbeats skip no change, and attach *)
(* none too often.                                                         *)
(***************************************************************************)
EXTENDS SessionRegistry, FunctionTheorems

-----------------------------------------------------------------------------
(***************************************************************************)
(* acknowledged: one request at a time, whatever the server does.          *)
(***************************************************************************)
(* The request a guest waits for carries a payload of its own.             *)
OwnPayload(c) ==
  req[c].kind = "sendChanges" /\ owner[c] # None =>
    req[c].change \in DOMAIN author /\ author[req[c].change] = owner[c]

Waits(g) ==
  LET open == Open(g, "sendChanges")
  IN  /\ g \notin unacked => open = {}
      /\ \A c, d \in open : c = d
      /\ g \in unacked => open # {} \/ GaveUp(g)

Sends == (\A c \in Calls : OwnPayload(c)) /\ (\A g \in Guests : Waits(g))

Sending(c, g) == owner[c] = g /\ req[c].kind = "sendChanges"

(* A step after which the same calls wait for an answer to sendChanges.    *)
LEMMA SameSends ==
  ASSUME Types, Sends, UNCHANGED <<unacked, tries>>, starts > 0 => starts' > 0,
         \A x \in DOMAIN author : x \in DOMAIN author' /\ author'[x] = author[x],
         \A c \in Calls : \/ req'[c] = req[c] /\ owner'[c] = owner[c]
                          \/ /\ req[c].kind # "sendChanges" \/ owner[c] = None
                             /\ req'[c].kind # "sendChanges" \/ owner'[c] = None
  PROVE  Sends'
<1>1. \A g \in Guests : Open(g, "sendChanges")' = Open(g, "sendChanges")
  BY GuestsAssumption DEF Open
<1>2. \A g \in Guests : GaveUp(g) => GaveUp(g)'
  BY DEF GaveUp
<1>3. \A g \in Guests : Waits(g)'
  BY <1>1, <1>2 DEF Sends, Waits
<1>4. \A c \in Calls : OwnPayload(c)'
  BY DEF Sends, OwnPayload
<1> QED
  BY <1>3, <1>4 DEF Sends

(* A page puts a change into one request only, or sends again what it sent. *)
LEMMA RequestSends ==
  ASSUME Types, Sends, NEW g \in Guests, NEW c \in Calls, PageRequest(g, c)
  PROVE  Sends'
<1> USE GuestsAssumption
<1>1. ASSUME NEW kind \in Kinds \ {"sendChanges"}, NEW x, NEW n,
             Issue(g, c, Body(kind, g, x, n)), UNCHANGED page
      PROVE  Sends'
  BY <1>1, SameSends DEF Issue, Body, page, Types, TypeOK, Dispatched, NoRequest
<1>2. CASE LoginAsGuest(g, c) \/ HeartbeatTimer(g, c) \/ LogOut(g, c) \/ GetUserNames(g, c)
  BY <1>1, <1>2 DEF LoginAsGuest, HeartbeatTimer, LogOut, GetUserNames, Kinds
<1>3. ASSUME NEW x \in Payloads, SendChangesTimer(g, c, x) PROVE Sends'
  <2>1. /\ \A d \in Calls \ {c} : req'[d] = req[d] /\ owner'[d] = owner[d]
        /\ req'[c].kind = "sendChanges" /\ req'[c].change = x /\ owner'[c] = g
        /\ req[c].kind # "sendChanges"
        /\ x \notin DOMAIN author /\ author' = HSet(author, x, g)
        /\ g \notin unacked /\ unacked' = unacked \cup {g}
        /\ UNCHANGED <<tries, starts>>
    BY <1>3 DEF SendChangesTimer, Issue, Body, Types, TypeOK, Dispatched, NoRequest
  <2>2. \A d \in Calls : OwnPayload(d)'
    BY <2>1 DEF Sends, OwnPayload, HSet
  <2>3. Open(g, "sendChanges")' = {c}
    BY <2>1 DEF Sends, Waits, Open
  <2>4. \A h \in Guests \ {g} : Open(h, "sendChanges")' = Open(h, "sendChanges")
    BY <2>1 DEF Open
  <2>5. \A h \in Guests : GaveUp(h) => GaveUp(h)'
    BY <2>1 DEF GaveUp, HSet
  <2> QED
    BY <2>1, <2>2, <2>3, <2>4, <2>5 DEF Sends, Waits
<1>4. ASSUME NEW retry \in Calls, SendTimeout(g, c, retry) PROVE Sends'
  <2>1. /\ owner[c] = g /\ req[c].kind = "sendChanges" /\ c # retry
        /\ req[retry].kind # "sendChanges"
        /\ req' = [req EXCEPT ![retry] = req[c]]
        /\ owner' = [owner EXCEPT ![retry] = g, ![c] = None]
        /\ tries' = [tries EXCEPT ![req[c].change] = @ + 1]
        /\ tries[req[c].change] < MaxRetries
        /\ UNCHANGED <<starts, unacked, author>>
    BY <1>4 DEF SendTimeout, MayRepeat, Open, Types, TypeOK, Dispatched, NoRequest
  <2>2. /\ \A d \in Calls \ {c, retry} : req'[d] = req[d] /\ owner'[d] = owner[d]
        /\ req'[retry] = req[c] /\ owner'[retry] = g /\ owner'[c] = None
    BY <2>1 DEF Types, TypeOK
  <2>3. \A d \in Calls : OwnPayload(d)'
    <3>1. req[c].change \in DOMAIN author /\ author[req[c].change] = g
      BY <2>1 DEF Sends, OwnPayload
    <3> QED
      BY <2>1, <2>2, <3>1 DEF Sends, OwnPayload
  <2>4. Open(g, "sendChanges")' = {retry} /\ g \in unacked
    <3>1. c \in Open(g, "sendChanges") /\ Waits(g)
      BY <2>1 DEF Open, Sends
    <3>2. Open(g, "sendChanges") = {c} /\ g \in unacked
      BY <3>1 DEF Waits
    <3>3. \A d \in Calls : owner[d] = g /\ req[d].kind = "sendChanges" => d = c
      BY <3>2 DEF Open
    <3>4. ASSUME NEW d \in Calls
          PROVE  owner'[d] = g /\ req'[d].kind = "sendChanges" <=> d = retry
      <4>1. CASE d = c
        BY <2>1, <2>2, <4>1
      <4>2. CASE d = retry
        BY <2>1, <2>2, <4>2
      <4>3. CASE d \notin {c, retry}
        BY <2>2, <3>3, <4>3
      <4> QED
        BY <4>1, <4>2, <4>3
    <3> QED
      BY <3>2, <3>4 DEF Open
  <2>5. \A h \in Guests \ {g} : Open(h, "sendChanges")' = Open(h, "sendChanges")
    BY <2>1, <2>2 DEF Open
  <2>6. \A h \in Guests : GaveUp(h) => GaveUp(h)'
    BY <2>1, LimitsAssumption DEF GaveUp, Types, TypeOK
  <2> QED
    BY <2>1, <2>3, <2>4, <2>5, <2>6 DEF Sends, Waits
<1>5. CASE SendGiveUp(g, c)
  <2>1. /\ owner[c] = g /\ req[c].kind = "sendChanges"
        /\ tries[req[c].change] = MaxRetries
        /\ owner' = [owner EXCEPT ![c] = None]
        /\ UNCHANGED <<starts, req, unacked, author, tries>>
    BY <1>5 DEF SendGiveUp, Open, server, page
  <2>2. \A d \in Calls \ {c} : owner'[d] = owner[d]
    BY <2>1 DEF Types, TypeOK
  <2>3. \A d \in Calls : OwnPayload(d)'
    BY <2>1, <2>2 DEF Sends, OwnPayload
  <2>4. GaveUp(g)' /\ \A h \in Guests : GaveUp(h) => GaveUp(h)'
    BY <2>1 DEF Sends, OwnPayload, GaveUp
  <2>5. Open(g, "sendChanges")' = {} /\ g \in unacked
    BY <2>1, <2>2 DEF Sends, Waits, Open, Types, TypeOK
  <2>6. \A h \in Guests \ {g} : Open(h, "sendChanges")' = Open(h, "sendChanges")
    BY <2>1, <2>2 DEF Open, Types, TypeOK
  <2> QED
    BY <2>1, <2>3, <2>4, <2>5, <2>6 DEF Sends, Waits
<1> QED
  BY <1>2, <1>3, <1>4, <1>5 DEF PageRequest

(* A request that is answered otherwise than with a success has met a      *)
(* restart.                                                                *)
LEMMA CallbackSends ==
  ASSUME Types, Served, Sends, NEW c \in Calls, Callback(c)
  PROVE  Sends'
<1>1. Free(c) /\ UNCHANGED <<starts, author, tries>> /\ pc[c] \in Answered
  BY DEF Callback, LoginDone, HeartbeatDone, SendChangesDone, AnswerIgnored, Answer, Free, page
<1>2. /\ \A d \in Calls \ {c} : req'[d] = req[d] /\ owner'[d] = owner[d]
      /\ req'[c].kind = "none" /\ owner'[c] = None
  BY <1>1 DEF Free, NoRequest, Types, TypeOK
<1>3. ASSUME NEW g \in Guests, Sending(c, g) PROVE Sends'
  <2>1. /\ Open(g, "sendChanges") = {c} /\ g \in unacked
        /\ unacked' = IF pc[c] = "replied" THEN unacked \ {g} ELSE unacked
    <3>1. c \in Open(g, "sendChanges") /\ Waits(g)
      BY <1>3 DEF Sending, Open, Sends
    <3>2. SendChangesDone(c)
      BY <1>3, GuestsAssumption
      DEF Sending, Callback, LoginDone, HeartbeatDone, AnswerIgnored, Answer
    <3> QED
      BY <1>3, <3>1, <3>2 DEF Sending, SendChangesDone, Waits
  <2>2. \A d \in Calls : OwnPayload(d)'
    BY <1>1, <1>2 DEF Sends, OwnPayload
  <2>3. \A h \in Guests : GaveUp(h) => GaveUp(h)'
    BY <1>1 DEF GaveUp
  <2>4. pc[c] # "replied" => starts > 0
    BY <1>1, <1>3
    DEF Sending, Answered, Types, TypeOK, Dispatched, Served, CallServed
  <2>5. Waits(g)'
    <3>1. Open(g, "sendChanges")' = {}
      BY <1>2, <2>1, GuestsAssumption DEF Open
    <3> QED
      BY <1>1, <2>1, <2>4, <3>1 DEF Waits, GaveUp
  <2>6. ASSUME NEW h \in Guests, h # g PROVE Waits(h)'
    <3>1. Open(h, "sendChanges")' = Open(h, "sendChanges")
      BY <1>2, <1>3, <2>6, GuestsAssumption DEF Open, Sending
    <3> QED
      BY <2>1, <2>3, <2>6, <3>1 DEF Sends, Waits
  <2> QED
    BY <2>2, <2>5, <2>6 DEF Sends
<1>4. CASE ~ \E g \in Guests : Sending(c, g)
  <2>1. unacked' = unacked
    BY <1>4
    DEF Sending, Callback, LoginDone, HeartbeatDone, SendChangesDone, AnswerIgnored,
        Answer, page, Types, TypeOK
  <2> QED
    BY <1>1, <1>2, <1>4, <2>1, SameSends DEF Sending, Types, TypeOK
<1> QED
  BY <1>3, <1>4

(* No step sends a change in two requests.                                  *)
LEMMA NextSends == Types /\ Served /\ Sends /\ [Next]_vars => Sends'
<1> SUFFICES ASSUME Types, Served, Sends, [Next]_vars PROVE Sends'
  OBVIOUS
<1>1. ASSUME UNCHANGED <<req, owner, page>> PROVE Sends'
  BY <1>1, StartsGrow, SameSends DEF page
<1>2. ASSUME NEW c \in Calls, ServerStep(c) PROVE UNCHANGED <<req, owner, page>>
  BY <1>2, HandlerFrame DEF ServerStep, Accept
<1>3. Startup => UNCHANGED req
  BY DEF Startup
<1> QED
  BY <1>1, <1>2, <1>3, RequestSends, CallbackSends DEF Next, vars, server

(* A guest whose flag is up waits for no answer; one whose flag is down    *)
(* waits for exactly one, unless it has used up its retries, or a server   *)
(* process that had its request is gone.                                   *)
THEOREM OneSend == Spec => []OneSendOrStuck
<1>1. Init => Sends
  BY DEF Init, ServerInit, NoRequest, Sends, OwnPayload, Waits, Open
<1>2. Sends => OneSendOrStuck
  <2> SUFFICES ASSUME Sends, NEW g \in Guests, Open(g, "sendChanges") # {}
               PROVE  Cardinality(Open(g, "sendChanges")) = 1
    BY DEF Sends, Waits, OneSendOrStuck
  <2>1. PICK c \in Open(g, "sendChanges") : Open(g, "sendChanges") = {c}
    BY DEF Sends, Waits
  <2> QED
    BY <2>1, FS_Singleton
<1> QED
  BY <1>1, <1>2, BaseAlways, NextSends, PTL DEF Spec

-----------------------------------------------------------------------------
(***************************************************************************)
(* With one worker, the log tells who wrote what, and every heartbeat that *)
(* has read the log knows all that is new in it up to some id.             *)
(***************************************************************************)
(* A guest that wrote something is logged in, and the ids on a name's list *)
(* are those of changes that a guest of that name wrote.                   *)
Chronicle ==
  /\ \A x \in DOMAIN author : author[x] \in joined
  /\ \A n \in DOMAIN userChanges : \A i \in OwnIds(n) : NameOf[author[changes[i]]] = n
  /\ \A c \in Calls : Recording(c) => changes[loc[c].cid] = req[c].change

GotIds(c) == {t[1] : t \in loc[c].got}
Seen(c) == loc[c].ids \cup GotIds(c)

(* What a heartbeat has read, and may still leave out.                     *)
Complete(c) ==
  /\ \A t \in loc[c].got : t[1] \in DOMAIN changes /\ changes[t[1]] = t[2]
  /\ pc[c] \in {"hb_own", "hb_fetch", "replied"} /\ req[c].kind = "heartbeat" =>
       /\ loc[c].ids \subseteq DOMAIN changes
       /\ \A i \in DOMAIN changes, m \in Seen(c) :
            i <= m /\ i > req[c].last /\ NameOf[author[changes[i]]] # req[c].user
              => i \in Seen(c)
  /\ pc[c] = "replied" /\ req[c].kind = "heartbeat" => loc[c].ids = {}

(* Its request asked from where its guest was, or from before.             *)
Asked(c) ==
  req[c].kind = "heartbeat" /\ owner[c] # None =>
    owner[c] \in joined /\ req[c].last <= last[owner[c]]

(* A guest is where some logged change is, with none before it left out.   *)
Reached(g) ==
  /\ last[g] = -1 \/ last[g] \in DOMAIN changes
  /\ \A i \in DOMAIN changes :
       i <= last[g] /\ author[changes[i]] # g => applied[g][changes[i]] > 0

Heard ==
  /\ Chronicle
  /\ \A g \in joined : Reached(g)
  /\ \A c \in Calls : Complete(c) /\ Asked(c)

(* A step only adds to the log, and only at its end.                       *)
Lengthened ==
  OnlyAdds /\ \A i \in DOMAIN changes' \ DOMAIN changes, j \in DOMAIN changes : j < i

AuthorsKept == \A x \in DOMAIN author : x \in DOMAIN author' /\ author'[x] = author[x]

(* With one worker every command of a handler lengthens the log, if at all. *)
LEMMA CommandLengthens ==
  ASSUME Types, Serial, NEW c \in Calls, HandlerStep(c)
  PROVE  Lengthened
<1>1. OnlyAdds
  BY HandlerSerial
<1>2. CASE LogChange(c)
  <2>1. \A j \in DOMAIN changes : j < loc[c].cid
    BY <1>2 DEF LogChange, Serial, FreshId
  <2> QED
    BY <1>1, <1>2, <2>1 DEF LogChange, HSet, Lengthened
<1>3. CASE ~ LogChange(c)
  <2>1. changes' = changes
    BY <1>3, ListsKept DEF OwnWrite, AddChanges
  <2> QED
    BY <1>1, <2>1 DEF Lengthened
<1> QED
  BY <1>2, <1>3

(* What a heartbeat knows stays true, while others add to the log.         *)
LEMMA OtherComplete ==
  ASSUME Base, Base', Authorship, Lengthened, AuthorsKept, NEW d \in Calls, Complete(d), Untouched(d)
  PROVE  Complete(d)'
<1>1. loc'[d] = loc[d] /\ loc[d] \in Locals /\ DOMAIN changes \subseteq Nat
  BY DEF Untouched, Base, Types, TypeOK, StoreTypeOK
<1>2. GotIds(d)' = GotIds(d) /\ Seen(d)' = Seen(d)
  BY DEF Untouched, GotIds, Seen
<1>3. \A i \in DOMAIN changes : /\ i \in DOMAIN changes' /\ changes'[i] = changes[i]
                                /\ author'[changes[i]] = author[changes[i]]
  BY DEF Lengthened, OnlyAdds, AuthorsKept, Authorship
<1>4. \A t \in loc[d].got : t[1] \in DOMAIN changes /\ changes[t[1]] = t[2]
  BY DEF Complete
<1>5. ASSUME pc[d] \in {"hb_own", "hb_fetch", "replied"}, req[d].kind = "heartbeat",
             NEW i \in DOMAIN changes', NEW m \in Seen(d), i <= m, i > req[d].last,
             NameOf[author'[changes'[i]]] # req[d].user
      PROVE  i \in Seen(d)
  <2>1. m \in DOMAIN changes
    BY <1>4, <1>5 DEF Seen, GotIds, Complete
  <2>2. i \in DOMAIN changes
    <3>1. i \in Nat /\ m \in Nat
      BY <1>1, <1>5, <2>1 DEF Base, Types, TypeOK, StoreTypeOK
    <3> QED
      BY <1>5, <2>1, <3>1 DEF Lengthened
  <2> QED
    BY <1>3, <1>5, <2>2 DEF Complete
<1> QED
  BY <1>2, <1>3, <1>4, <1>5 DEF Complete, Untouched

(* The step of a heartbeat's own handler.                                  *)
LEMMA HeartbeatComplete ==
  ASSUME Base, Chronicle, NEW c \in Calls, HeartbeatStep(c), Complete(c), UNCHANGED author
  PROVE  Complete(c)'
<1>1. /\ pc \in [Calls -> Labels] /\ loc \in [Calls -> Locals]
      /\ DOMAIN changes \subseteq Nat /\ loc[c].got \subseteq Nat \X Payloads
  BY DEF Base, Types, TypeOK, StoreTypeOK, Locals
<1>2. UNCHANGED <<changes, req>> /\ req[c].kind = "heartbeat" /\ Registered(req[c].user)
  BY HandlerOf
  DEF HeartbeatStep, HeartbeatCount, HeartbeatKeys, HeartbeatPosition,
      HeartbeatChanges, HeartbeatOwn, HeartbeatFetch, ReadOnly, store
<1>3. \A t \in loc[c].got : t[1] \in DOMAIN changes /\ changes[t[1]] = t[2]
  BY DEF Complete
<1>4. CASE HeartbeatCount(c) \/ HeartbeatKeys(c) \/ HeartbeatPosition(c)
  <2>1. /\ pc'[c] \in {"hb_keys", "hb_position", "hb_changes", "failed"}
        /\ loc'[c].got = loc[c].got
    BY <1>1, <1>4
    DEF HeartbeatCount, HeartbeatKeys, HeartbeatPosition, Position, Goto, Locals
  <2> QED
    BY <1>2, <1>3, <2>1 DEF Complete
<1>5. CASE HeartbeatChanges(c)
  <2>1. /\ pc'[c] = "hb_own" /\ loc'[c].got = loc[c].got
        /\ loc'[c].ids = {i \in DOMAIN changes : i > req[c].last}
    BY <1>1, <1>5 DEF HeartbeatChanges, Goto, Locals
  <2> QED
    BY <1>2, <1>3, <2>1 DEF Complete, Seen
<1>6. CASE HeartbeatOwn(c)
  <2>1. /\ pc[c] = "hb_own" /\ pc'[c] \in {"replied", "hb_fetch"}
        /\ loc'[c].got = loc[c].got
        /\ loc'[c].ids = loc[c].ids \ OwnIds(req[c].user)
        /\ pc'[c] = "replied" => loc'[c].ids = {}
    BY <1>1, <1>2, <1>6 DEF HeartbeatOwn, Goto, Locals, Registered
  <2>2. \A i \in OwnIds(req[c].user) : NameOf[author[changes[i]]] = req[c].user
    BY <1>2 DEF Chronicle, Registered
  <2>3. /\ Seen(c)' \subseteq Seen(c)
        /\ \A i \in Seen(c) \ OwnIds(req[c].user) : i \in Seen(c)'
    BY <2>1 DEF Seen, GotIds
  <2>4. loc[c].ids \subseteq DOMAIN changes
    BY <1>2, <2>1 DEF Complete
  <2>5. ASSUME NEW i \in DOMAIN changes, NEW m \in Seen(c), i <= m, i > req[c].last,
               NameOf[author[changes[i]]] # req[c].user
        PROVE  i \in Seen(c)'
    BY <1>2, <2>1, <2>2, <2>3, <2>5 DEF Complete
  <2> QED
    BY <1>2, <1>3, <2>1, <2>3, <2>4, <2>5 DEF Complete
<1>7. CASE HeartbeatFetch(c)
  <2>1. PICK i \in loc[c].ids :
          /\ i \in DOMAIN changes /\ pc[c] = "hb_fetch"
          /\ pc'[c] = IF loc[c].ids = {i} THEN "replied" ELSE "hb_fetch"
          /\ loc'[c].ids = loc[c].ids \ {i}
          /\ loc'[c].got = loc[c].got \cup {<<i, changes[i]>>}
    <3>1. pc[c] = "hb_fetch" /\ loc[c].ids \subseteq DOMAIN changes
      BY <1>2, <1>7 DEF HeartbeatFetch, Complete
    <3>2. PICK i \in loc[c].ids :
            /\ loc' = [loc EXCEPT ![c].ids = @ \ {i}, ![c].got = @ \cup {<<i, changes[i]>>}]
            /\ pc' = [pc EXCEPT ![c] = IF loc[c].ids = {i} THEN "replied" ELSE "hb_fetch"]
      BY <1>7, <3>1 DEF HeartbeatFetch, Goto
    <3>3. /\ loc'[c].ids = loc[c].ids \ {i}
          /\ loc'[c].got = loc[c].got \cup {<<i, changes[i]>>}
          /\ pc'[c] = IF loc[c].ids = {i} THEN "replied" ELSE "hb_fetch"
      BY <1>1, <3>2 DEF Locals
    <3> QED
      BY <3>1, <3>3
  <2>2. Seen(c)' = Seen(c)
    <3>1. <<i, changes[i]>>[1] = i
      OBVIOUS
    <3>2. GotIds(c)' = {t[1] : t \in loc[c].got \cup {<<i, changes[i]>>}}
      BY <2>1 DEF GotIds
    <3>3. GotIds(c)' = GotIds(c) \cup {i}
      BY <3>1, <3>2, Zenon DEF GotIds
    <3> QED
      BY <2>1, <3>3 DEF Seen
  <2>3. \A t \in loc'[c].got : t[1] \in DOMAIN changes /\ changes[t[1]] = t[2]
    BY <1>3, <2>1
  <2>4. loc[c].ids \subseteq DOMAIN changes
    BY <1>2, <2>1 DEF Complete
  <2>5. pc'[c] = "replied" => loc'[c].ids = {}
    BY <2>1
  <2> QED
    BY <1>2, <2>1, <2>2, <2>3, <2>4, <2>5 DEF Complete
<1> QED
  BY <1>4, <1>5, <1>6, <1>7 DEF HeartbeatStep

(* The lists of own changes, and the changes about to get on them.         *)
LEMMA ChronicleCommand ==
  ASSUME Base, Base', Serial, Registry, Authorship, Chronicle,
         NEW c \in Calls, HandlerStep(c), UNCHANGED <<author, joined>>
  PROVE  Chronicle'
<1>1. /\ Lengthened /\ req' = req /\ pc \in [Calls -> Labels] /\ loc \in [Calls -> Locals]
      /\ \A d \in Calls \ {c} : ~ Recording(d)'
  BY CommandLengthens, HandlerFrame, OthersIdle
  DEF Base, Types, TypeOK, Handled, Recording, HandlerPcs, SendPcs
<1>2. \A i \in DOMAIN changes : i \in DOMAIN changes' /\ changes'[i] = changes[i]
  BY <1>1 DEF Lengthened, OnlyAdds
<1>3. \A n \in DOMAIN userChanges : \A i \in OwnIds(n) :
        i \in DOMAIN changes /\ NameOf[author[changes[i]]] = n
  BY SerialAttempts DEF Base, Chronicle, Authorship, OwnIdsLogged
<1>4. Recording(c)' => changes'[loc'[c].cid] = req[c].change
  <2>1. CASE LogChange(c)
    BY <1>1, <2>1 DEF LogChange, HSet
  <2>2. CASE OwnCompare(c) \/ OwnRead(c)
    <3>1. Recording(c) /\ loc'[c].cid = loc[c].cid /\ changes' = changes
      BY <1>1, <2>2 DEF OwnCompare, OwnRead, Recording, Locals, ReadOnly, store
    <3> QED
      BY <3>1 DEF Chronicle
  <2>3. CASE ~ (LogChange(c) \/ OwnCompare(c) \/ OwnRead(c))
    BY <1>1, <2>3
    DEF HandlerStep, LoginStep, LoginIndex, LoginTaken, AddLen, AddUser, AddChanges,
        LoginCount, LoginKeys, LoginPosition, Position, HeartbeatStep, HeartbeatCount,
        HeartbeatKeys, HeartbeatPosition, HeartbeatChanges, HeartbeatOwn,
        HeartbeatFetch, SendStep, PpsStep, PpsCheck, PpsZero, PpsOne, PpsKey,
        ChangeIdGet, ChangeIdSet, ChangeIdReget, OwnWrite, Deinitialize,
        SendUserNames, Goto, Recording
  <2> QED
    BY <2>1, <2>2, <2>3
<1>5. ASSUME NEW n \in DOMAIN userChanges', NEW i \in OwnIds(n)'
      PROVE  NameOf[author[changes'[i]]] = n
  <2>1. CASE OwnWrite(c)
    <3>1. CASE i \in OwnIds(n)
      BY <1>2, <1>3, <1>5, <2>1, <3>1, OwnWriteLists, SerialAttempts
    <3>2. CASE n = req[c].user /\ i = loc[c].cid
      <4>1. req[c].kind = "sendChanges" /\ changes[i] = req[c].change /\ changes' = changes
        BY <2>1, <3>2, HandlerOf DEF OwnWrite, SendStep, Chronicle, Recording
      <4>2. NameOf[author[req[c].change]] = n
        BY <3>2, <4>1 DEF Authorship, Signed
      <4> QED
        BY <4>1, <4>2
    <3> QED
      BY <1>5, <2>1, <3>1, <3>2, OwnWriteLists, SerialAttempts
  <2>2. CASE AddChanges(c)
    <3>1. userChanges' = HSet(userChanges, req[c].user, <<>>)
      BY <2>2 DEF AddChanges
    <3>2. n # req[c].user
      BY <1>5, <3>1 DEF HSet, OwnIds
    <3>3. n \in DOMAIN userChanges /\ i \in OwnIds(n)
      BY <1>5, <3>1, <3>2 DEF HSet, OwnIds
    <3> QED
      BY <1>2, <1>3, <3>3
  <2>3. CASE ~ OwnWrite(c) /\ ~ AddChanges(c)
    <3>1. n \in DOMAIN userChanges /\ i \in OwnIds(n)
      BY <1>5, <2>3, ListsKept DEF OwnIds
    <3> QED
      BY <1>2, <1>3, <3>1
  <2> QED
    BY <2>1, <2>2, <2>3
<1> QED
  BY <1>1, <1>4, <1>5 DEF Chronicle

(* Only the handler of a heartbeat fetches transactions.                   *)
LEMMA OthersGot ==
  ASSUME Types, NEW c \in Calls, HandlerStep(c), ~ HeartbeatStep(c)
  PROVE  loc'[c].got = loc[c].got
<1>1. loc \in [Calls -> Locals]
  BY DEF Types, TypeOK
<1>2. CASE LoginStep(c)
  BY <1>1, <1>2
  DEF LoginStep, LoginIndex, LoginTaken, AddLen, AddUser, AddChanges, LoginCount,
      LoginKeys, LoginPosition, Position, Locals
<1>3. CASE PpsStep(c) \/ LogChange(c) \/ OwnWrite(c) \/ ChangeIdSet(c)
             \/ Deinitialize(c) \/ SendUserNames(c)
  BY <1>3
  DEF PpsStep, PpsCheck, PpsZero, PpsOne, PpsKey, LogChange, OwnWrite, ChangeIdSet,
      Deinitialize, SendUserNames
<1>4. CASE ChangeIdGet(c) \/ ChangeIdReget(c) \/ OwnCompare(c) \/ OwnRead(c)
  BY <1>1, <1>4 DEF ChangeIdGet, ChangeIdReget, OwnCompare, OwnRead, Locals
<1> QED
  BY <1>2, <1>3, <1>4 DEF HandlerStep, SendStep

(* A command of a handler.                                                 *)
LEMMA CommandHeard ==
  ASSUME Base, Base', Serial, Registry, Authorship, Heard, NEW c \in Calls, CommandStep(c)
  PROVE  Heard'
<1>1. /\ HandlerStep(c) /\ Lengthened /\ req' = req
      /\ UNCHANGED <<owner, joined, last, author, applied>>
      /\ \A d \in Calls \ {c} : Untouched(d)
  BY CommandLengthens, HandlerFrame DEF CommandStep, page, Base, Untouched
<1>2. Chronicle'
  BY <1>1, ChronicleCommand DEF Heard
<1>3. \A d \in Calls \ {c} : Complete(d)'
  BY <1>1, OtherComplete DEF Heard, AuthorsKept
<1>4. \A d \in Calls : Asked(d)'
  BY <1>1 DEF Heard, Asked
<1>5. ASSUME NEW g \in joined PROVE Reached(g)'
  <2>1. DOMAIN changes \subseteq Nat /\ DOMAIN changes' \subseteq Nat
    BY DEF Base, Types, TypeOK, StoreTypeOK
  <2>2. \A i \in DOMAIN changes' \ DOMAIN changes : i > last[g]
    BY <1>1, <2>1 DEF Heard, Reached, Lengthened
  <2> QED
    BY <1>1, <2>1, <2>2 DEF Heard, Reached, Lengthened, OnlyAdds
<1>6. Complete(c)'
  <2>1. CASE HeartbeatStep(c)
    BY <1>1, <2>1, HeartbeatComplete DEF Heard
  <2>2. CASE ~ HeartbeatStep(c)
    <3>1. req[c].kind # "heartbeat"
      BY <1>1, <2>2, HandlerOf DEF HandlerStep
    <3>2. loc'[c].got = loc[c].got
      BY <1>1, <2>2, OthersGot DEF Base
    <3> QED
      BY <1>1, <3>1, <3>2 DEF Complete, Heard, Lengthened, OnlyAdds
  <2> QED
    BY <2>1, <2>2
<1> QED
  BY <1>1, <1>2, <1>3, <1>4, <1>5, <1>6 DEF Heard

(* A step that runs no handler: what calls and authors say of the log.     *)
LEMMA OutsideHeard ==
  ASSUME Base, Base', Serial, Authorship, Heard, OutsideStep, AuthorsKept, joined \subseteq joined',
         \A x \in DOMAIN author' \ DOMAIN author : author'[x] \in joined,
         \A d \in Calls : loc'[d].got \subseteq loc[d].got
  PROVE  Chronicle' /\ \A d \in Calls : Complete(d)'
<1>1. UNCHANGED <<changes, userChanges>> /\ Lengthened
  BY DEF OutsideStep, store, Lengthened, OnlyAdds
<1>2. ASSUME NEW d \in Calls PROVE Complete(d)'
  <2>1. CASE Untouched(d)
    BY <1>1, <2>1, OtherComplete DEF Heard
  <2>2. CASE pc'[d] \in Beginnings
    BY <1>1, <2>2 DEF Heard, Complete, Beginnings
  <2> QED
    BY <2>1, <2>2 DEF OutsideStep
<1>3. \A i \in DOMAIN changes : author'[changes[i]] = author[changes[i]]
  BY DEF Authorship, AuthorsKept
<1>4. \A n \in DOMAIN userChanges : \A i \in OwnIds(n) :
        i \in DOMAIN changes /\ NameOf[author[changes[i]]] = n
  BY SerialAttempts DEF Base, Heard, Chronicle, Authorship, OwnIdsLogged
<1>5. \A n \in DOMAIN userChanges' : \A i \in OwnIds(n)' : NameOf[author'[changes'[i]]] = n
  <2>1. \A n \in DOMAIN userChanges : OwnIds(n)' = OwnIds(n)
    BY <1>1 DEF OwnIds
  <2> QED
    BY <1>1, <1>3, <1>4, <2>1
<1>6. \A d \in Calls : Recording(d)' => Untouched(d)
  BY DEF OutsideStep, Recording, Beginnings
<1>7. \A d \in Calls : Recording(d)' => changes'[loc'[d].cid] = req'[d].change
  BY <1>1, <1>6 DEF Heard, Chronicle, Recording, Untouched
<1>8. \A x \in DOMAIN author' : author'[x] \in joined'
  BY DEF AuthorsKept, Heard, Chronicle
<1> QED
  BY <1>2, <1>5, <1>7, <1>8 DEF Chronicle

(* A guest that is told nothing stays where it is.                         *)
LEMMA StillReached ==
  ASSUME Authorship, Heard, AuthorsKept, UNCHANGED changes, NEW g \in joined,
         last'[g] = last[g], applied'[g] = applied[g]
  PROVE  Reached(g)'
<1>1. \A i \in DOMAIN changes : author'[changes[i]] = author[changes[i]]
  BY DEF Authorship, AuthorsKept
<1> QED
  BY <1>1 DEF Heard, Reached

(* The requests of the pages.                                              *)
LEMMA RequestHeard ==
  ASSUME Base, Base', Serial, Authorship, Heard, NEW g \in Guests, NEW c \in Calls,
         PageRequest(g, c)
  PROVE  Heard'
<1>1. OutsideStep /\ AuthorsKept /\ UNCHANGED changes
  BY RequestOutside, RequestSigned
  DEF Base, Authorship, AuthorsKept, RepeatsKept, OutsideStep, store
<1>2. UNCHANGED <<joined, last, applied, loc>>
  BY DEF PageRequest, LoginAsGuest, HeartbeatTimer, SendChangesTimer, SendTimeout,
         SendGiveUp, LogOut, GetUserNames, Issue, server, page
<1>3. \A x \in DOMAIN author' \ DOMAIN author : author'[x] \in joined
  BY ZenonT(30) DEF PageRequest, LoginAsGuest, HeartbeatTimer, SendChangesTimer, SendTimeout,
         SendGiveUp, LogOut, GetUserNames, Issue, HSet, page
<1>4. ASSUME NEW d \in Calls PROVE Asked(d)'
  <2>1. Asked(d)
    BY DEF Heard
  <2>2. ASSUME NEW kind, NEW x, NEW n, Issue(g, c, Body(kind, g, x, n)),
               kind = "heartbeat" => n = last[g] /\ g \in joined
        PROVE  Asked(d)'
    BY <1>2, <2>1, <2>2 DEF Asked, Issue, Body, Base, Types, TypeOK
  <2>3. CASE LoginAsGuest(g, c) \/ HeartbeatTimer(g, c) \/ LogOut(g, c) \/ GetUserNames(g, c)
    BY <2>2, <2>3 DEF LoginAsGuest, HeartbeatTimer, LogOut, GetUserNames
  <2>4. ASSUME NEW x \in Payloads, SendChangesTimer(g, c, x) PROVE Asked(d)'
    BY <2>2, <2>4 DEF SendChangesTimer
  <2>5. ASSUME NEW retry \in Calls, SendTimeout(g, c, retry) PROVE Asked(d)'
    BY <1>2, <2>1, <2>5 DEF SendTimeout, Open, Asked, Base, Types, TypeOK
  <2>6. CASE SendGiveUp(g, c)
    BY <1>2, <2>1, <2>6 DEF SendGiveUp, server, Asked, Base, Types, TypeOK
  <2> QED
    BY <2>3, <2>4, <2>5, <2>6 DEF PageRequest
<1>5. \A h \in joined : Reached(h)'
  BY <1>1, <1>2, StillReached
<1> QED
  BY <1>1, <1>2, <1>3, <1>4, <1>5, OutsideHeard DEF Heard

(* A count capped at a bound is as positive as the count and the bound.    *)
LEMMA CappedPositive ==
  ASSUME NEW n \in Nat \ {0}
  PROVE  AtMost(n, AppliedCap) > 0 /\ AppliedCap \in Nat \ {0}
<1>1. MaxHeartbeats * (1 + MaxRetries) \in Nat
  BY LimitsAssumption
<1>2. AppliedCap \in Nat \ {0}
  BY <1>1 DEF AppliedCap
<1> QED
  BY <1>2 DEF AtMost

(* A transaction received is at least one copy of its payload.             *)
LEMMA CopiesCount ==
  ASSUME NEW got, IsFiniteSet(got), NEW x
  PROVE  Copies(got, x) \in Nat /\ \A t \in got : t[2] = x => Copies(got, x) > 0
<1> DEFINE S == {t \in got : t[2] = x}
<1>1. IsFiniteSet(S) /\ Cardinality(S) \in Nat
  BY FS_Subset, FS_CardinalityType
<1>2. S # {} => Cardinality(S) # 0
  BY <1>1, FS_EmptySet
<1> QED
  BY <1>1, <1>2 DEF Copies

(* The callback that attaches what a heartbeat has brought.                *)
LEMMA HeartbeatDoneReached ==
  ASSUME Base, Claims, Authorship, Heard, NEW c \in Calls, NEW g \in Guests,
         owner[c] = g, HeartbeatDone(c), pc[c] = "replied"
  PROVE  Reached(g)' /\ last'[g] >= last[g] /\ UNCHANGED changes
<1>1. /\ last \in [Guests -> Int] /\ applied \in [Guests -> [Payloads -> 0..AppliedCap]]
      /\ IsFiniteSet(loc[c].got) /\ DOMAIN changes \subseteq Nat
      /\ \A i \in DOMAIN changes : changes[i] \in Payloads
  BY DEF Base, Types, TypeOK, StoreTypeOK, FiniteHashes
<1>2. /\ UNCHANGED <<author, changes>> /\ req[c].kind = "heartbeat" /\ g # None
      /\ g \in joined /\ req[c].last <= last[g] /\ req[c].user = NameOf[g]
  BY GuestsAssumption
  DEF HeartbeatDone, Answer, Free, store, Heard, Asked, Base, Served, CallServed
<1>3. Complete(c) /\ Reached(g)
  BY <1>2 DEF Heard
<1>4. PICK m \in {last[g]} \cup GotIds(c) :
        (\A i \in {last[g]} \cup GotIds(c) : i <= m) /\ last'[g] = m
  BY <1>1 DEF HeartbeatDone, GotIds
<1>5. \A x \in Payloads :
        applied'[g][x] = AtMost(applied[g][x] + Copies(loc[c].got, x), AppliedCap)
  BY <1>1 DEF HeartbeatDone
<1>6. \A t \in loc[c].got : t[1] \in DOMAIN changes /\ changes[t[1]] = t[2]
  BY <1>3 DEF Complete
<1>7. m >= last[g] /\ (m = -1 \/ m \in DOMAIN changes)
  BY <1>3, <1>4, <1>6 DEF GotIds, Reached
<1>8. ASSUME NEW i \in DOMAIN changes, i <= m, author[changes[i]] # g
      PROVE  applied'[g][changes[i]] > 0
  <2>1. /\ Copies(loc[c].got, changes[i]) \in Nat
        /\ \A t \in loc[c].got : t[2] = changes[i] => Copies(loc[c].got, changes[i]) > 0
    BY <1>1, CopiesCount
  <2>2. applied[g][changes[i]] \in Nat
    BY <1>1, <1>5, CappedPositive
  <2>3. SUFFICES applied[g][changes[i]] + Copies(loc[c].got, changes[i]) > 0
    BY <1>1, <1>5, <2>1, <2>2, CappedPositive
  <2>4. CASE i <= last[g]
    BY <1>3, <1>8, <2>1, <2>2, <2>4 DEF Reached
  <2>5. CASE i > last[g]
    <3>1. m \in GotIds(c) /\ m \in Seen(c)
      BY <1>1, <1>4, <1>8, <2>5 DEF Seen
    <3>2. i > req[c].last
      BY <1>1, <1>2, <2>5 DEF Base, Types, TypeOK, Request, NoRequest
    <3>3. NameOf[author[changes[i]]] # req[c].user
      BY <1>2, <1>8 DEF Claims, GuestNameOnce, Heard, Chronicle, Authorship
    <3>4. i \in GotIds(c)
      BY <1>2, <1>3, <1>8, <3>1, <3>2, <3>3 DEF Complete, Seen
    <3>5. PICK t \in loc[c].got : t[1] = i /\ t[2] = changes[i]
      BY <1>6, <3>4 DEF GotIds
    <3> QED
      BY <2>1, <2>2, <3>5
  <2> QED
    BY <1>1, <2>4, <2>5
<1> QED
  BY <1>1, <1>2, <1>4, <1>7, <1>8 DEF Reached

(* The callbacks.                                                          *)
LEMMA CallbackHeard ==
  ASSUME Base, Base', Serial, Claims, Authorship, Heard, NEW c \in Calls, Callback(c)
  PROVE  Heard'
<1>1. Free(c) /\ UNCHANGED <<author, changes>> /\ AuthorsKept /\ pc[c] \in Answered
  BY DEF Callback, LoginDone, HeartbeatDone, SendChangesDone, AnswerIgnored, Answer,
         Free, page, store, AuthorsKept
<1>2. /\ \A d \in Calls \ {c} : Untouched(d) /\ owner'[d] = owner[d]
      /\ pc'[c] = "idle" /\ loc'[c].got = {} /\ req'[c].kind = "none"
  BY <1>1 DEF Free, Goto, Untouched, NoRequest, NoLocals, Base, Types, TypeOK
<1>3. OutsideStep
  BY <1>1, <1>2, PcsDisjoint
  DEF Free, OutsideStep, Beginnings, Handled, HandlerPcs, Answered
<1>4. \A d \in Calls : loc'[d].got \subseteq loc[d].got
  BY <1>2 DEF Untouched
<1>5. joined \subseteq joined'
  BY DEF Callback, LoginDone, HeartbeatDone, SendChangesDone, AnswerIgnored, page
<1>6. Chronicle' /\ \A d \in Calls : Complete(d)'
  BY <1>1, <1>3, <1>4, <1>5, OutsideHeard
<1>7. SUFFICES (\A g \in joined' : Reached(g)') /\ (\A d \in Calls \ {c} : Asked(d)')
  BY <1>2, <1>6 DEF Heard, Asked
<1>8. CASE UNCHANGED <<joined, last, applied>>
  BY <1>1, <1>2, <1>8, StillReached DEF Heard, Asked, Untouched
<1>9. ASSUME NEW g \in Guests, owner[c] = g, LoginDone(c), pc[c] = "replied"
      PROVE  (\A h \in joined' : Reached(h)') /\ (\A d \in Calls \ {c} : Asked(d)')
  <2>1. /\ joined' = joined \cup {g} /\ last' = [last EXCEPT ![g] = -1]
        /\ UNCHANGED applied /\ req[c].user = NameOf[g] /\ Claimed(c)
    BY <1>9, GuestsAssumption
    DEF LoginDone, Answer, Claimed, Base, Served, CallServed
  <2>2. g \notin joined
    BY <2>1 DEF Claims
  <2>3. last'[g] = -1 /\ \A h \in joined : last'[h] = last[h]
    BY <2>1, <2>2 DEF Base, Types, TypeOK
  <2>4. Reached(g)'
    <3>1. \A i \in DOMAIN changes' : ~ (i <= last'[g])
      BY <1>1, <2>3 DEF Base, Types, TypeOK, StoreTypeOK
    <3> QED
      BY <2>3, <3>1 DEF Reached
  <2>5. \A h \in joined : Reached(h)'
    BY <1>1, <2>1, <2>3, StillReached
  <2>6. \A d \in Calls \ {c} : Asked(d)'
    BY <1>2, <2>1, <2>3 DEF Heard, Asked, Untouched
  <2> QED
    BY <2>1, <2>4, <2>5, <2>6
<1>10. ASSUME NEW g \in Guests, owner[c] = g, HeartbeatDone(c), pc[c] = "replied"
       PROVE  (\A h \in joined' : Reached(h)') /\ (\A d \in Calls \ {c} : Asked(d)')
  <2>1. Reached(g)' /\ last'[g] >= last[g]
    BY <1>10, HeartbeatDoneReached
  <2>2. /\ UNCHANGED joined
        /\ \A h \in Guests \ {g} : last'[h] = last[h] /\ applied'[h] = applied[h]
    BY <1>10 DEF HeartbeatDone, Base, Types, TypeOK
  <2>3. \A h \in joined \ {g} : Reached(h)'
    <3> SUFFICES ASSUME NEW h \in joined, h # g PROVE Reached(h)'
      OBVIOUS
    <3>1. h \in Guests
      BY DEF Base, Types, TypeOK
    <3> QED
      BY <1>1, <2>2, <3>1, StillReached
  <2>4. ASSUME NEW d \in Calls \ {c} PROVE Asked(d)'
    <3>1. Asked(d) /\ Untouched(d) /\ owner'[d] = owner[d]
      BY <1>2 DEF Heard
    <3>2. CASE owner[d] = g
      <4>1. req[d].last \in Int /\ last[g] \in Int /\ last'[g] \in Int
        BY DEF Base, Types, TypeOK, Request, NoRequest
      <4> QED
        BY <2>1, <2>2, <3>1, <3>2, <4>1 DEF Asked, Untouched
    <3>3. CASE owner[d] # g
      BY <2>2, <3>1, <3>3 DEF Asked, Untouched, Base, Types, TypeOK
    <3> QED
      BY <3>2, <3>3
  <2> QED
    BY <2>1, <2>2, <2>3, <2>4
<1> QED
  <2>1. \/ UNCHANGED <<joined, last, applied>>
        \/ pc[c] = "replied" /\ owner[c] \in Guests /\ (LoginDone(c) \/ HeartbeatDone(c))
    BY DEF Callback, LoginDone, HeartbeatDone, SendChangesDone, AnswerIgnored, Answer,
           page, Base, Types, TypeOK
  <2> QED
    BY <1>8, <1>9, <1>10, <2>1

(* Every step of a server that handles one request at a time.              *)
LEMMA NextHeard ==
  Base /\ Base' /\ Serial /\ Registry /\ Claims /\ Authorship /\ Heard /\ [Next]_vars
    => Heard'
<1> SUFFICES ASSUME Base, Base', Serial, Registry, Claims, Authorship, Heard, [Next]_vars
             PROVE  Heard'
  OBVIOUS
<1>1. ASSUME OutsideStep, UNCHANGED <<req, loc, owner, page>> PROVE Heard'
  <2>1. AuthorsKept /\ UNCHANGED <<changes, author, joined, last, applied>>
    BY <1>1 DEF AuthorsKept, OutsideStep, store, page
  <2>2. \A d \in Calls : Asked(d)'
    BY <1>1, <2>1 DEF Heard, Asked
  <2> QED
    BY <1>1, <2>1, <2>2, OutsideHeard, StillReached DEF Heard
<1>2. ASSUME NEW c \in Calls, Accept(c), UNCHANGED <<owner, page>> PROVE Heard'
  <2>1. OutsideStep
    <3>1. pc'[c] \in Beginnings
      BY <1>2 DEF Accept, Goto, Entry, Beginnings, Base, Types, TypeOK, Dispatched, Request, Kinds
    <3>2. \A d \in Calls \ {c} : Untouched(d)
      BY <1>2 DEF Accept, Goto, Untouched, Base, Types, TypeOK
    <3> QED
      BY <1>2, <3>1, <3>2, PcsDisjoint DEF Accept, OutsideStep, Handled, HandlerPcs
  <2> QED
    BY <1>1, <1>2, <2>1 DEF Accept
<1>3. CASE UNCHANGED vars
  BY <1>1, <1>3 DEF vars, server, OutsideStep, Untouched
<1>4. ~ Startup
  BY DEF Startup, Base, Types, TypeOK
<1> QED
  BY <1>2, <1>3, <1>4, CommandHeard, RequestHeard, CallbackHeard
  DEF Next, ServerStep, CommandStep

(* What a page has heard of, and what its heartbeat asks for, agree.        *)
LEMMA HeardAlways ==
  ASSUME Workers = 1
  PROVE  Spec => [](starts = 0 => Heard)
<1>1. Init => Heard
  BY DEF Init, ServerInit, StoreEmpty, EmptyHash, NoRequest, NoLocals, Heard,
         Chronicle, Recording, Complete, Asked
<1>2. Types /\ Served /\ (Types /\ Served)' /\ (starts = 0 => Serial)
      /\ (starts = 0 => Registry) /\ (starts = 0 => Claims)
      /\ (starts = 0 => Authorship) /\ (starts = 0 => Heard) /\ [Next]_vars
        => (starts = 0 => Heard)'
  BY StepBase, NextHeard DEF Base
<1> QED
  BY <1>1, <1>2, BaseAlways, SerialAlways, RegistryAlways, ClaimsAlways,
     AuthorshipAlways, PTL DEF Spec, OneWorker

(* With one worker, a guest that has seen id n has attached every change   *)
(* of the others logged up to n, until another server process starts.      *)
THEOREM NothingSkipped ==
  ASSUME Workers = 1
  PROVE  Spec => []NoGap
<1>1. (starts = 0 => Heard) => NoGap
  BY DEF Heard, Reached, NoGap
<1> QED
  BY <1>1, HeardAlways, PTL

-----------------------------------------------------------------------------
(***************************************************************************)
(* How often a payload can still be attached: by each heartbeat that can   *)
(* be open, under each id it is logged under or will be.                   *)
(***************************************************************************)
(* The ids a payload is logged under, and the calls that will log it yet.  *)
Copied(x) == {i \in DOMAIN changes : changes[i] = x}
Unlogged(x) ==
  {c \in Calls : /\ req[c].kind = "sendChanges" /\ req[c].change = x
                 /\ pc[c] \in {"queued", "log_change"} \cup PpsPcs \cup ChangeIdPcs}

Attempts(x) ==
  /\ IsFiniteSet(Copied(x)) /\ IsFiniteSet(Unlogged(x))
  /\ x \in DOMAIN author =>
       Cardinality(Copied(x)) + Cardinality(Unlogged(x)) <= 1 + tries[x]
  /\ x \notin DOMAIN author => tries[x] = 0

(* A heartbeat brings what is new to its guest, and nothing of its own.    *)
News(c) ==
  /\ pc[c] \in {"hb_own", "hb_fetch"} => \A i \in loc[c].ids : i > req[c].last
  /\ pc[c] = "hb_fetch" =>
       \A i \in loc[c].ids : NameOf[author[changes[i]]] # req[c].user
  /\ \A t \in loc[c].got : /\ req[c].kind = "heartbeat" /\ t[1] > req[c].last
                           /\ NameOf[author[t[2]]] # req[c].user

(* The ids guest g has been told of, and which of them its open heartbeats *)
(* may bring again.                                                        *)
Passed(g, x) == {i \in Copied(x) : i <= last[g]}
Repeats(g, x) ==
  {p \in Open(g, "heartbeat") \X Passed(g, x) : p[2] > req[p[1]].last}

Counted(g, x) ==
  /\ x \in DOMAIN author => (author[x] = g => applied[g][x] = 0)
  /\ applied[g][x] + Cardinality(Repeats(g, x)) <= MaxHeartbeats * Cardinality(Passed(g, x))

Pollers(g) ==
  /\ IsFiniteSet(Open(g, "heartbeat"))
  /\ Cardinality(Open(g, "heartbeat")) <= MaxHeartbeats
  /\ g \notin joined => last[g] = -1

Attached ==
  /\ \A c \in Calls : News(c)
  /\ \A x \in Payloads : Attempts(x)
  /\ \A g \in Guests : Pollers(g) /\ \A x \in Payloads : Counted(g, x)

(* A payload that was not sent is neither logged nor on its way.           *)
LEMMA Unsent ==
  ASSUME Base, Authorship, NEW x, x \notin DOMAIN author
  PROVE  Copied(x) = {} /\ Unlogged(x) = {}
BY DEF Authorship, Signed, Copied, Unlogged

(* The sets that are counted are finite.                                   *)
LEMMA FiniteCounts ==
  ASSUME NEW g, NEW x, IsFiniteSet(Copied(x)), IsFiniteSet(Open(g, "heartbeat"))
  PROVE  /\ IsFiniteSet(Passed(g, x)) /\ IsFiniteSet(Repeats(g, x))
         /\ Cardinality(Passed(g, x)) \in Nat /\ Cardinality(Repeats(g, x)) \in Nat
         /\ Cardinality(Copied(x)) \in Nat /\ Cardinality(Open(g, "heartbeat")) \in Nat
         /\ Cardinality(Passed(g, x)) <= Cardinality(Copied(x))
<1>1. IsFiniteSet(Passed(g, x)) /\ Cardinality(Passed(g, x)) <= Cardinality(Copied(x))
  BY FS_Subset DEF Passed
<1>2. IsFiniteSet(Open(g, "heartbeat") \X Passed(g, x))
  BY <1>1, FS_Product
<1>3. IsFiniteSet(Repeats(g, x))
  BY <1>2, FS_Subset DEF Repeats
<1> QED
  BY <1>1, <1>3, FS_CardinalityType

(* No more copies and no more calls, or the one for the other.             *)
LEMMA AttemptsKept ==
  ASSUME Types, Types', NEW x \in Payloads, Attempts(x), UNCHANGED tries,
         x \in DOMAIN author <=> x \in DOMAIN author',
         Copied(x)' \subseteq Copied(x), Unlogged(x)' \subseteq Unlogged(x)
  PROVE  Attempts(x)'
<1>1. /\ IsFiniteSet(Copied(x)') /\ IsFiniteSet(Unlogged(x)')
      /\ Cardinality(Copied(x)') <= Cardinality(Copied(x))
      /\ Cardinality(Unlogged(x)') <= Cardinality(Unlogged(x))
  BY FS_Subset DEF Attempts
<1>2. /\ Cardinality(Copied(x)') \in Nat /\ Cardinality(Unlogged(x)') \in Nat
      /\ Cardinality(Copied(x)) \in Nat /\ Cardinality(Unlogged(x)) \in Nat
      /\ tries[x] \in Nat
  BY <1>1, FS_CardinalityType DEF Attempts, Types, TypeOK
<1> QED
  BY <1>1, <1>2 DEF Attempts

(* The handler that logs a payload is one that was going to.               *)
LEMMA CommandAttempts ==
  ASSUME Base, Base', Serial, Authorship, Attached, NEW c \in Calls, CommandStep(c),
         NEW x \in Payloads
  PROVE  Attempts(x)'
<1>1. /\ HandlerStep(c) /\ UNCHANGED <<req, author, tries>> /\ Attempts(x)
      /\ pc \in [Calls -> Labels]
      /\ \A d \in Calls \ {c} : pc'[d] = pc[d]
  BY HandlerFrame DEF CommandStep, page, Attached, Base, Types, TypeOK
<1>2. CASE ~ LogChange(c)
  <2>1. Copied(x)' = Copied(x)
    BY <1>1, <1>2, ListsKept DEF Copied, OwnWrite, AddChanges
  <2>2. c \in Unlogged(x)' => c \in Unlogged(x)
    <3>1. CASE SendStep(c)
      BY <1>1, <1>2, <3>1
      DEF SendStep, PpsStep, PpsCheck, PpsZero, PpsOne, PpsKey, ChangeIdGet,
          ChangeIdSet, ChangeIdReget, OwnCompare, OwnRead, OwnWrite, Goto, Unlogged,
          PpsPcs, ChangeIdPcs
    <3>2. CASE ~ SendStep(c)
      BY <1>1, <3>2, HandlerOf DEF HandlerStep, Unlogged
    <3> QED
      BY <3>1, <3>2
  <2>3. Unlogged(x)' \subseteq Unlogged(x)
    BY <1>1, <2>2 DEF Unlogged
  <2> QED
    BY <1>1, <2>1, <2>3, AttemptsKept DEF Base
<1>3. CASE LogChange(c)
  <2>1. /\ changes' = HSet(changes, loc[c].cid, req[c].change)
        /\ pc[c] = "log_change" /\ pc'[c] = "own_compare"
        /\ req[c].kind = "sendChanges"
    BY <1>1, <1>3, HandlerOf DEF LogChange, Goto, SendStep
  <2>2. loc[c].cid \notin DOMAIN changes
    <3>1. \A i \in DOMAIN changes : i \in Nat /\ i < loc[c].cid
      BY <2>1 DEF Serial, FreshId, Base, Types, TypeOK, StoreTypeOK
    <3> QED
      BY <3>1
  <2>3. CASE req[c].change # x
    <3>1. Copied(x)' \subseteq Copied(x)
      BY <2>1, <2>3 DEF Copied, HSet
    <3>2. Unlogged(x)' \subseteq Unlogged(x)
      BY <1>1, <2>1, <2>3 DEF Unlogged
    <3> QED
      BY <1>1, <3>1, <3>2, AttemptsKept DEF Base
  <2>4. CASE req[c].change = x
    <3>1. Copied(x)' = Copied(x) \cup {loc[c].cid} /\ loc[c].cid \notin Copied(x)
      BY <2>1, <2>2, <2>4 DEF Copied, HSet
    <3>2. Unlogged(x)' = Unlogged(x) \ {c} /\ c \in Unlogged(x)
      BY <1>1, <2>1, <2>4 DEF Unlogged, PpsPcs, ChangeIdPcs
    <3>3. /\ IsFiniteSet(Copied(x)') /\ IsFiniteSet(Unlogged(x)')
          /\ Cardinality(Copied(x)') = Cardinality(Copied(x)) + 1
          /\ Cardinality(Unlogged(x)') = Cardinality(Unlogged(x)) - 1
      <4>1. IsFiniteSet(Copied(x)) /\ IsFiniteSet(Unlogged(x))
        BY <1>1 DEF Attempts
      <4>2. /\ IsFiniteSet(Copied(x) \cup {loc[c].cid})
            /\ Cardinality(Copied(x) \cup {loc[c].cid}) = Cardinality(Copied(x)) + 1
        BY <3>1, <4>1, FS_AddElement
      <4>3. /\ IsFiniteSet(Unlogged(x) \ {c})
            /\ Cardinality(Unlogged(x) \ {c}) = Cardinality(Unlogged(x)) - 1
        BY <3>2, <4>1, FS_RemoveElement
      <4> QED
        BY <3>1, <3>2, <4>2, <4>3
    <3>4. Cardinality(Copied(x)) \in Nat /\ Cardinality(Unlogged(x)) \in Nat /\ tries[x] \in Nat
      BY <1>1, FS_CardinalityType DEF Attempts, Base, Types, TypeOK
    <3> QED
      BY <1>1, <3>3, <3>4 DEF Attempts
  <2> QED
    BY <2>3, <2>4
<1> QED
  BY <1>2, <1>3

(* A new payload starts with one attempt, and a retry is one more.         *)
LEMMA RequestAttempts ==
  ASSUME Base, Base', Authorship, Attached, NEW g \in Guests, NEW c \in Calls,
         PageRequest(g, c), NEW x \in Payloads
  PROVE  Attempts(x)'
<1>1. Attempts(x) /\ UNCHANGED changes /\ Copied(x)' = Copied(x)
  BY RequestOutside DEF Attached, Base, OutsideStep, store, Copied
<1>2. /\ Cardinality(Copied(x)) \in Nat /\ Cardinality(Unlogged(x)) \in Nat /\ tries[x] \in Nat
      /\ tries \in [Payloads -> Nat]
  BY <1>1, FS_CardinalityType DEF Attempts, Base, Types, TypeOK
<1>3. ASSUME NEW kind \in Kinds \ {"sendChanges"}, NEW y, NEW n,
             Issue(g, c, Body(kind, g, y, n)), UNCHANGED page
      PROVE  Attempts(x)'
  <2>1. Unlogged(x)' \subseteq Unlogged(x)
    BY <1>3 DEF Issue, Body, Goto, Unlogged, Base, Types, TypeOK
  <2> QED
    BY <1>1, <1>3, <2>1, AttemptsKept DEF page, Base
<1>4. CASE LoginAsGuest(g, c) \/ HeartbeatTimer(g, c) \/ LogOut(g, c) \/ GetUserNames(g, c)
  BY <1>3, <1>4 DEF LoginAsGuest, HeartbeatTimer, LogOut, GetUserNames, Kinds
<1>5. ASSUME NEW y \in Payloads, SendChangesTimer(g, c, y) PROVE Attempts(x)'
  <2>1. /\ UNCHANGED tries /\ DOMAIN author' = DOMAIN author \cup {y} /\ y \notin DOMAIN author
        /\ req'[c].kind = "sendChanges" /\ req'[c].change = y /\ pc'[c] = "queued"
        /\ \A d \in Calls \ {c} : req'[d] = req[d] /\ pc'[d] = pc[d]
    BY <1>5 DEF SendChangesTimer, Issue, Goto, Body, HSet, Base, Types, TypeOK
  <2>2. CASE x # y
    <3>1. Unlogged(x)' \subseteq Unlogged(x)
      BY <2>1, <2>2 DEF Unlogged
    <3> QED
      BY <1>1, <2>1, <2>2, <3>1, AttemptsKept DEF Base
  <2>3. CASE x = y
    <3>1. Copied(x)' = {} /\ Unlogged(x) = {}
      BY <1>1, <2>1, <2>3, Unsent
    <3>2. Unlogged(x)' = {c}
      BY <2>1, <2>3, <3>1 DEF Unlogged
    <3>3. /\ IsFiniteSet(Copied(x)') /\ Cardinality(Copied(x)') = 0
          /\ IsFiniteSet(Unlogged(x)') /\ Cardinality(Unlogged(x)') = 1
      BY <3>1, <3>2, FS_EmptySet, FS_Singleton
    <3> QED
      BY <1>2, <2>1, <2>3, <3>3 DEF Attempts
  <2> QED
    BY <2>2, <2>3
<1>6. ASSUME NEW retry \in Calls, SendTimeout(g, c, retry) PROVE Attempts(x)'
  <2>1. /\ UNCHANGED author /\ req[c].kind = "sendChanges"
        /\ tries' = [tries EXCEPT ![req[c].change] = @ + 1]
        /\ req'[retry] = req[c] /\ pc'[retry] = "queued"
        /\ \A d \in Calls \ {retry} : req'[d] = req[d] /\ pc'[d] = pc[d]
        /\ req[c].change \in DOMAIN author
    BY <1>6 DEF SendTimeout, Open, Goto, Base, Types, TypeOK, Authorship, Signed
  <2>2. CASE x # req[c].change
    <3>1. Unlogged(x)' \subseteq Unlogged(x)
      BY <2>1, <2>2 DEF Unlogged
    <3>2. /\ IsFiniteSet(Unlogged(x)') /\ tries'[x] = tries[x]
          /\ Cardinality(Unlogged(x)') <= Cardinality(Unlogged(x))
          /\ Cardinality(Unlogged(x)') \in Nat
      BY <1>1, <1>2, <2>1, <2>2, <3>1, FS_Subset, FS_CardinalityType DEF Attempts
    <3> QED
      BY <1>1, <1>2, <2>1, <3>2 DEF Attempts
  <2>3. CASE x = req[c].change
    <3>1. Unlogged(x)' \subseteq Unlogged(x) \cup {retry}
      BY <2>1 DEF Unlogged
    <3>2. /\ IsFiniteSet(Unlogged(x) \cup {retry})
          /\ Cardinality(Unlogged(x) \cup {retry}) <= Cardinality(Unlogged(x)) + 1
          /\ Cardinality(Unlogged(x) \cup {retry}) \in Nat
      <4>1. IsFiniteSet(Unlogged(x))
        BY <1>1 DEF Attempts
      <4> HIDE DEF Unlogged
      <4>2. /\ IsFiniteSet(Unlogged(x) \cup {retry})
            /\ Cardinality(Unlogged(x) \cup {retry})
                 \in {Cardinality(Unlogged(x)), Cardinality(Unlogged(x)) + 1}
        BY <4>1, FS_AddElement
      <4> QED
        BY <1>2, <4>2
    <3>3. /\ IsFiniteSet(Unlogged(x)') /\ Cardinality(Unlogged(x)') \in Nat
          /\ Cardinality(Unlogged(x)') <= Cardinality(Unlogged(x) \cup {retry})
      BY <3>1, <3>2, FS_Subset, FS_CardinalityType
    <3>4. tries'[x] = tries[x] + 1 /\ x \in DOMAIN author'
      BY <1>2, <2>1, <2>3
    <3> QED
      BY <1>1, <1>2, <2>1, <3>2, <3>3, <3>4 DEF Attempts
  <2> QED
    BY <2>2, <2>3
<1>7. CASE SendGiveUp(g, c)
  BY <1>1, <1>7, AttemptsKept DEF SendGiveUp, server, page, Unlogged, Base
<1> QED
  BY <1>4, <1>5, <1>6, <1>7 DEF PageRequest

(* What a heartbeat has fetched stays new to its guest.                    *)
LEMMA OtherNews ==
  ASSUME Base, Authorship, Heard, Lengthened, AuthorsKept, NEW d \in Calls, News(d),
         Untouched(d)
  PROVE  News(d)'
<1>1. \A i \in DOMAIN changes : changes[i] \in DOMAIN author
  BY DEF Authorship
<1>2. \A t \in loc[d].got : t[2] \in DOMAIN author
  BY <1>1 DEF Heard, Complete
<1>3. pc[d] = "hb_fetch" => loc[d].ids \subseteq DOMAIN changes
  BY DEF Base, Served, CallServed
<1>4. \A i \in DOMAIN changes : NameOf[author'[changes'[i]]] = NameOf[author[changes[i]]]
  BY <1>1 DEF Lengthened, OnlyAdds, AuthorsKept
<1>5. \A x \in DOMAIN author : NameOf[author'[x]] = NameOf[author[x]]
  BY DEF AuthorsKept
<1> QED
  BY <1>2, <1>3, <1>4, <1>5 DEF News, Untouched

(* A heartbeat leaves out what its user is listed as the author of, which  *)
(* is all that a guest of that name wrote.                                 *)
LEMMA CommandNews ==
  ASSUME Base, Base', Serial, Authorship, Heard, Attached, NEW c \in Calls, CommandStep(c)
  PROVE  \A d \in Calls : News(d)'
<1>1. /\ HandlerStep(c) /\ Lengthened /\ req' = req /\ UNCHANGED author /\ AuthorsKept
      /\ pc \in [Calls -> Labels] /\ loc \in [Calls -> Locals]
      /\ \A d \in Calls \ {c} : Untouched(d)
  BY CommandLengthens, HandlerFrame
  DEF CommandStep, page, Base, Types, TypeOK, Untouched, AuthorsKept
<1>2. \A d \in Calls \ {c} : News(d)'
  BY <1>1, OtherNews DEF Attached
<1>3. SUFFICES News(c)'
  BY <1>2
<1>4. News(c) /\ Complete(c)
  BY DEF Attached, Heard
<1>5. CASE ~ HeartbeatStep(c)
  <2>1. req[c].kind # "heartbeat"
    BY <1>1, <1>5, HandlerOf DEF HandlerStep
  <2>2. loc'[c].got = loc[c].got /\ loc[c].got = {}
    BY <1>1, <1>4, <1>5, <2>1, OthersGot DEF Base, News
  <2>3. pc'[c] \notin {"hb_own", "hb_fetch"}
    BY <1>1, <2>1 DEF Base, Types, TypeOK, Dispatched, HeartbeatPcs
  <2> QED
    BY <2>2, <2>3 DEF News
<1>6. CASE HeartbeatStep(c)
  <2>1. /\ UNCHANGED changes /\ req[c].kind = "heartbeat" /\ Registered(req[c].user)
    BY <1>6, HandlerOf
    DEF HeartbeatStep, HeartbeatCount, HeartbeatKeys, HeartbeatPosition,
        HeartbeatChanges, HeartbeatOwn, HeartbeatFetch, ReadOnly, store
  <2>2. CASE HeartbeatCount(c) \/ HeartbeatKeys(c) \/ HeartbeatPosition(c)
    <3>1. pc'[c] \notin {"hb_own", "hb_fetch"} /\ loc'[c].got = loc[c].got
      BY <1>1, <2>2
      DEF HeartbeatCount, HeartbeatKeys, HeartbeatPosition, Position, Goto, Locals
    <3> QED
      BY <1>1, <1>4, <3>1 DEF News
  <2>3. CASE HeartbeatChanges(c)
    <3>1. /\ pc'[c] = "hb_own" /\ loc'[c].got = loc[c].got
          /\ loc'[c].ids = {i \in DOMAIN changes : i > req[c].last}
      BY <1>1, <2>3 DEF HeartbeatChanges, Goto, Locals
    <3> QED
      BY <1>1, <1>4, <3>1 DEF News
  <2>4. CASE HeartbeatOwn(c)
    <3>1. /\ pc[c] = "hb_own" /\ pc'[c] \in {"replied", "hb_fetch"}
          /\ loc'[c].got = loc[c].got
          /\ loc'[c].ids = loc[c].ids \ OwnIds(req[c].user)
      BY <1>1, <2>1, <2>4 DEF HeartbeatOwn, Goto, Locals, Registered
    <3>2. \A d \in Calls : ~ Recording(d)
      BY <1>1, <3>1, OthersIdle DEF Base, Handled, HandlerPcs, SendPcs, Recording
    <3>3. loc[c].ids \subseteq DOMAIN changes
      BY <2>1, <3>1, <1>4 DEF Complete
    <3>4. ASSUME NEW i \in loc'[c].ids PROVE NameOf[author[changes[i]]] # req[c].user
      BY <3>1, <3>2, <3>3, <3>4, SerialAttempts DEF Base, Authorship, AuthorshipRecorded
    <3> QED
      BY <1>1, <1>4, <2>1, <3>1, <3>4 DEF News
  <2>5. CASE HeartbeatFetch(c)
    <3>1. PICK i \in loc[c].ids :
            /\ pc[c] = "hb_fetch" /\ i \in DOMAIN changes
            /\ pc'[c] \in {"replied", "hb_fetch"}
            /\ loc'[c].ids \subseteq loc[c].ids
            /\ loc'[c].got = loc[c].got \cup {<<i, changes[i]>>}
      <4>1. pc[c] = "hb_fetch" /\ loc[c].ids \subseteq DOMAIN changes
        BY <1>4, <2>1, <2>5 DEF HeartbeatFetch, Complete
      <4>2. PICK i \in loc[c].ids :
              /\ loc' = [loc EXCEPT ![c].ids = @ \ {i}, ![c].got = @ \cup {<<i, changes[i]>>}]
              /\ pc' = [pc EXCEPT ![c] = IF loc[c].ids = {i} THEN "replied" ELSE "hb_fetch"]
        BY <2>5, <4>1 DEF HeartbeatFetch, Goto
      <4>3. /\ loc'[c].ids = loc[c].ids \ {i} /\ pc'[c] \in {"replied", "hb_fetch"}
            /\ loc'[c].got = loc[c].got \cup {<<i, changes[i]>>}
        BY <1>1, <4>2 DEF Locals
      <4> QED
        BY <4>1, <4>3
    <3>2. /\ \A j \in loc'[c].ids : j > req[c].last /\ NameOf[author[changes[j]]] # req[c].user
          /\ i > req[c].last /\ NameOf[author[changes[i]]] # req[c].user
      BY <1>4, <3>1 DEF News
    <3>3. \A t \in loc'[c].got : t[1] > req[c].last /\ NameOf[author[t[2]]] # req[c].user
      BY <1>4, <3>1, <3>2 DEF News
    <3> QED
      BY <1>1, <2>1, <3>2, <3>3 DEF News
  <2> QED
    BY <1>6, <2>2, <2>3, <2>4, <2>5 DEF HeartbeatStep
<1> QED
  BY <1>5, <1>6

(* A step that runs no handler: a request that is issued has brought       *)
(* nothing yet.                                                            *)
LEMMA OutsideNews ==
  ASSUME Base, Authorship, Heard, OutsideStep, AuthorsKept, NEW d \in Calls, News(d),
         ~ Untouched(d) => \/ loc'[d].got = {}
                           \/ loc'[d] = loc[d] /\ (req'[d] = req[d] \/ req[d] = NoRequest)
  PROVE  News(d)'
<1>1. UNCHANGED changes /\ Lengthened
  BY DEF OutsideStep, store, Lengthened, OnlyAdds
<1>2. CASE Untouched(d)
  BY <1>1, <1>2, OtherNews
<1>3. CASE ~ Untouched(d)
  <2>1. pc'[d] \notin {"hb_own", "hb_fetch"}
    BY <1>3 DEF OutsideStep, Beginnings
  <2>2. \A x \in DOMAIN author : author'[x] = author[x]
    BY DEF AuthorsKept
  <2>3. \A t \in loc[d].got : t[2] \in DOMAIN author
    BY DEF Heard, Complete, Authorship
  <2>4. req[d] = NoRequest => loc[d].got = {}
    BY DEF News, NoRequest
  <2> QED
    BY <1>3, <2>1, <2>2, <2>3, <2>4 DEF News
<1> QED
  BY <1>2, <1>3

(* What is counted for a guest that is told nothing.                       *)
LEMMA CountedKept ==
  ASSUME Base, Base', NEW g \in Guests, NEW x \in Payloads,
         Attempts(x), Pollers(g), Counted(g, x),
         applied'[g][x] = applied[g][x], last'[g] = last[g],
         Copied(x) \subseteq Copied(x)',
         \A i \in Copied(x)' : i \in Copied(x) \/ i > last[g],
         x \in DOMAIN author' => (author'[x] = g => applied[g][x] = 0),
         \A d \in Open(g, "heartbeat")' :
           \/ d \in Open(g, "heartbeat") /\ req'[d] = req[d]
           \/ req'[d].last = last[g]
  PROVE  Counted(g, x)'
<1>1. /\ IsFiniteSet(Passed(g, x)) /\ IsFiniteSet(Repeats(g, x))
      /\ Cardinality(Passed(g, x)) \in Nat /\ Cardinality(Repeats(g, x)) \in Nat
  BY FiniteCounts DEF Attempts, Pollers
<1>2. Copied(x)' \subseteq Nat /\ Copied(x) \subseteq Nat /\ last[g] \in Int
  BY DEF Copied, Base, Types, TypeOK, StoreTypeOK
<1>3. Passed(g, x)' = Passed(g, x)
  BY <1>2 DEF Passed
<1>4. Repeats(g, x)' \subseteq Repeats(g, x)
  <2> SUFFICES ASSUME NEW d \in Open(g, "heartbeat")', NEW i \in Passed(g, x),
                      i > req'[d].last
               PROVE  d \in Open(g, "heartbeat") /\ req'[d] = req[d]
    BY <1>3 DEF Repeats
  <2>1. i \in Nat /\ i <= last[g]
    BY <1>2 DEF Passed
  <2> QED
    BY <1>2, <2>1
<1>5. /\ Cardinality(Repeats(g, x)') \in Nat
      /\ Cardinality(Repeats(g, x)') <= Cardinality(Repeats(g, x))
  BY <1>1, <1>4, FS_Subset, FS_CardinalityType
<1>6. applied[g][x] \in Nat
  BY CappedPositive DEF Base, Types, TypeOK
<1>7. MaxHeartbeats * Cardinality(Passed(g, x)) \in Nat
  BY <1>1, LimitsAssumption
<1> QED
  BY <1>1, <1>3, <1>5, <1>6, <1>7 DEF Counted

(* What nobody has sent has been applied nowhere.                           *)
LEMMA AppliedZero ==
  ASSUME Base, Authorship, NEW g \in Guests, NEW x \in Payloads, x \notin DOMAIN author,
         Attempts(x), Pollers(g), Counted(g, x)
  PROVE  applied[g][x] = 0
<1>1. Passed(g, x) = {}
  BY Unsent DEF Passed
<1>2. Cardinality(Passed(g, x)) = 0
  BY <1>1, FS_EmptySet
<1>3. Cardinality(Repeats(g, x)) \in Nat
  BY FiniteCounts DEF Attempts, Pollers
<1>4. applied[g][x] \in Nat
  BY CappedPositive DEF Base, Types, TypeOK
<1> QED
  BY <1>2, <1>3, <1>4, LimitsAssumption DEF Counted

(* Commands: ids that are new are above what any guest has been told of.   *)
LEMMA CommandAttached ==
  ASSUME Base, Base', Serial, Authorship, Heard, Attached, NEW c \in Calls, CommandStep(c)
  PROVE  Attached'
<1>1. /\ HandlerStep(c) /\ Lengthened
      /\ UNCHANGED <<req, owner, joined, last, author, applied>>
  BY CommandLengthens, HandlerFrame DEF CommandStep, page, Base
<1>2. \A g \in Guests : Open(g, "heartbeat")' = Open(g, "heartbeat")
  BY <1>1 DEF Open
<1>3. ASSUME NEW g \in Guests PROVE Pollers(g)'
  BY <1>1, <1>2 DEF Attached, Pollers
<1>4. ASSUME NEW g \in Guests, NEW x \in Payloads PROVE Counted(g, x)'
  <2>1. Attempts(x) /\ Pollers(g) /\ Counted(g, x)
    BY DEF Attached
  <2>2. last[g] = -1 \/ last[g] \in DOMAIN changes
    BY DEF Attached, Pollers, Heard, Reached
  <2>3. \A i \in DOMAIN changes' : i \in DOMAIN changes \/ i > last[g]
    <3>1. DOMAIN changes \subseteq Nat /\ DOMAIN changes' \subseteq Nat
      BY DEF Base, Types, TypeOK, StoreTypeOK
    <3> QED
      BY <1>1, <2>2, <3>1 DEF Lengthened
  <2>4. /\ Copied(x) \subseteq Copied(x)'
        /\ \A i \in Copied(x)' : i \in Copied(x) \/ i > last[g]
    BY <1>1, <2>3 DEF Copied, Lengthened, OnlyAdds
  <2>5. x \in DOMAIN author' => (author'[x] = g => applied[g][x] = 0)
    BY <1>1, <2>1 DEF Counted
  <2>6. \A d \in Open(g, "heartbeat")' : d \in Open(g, "heartbeat") /\ req'[d] = req[d]
    BY <1>1, <1>2
  <2> QED
    BY <1>1, <2>1, <2>4, <2>5, <2>6, CountedKept
<1> QED
  BY <1>3, <1>4, CommandAttempts, CommandNews DEF Attached

(* The requests of the pages: a heartbeat asks for what is after the last  *)
(* id its guest has been told of.                                          *)
LEMMA RequestAttached ==
  ASSUME Base, Base', Authorship, Heard, Attached, NEW g \in Guests, NEW c \in Calls,
         PageRequest(g, c)
  PROVE  Attached'
<1>1. OutsideStep /\ AuthorsKept /\ UNCHANGED changes
  BY RequestOutside, RequestSigned
  DEF Base, Authorship, AuthorsKept, RepeatsKept, OutsideStep, store
<1>2. UNCHANGED <<joined, last, applied, loc>>
  BY DEF PageRequest, LoginAsGuest, HeartbeatTimer, SendChangesTimer, SendTimeout,
         SendGiveUp, LogOut, GetUserNames, Issue, server, page
<1>3. \A d \in Calls : req'[d] = req[d] \/ req[d] = NoRequest
  <2>1. ASSUME NEW body, Issue(g, c, body) PROVE \A d \in Calls : req'[d] = req[d] \/ req[d] = NoRequest
    BY <2>1 DEF Issue, Base, Types, TypeOK, Dispatched
  <2>2. ASSUME NEW retry \in Calls, SendTimeout(g, c, retry)
        PROVE  \A d \in Calls : req'[d] = req[d] \/ req[d] = NoRequest
    BY <2>2 DEF SendTimeout, Base, Types, TypeOK, Dispatched
  <2> QED
    BY <2>1, <2>2
    DEF PageRequest, LoginAsGuest, HeartbeatTimer, SendChangesTimer, SendGiveUp, LogOut,
        GetUserNames, server
<1>4. \A d \in Calls : News(d)'
  BY <1>1, <1>2, <1>3, OutsideNews DEF Attached
<1>5. ASSUME NEW h \in Guests
      PROVE  \/ /\ \A d \in Open(h, "heartbeat")' : d \in Open(h, "heartbeat") /\ req'[d] = req[d]
             \/ /\ Open(h, "heartbeat")' = Open(h, "heartbeat") \cup {c}
                /\ \A d \in Open(h, "heartbeat") : req'[d] = req[d]
                /\ req'[c].last = last[h] /\ h \in joined
                /\ Cardinality(Open(h, "heartbeat")) < MaxHeartbeats
  <2>1. ASSUME NEW kind \in Kinds \ {"heartbeat"}, NEW x, NEW n, Issue(g, c, Body(kind, g, x, n))
        PROVE  \A d \in Open(h, "heartbeat")' : d \in Open(h, "heartbeat") /\ req'[d] = req[d]
    BY <2>1 DEF Issue, Body, Open, Base, Types, TypeOK
  <2>2. CASE LoginAsGuest(g, c) \/ LogOut(g, c) \/ GetUserNames(g, c)
             \/ \E x \in Payloads : SendChangesTimer(g, c, x)
    BY <2>1, <2>2 DEF LoginAsGuest, SendChangesTimer, LogOut, GetUserNames, Kinds
  <2>3. ASSUME NEW retry \in Calls, SendTimeout(g, c, retry)
        PROVE  \A d \in Open(h, "heartbeat")' : d \in Open(h, "heartbeat") /\ req'[d] = req[d]
    <3>1. /\ req[c].kind = "sendChanges" /\ req'[retry] = req[c]
          /\ \A d \in Calls \ {retry} : req'[d] = req[d]
          /\ \A d \in Calls \ {retry, c} : owner'[d] = owner[d]
      BY <2>3 DEF SendTimeout, Open, Base, Types, TypeOK
    <3> QED
      BY <3>1 DEF Open
  <2>4. CASE SendGiveUp(g, c)
    BY <2>4, GuestsAssumption DEF SendGiveUp, server, Open, Base, Types, TypeOK
  <2>5. CASE HeartbeatTimer(g, c)
    <3>1. /\ req'[c].kind = "heartbeat" /\ req'[c].last = last[g] /\ owner'[c] = g
          /\ req[c] = NoRequest /\ g \in joined
          /\ \A d \in Calls \ {c} : req'[d] = req[d] /\ owner'[d] = owner[d]
          /\ Cardinality(Open(g, "heartbeat")) < MaxHeartbeats
      BY <2>5 DEF HeartbeatTimer, Issue, Body, Base, Types, TypeOK, Dispatched
    <3>2. c \notin Open(h, "heartbeat")
      BY <3>1 DEF Open, NoRequest
    <3>3. CASE h # g
      BY <3>1, <3>3 DEF Open
    <3>4. CASE h = g
      <4>1. Open(h, "heartbeat")' = Open(h, "heartbeat") \cup {c}
        BY <3>1, <3>4 DEF Open
      <4>2. \A d \in Open(h, "heartbeat") : req'[d] = req[d]
        BY <3>1, <3>2 DEF Open
      <4> QED
        BY <3>1, <3>4, <4>1, <4>2
    <3> QED
      BY <3>3, <3>4
  <2> QED
    BY <2>2, <2>3, <2>4, <2>5 DEF PageRequest
<1>6. ASSUME NEW h \in Guests PROVE Pollers(h)'
  <2>1. Pollers(h) /\ Cardinality(Open(h, "heartbeat")) \in Nat
    BY FS_CardinalityType DEF Attached, Pollers
  <2>2. CASE Open(h, "heartbeat")' \subseteq Open(h, "heartbeat")
    <3>1. /\ IsFiniteSet(Open(h, "heartbeat")')
          /\ Cardinality(Open(h, "heartbeat")') <= Cardinality(Open(h, "heartbeat"))
          /\ Cardinality(Open(h, "heartbeat")') \in Nat
      BY <2>1, <2>2, FS_Subset, FS_CardinalityType DEF Pollers
    <3> QED
      BY <1>2, <2>1, <3>1, LimitsAssumption DEF Pollers
  <2>3. CASE /\ Open(h, "heartbeat")' = Open(h, "heartbeat") \cup {c} /\ h \in joined
             /\ Cardinality(Open(h, "heartbeat")) < MaxHeartbeats
    <3>1. /\ IsFiniteSet(Open(h, "heartbeat") \cup {c})
          /\ Cardinality(Open(h, "heartbeat") \cup {c})
               \in {Cardinality(Open(h, "heartbeat")), Cardinality(Open(h, "heartbeat")) + 1}
      BY <2>1, FS_AddElement DEF Pollers
    <3>2. Cardinality(Open(h, "heartbeat") \cup {c}) <= MaxHeartbeats
      BY <2>1, <2>3, <3>1, LimitsAssumption
    <3> QED
      BY <1>2, <2>3, <3>1, <3>2 DEF Pollers
  <2> QED
    BY <1>5, <2>2, <2>3
<1>7. ASSUME NEW h \in Guests, NEW x \in Payloads PROVE Counted(h, x)'
  <2>1. Attempts(x) /\ Pollers(h) /\ Counted(h, x)
    BY DEF Attached
  <2>2. Copied(x)' = Copied(x)
    BY <1>1 DEF Copied
  <2>3. x \in DOMAIN author' => (author'[x] = h => applied[h][x] = 0)
    <3>1. x \in DOMAIN author => author'[x] = author[x]
      BY <1>1 DEF AuthorsKept
    <3> QED
      BY <2>1, <3>1, AppliedZero DEF Counted
  <2>4. \A d \in Open(h, "heartbeat")' :
          \/ d \in Open(h, "heartbeat") /\ req'[d] = req[d]
          \/ req'[d].last = last[h]
    BY <1>5
  <2> QED
    BY <1>2, <2>1, <2>2, <2>3, <2>4, CountedKept
<1> QED
  BY <1>4, <1>6, <1>7, RequestAttempts DEF Attached

(* The arithmetic of a heartbeat's answer: what call c brings is either    *)
(* one of the ids that the calls in "open" may still bring again, or one   *)
(* that is new; from then on the other calls may bring the new ones again. *)
LEMMA AttachCount ==
  ASSUME NEW open, IsFiniteSet(open), NEW c \in open,
         NEW fresh, IsFiniteSet(fresh), NEW again, IsFiniteSet(again),
         NEW got, IsFiniteSet(got), NEW later,
         \A t \in got : <<c, t[1]>> \in again \/ t[1] \in fresh,
         \A s, t \in got : s[1] = t[1] => s = t,
         later \subseteq again \cup (open \X fresh),
         \A p \in later : p[1] # c
  PROVE  Cardinality(got) + Cardinality(later)
           <= Cardinality(again) + Cardinality(open) * Cardinality(fresh)
<1> DEFINE all == again \cup (open \X fresh)
           pairs == {<<c, t[1]>> : t \in got}
           pair == [t \in got |-> <<c, t[1]>>]
<1>1. /\ IsFiniteSet(open \X fresh)
      /\ Cardinality(open \X fresh) = Cardinality(open) * Cardinality(fresh)
  BY FS_Product
<1>2. /\ IsFiniteSet(all)
      /\ Cardinality(all) <= Cardinality(again) + Cardinality(open \X fresh)
  <2>1. /\ IsFiniteSet(all)
        /\ Cardinality(all) = Cardinality(again) + Cardinality(open \X fresh)
                                - Cardinality(again \cap (open \X fresh))
    BY <1>1, FS_Union
  <2>2. IsFiniteSet(again \cap (open \X fresh))
    BY FS_Subset
  <2> QED
    BY <1>1, <2>1, <2>2, FS_CardinalityType
<1>3. pairs \subseteq all /\ IsFiniteSet(pairs)
  <2>1. pairs \subseteq all
    OBVIOUS
  <2> QED
    BY <1>2, <2>1, FS_Subset
<1>4. Cardinality(got) <= Cardinality(pairs)
  <2>1. pair \in [got -> pairs]
    OBVIOUS
  <2>2. \A s, t \in got : pair[s] = pair[t] => s = t
    OBVIOUS
  <2>3. pair \in Injection(got, pairs)
    BY <2>1, <2>2, Fun_IsInj
  <2> HIDE DEF pair, pairs
  <2> QED
    BY <1>3, <2>3, FS_Injection
<1>5. pairs \cap later = {} /\ IsFiniteSet(later)
  <2>1. \A p \in pairs : p[1] = c
    OBVIOUS
  <2>2. IsFiniteSet(later)
    BY <1>2, FS_Subset
  <2> QED
    BY <2>1, <2>2
<1>6. Cardinality(pairs \cup later) = Cardinality(pairs) + Cardinality(later)
  <2>1. Cardinality(pairs \cup later)
          = Cardinality(pairs) + Cardinality(later) - Cardinality(pairs \cap later)
    BY <1>3, <1>5, FS_Union
  <2>2. Cardinality(pairs \cap later) = 0
    BY <1>5, FS_EmptySet
  <2> QED
    BY <1>3, <1>5, <2>1, <2>2, FS_CardinalityType
<1>7. Cardinality(pairs \cup later) <= Cardinality(all)
  BY <1>2, <1>3, FS_Subset
<1> HIDE DEF all, pairs, pair
<1>8. /\ Cardinality(got) \in Nat /\ Cardinality(later) \in Nat /\ Cardinality(pairs) \in Nat
      /\ Cardinality(all) \in Nat /\ Cardinality(again) \in Nat
      /\ Cardinality(open \X fresh) \in Nat
  BY <1>1, <1>2, <1>3, <1>5, FS_CardinalityType
<1> QED
  BY <1>1, <1>2, <1>4, <1>6, <1>7, <1>8

(* Multiplication keeps the order of naturals.                              *)
LEMMA TimesMonotone ==
  ASSUME NEW a \in Nat, NEW b \in Nat, NEW n \in Nat, a <= b
  PROVE  a * n \in Nat /\ b * n \in Nat /\ a * n <= b * n
<1>1. PICK d \in Nat : b = a + d
  <2>1. b - a \in Nat /\ b = a + (b - a)
    OBVIOUS
  <2> QED
    BY <2>1
<1>2. b * n = a * n + d * n
  BY <1>1
<1>3. a * n \in Nat /\ d * n \in Nat
  OBVIOUS
<1> QED
  BY <1>2, <1>3

(* The callback that attaches what a heartbeat has brought.                *)
LEMMA HeartbeatDoneCounted ==
  ASSUME Base, Base', Authorship, Heard, Attached, NEW c \in Calls, NEW g \in Guests,
         owner[c] = g, HeartbeatDone(c), pc[c] = "replied", NEW x \in Payloads
  PROVE  Counted(g, x)'
<1> DEFINE got == {t \in loc[c].got : t[2] = x}
           open == Open(g, "heartbeat")
           fresh == {i \in Copied(x)' : i > last[g] /\ i <= last'[g]}
           later == {p \in (open \ {c}) \X (Passed(g, x) \cup fresh) : p[2] > req[p[1]].last}
<1>1. /\ last \in [Guests -> Int] /\ applied \in [Guests -> [Payloads -> 0..AppliedCap]]
      /\ IsFiniteSet(loc[c].got) /\ DOMAIN changes \subseteq Nat
      /\ loc[c].got \subseteq Nat \X Payloads
  BY DEF Base, Types, TypeOK, StoreTypeOK, FiniteHashes, Locals
<1>2. /\ UNCHANGED <<author, changes>> /\ req[c].kind = "heartbeat" /\ g # None
      /\ req[c].user = NameOf[g]
  BY GuestsAssumption
  DEF HeartbeatDone, Answer, Free, store, Base, Served, CallServed
<1>3. /\ News(c) /\ Complete(c) /\ Attempts(x) /\ Pollers(g) /\ Counted(g, x)
      /\ Copied(x)' = Copied(x)
  BY <1>2 DEF Heard, Attached, Copied
<1>4. /\ \A t \in loc[c].got : t[1] <= last'[g]
      /\ last'[g] >= last[g] /\ last'[g] \in Int
      /\ applied'[g][x] = AtMost(applied[g][x] + Copies(loc[c].got, x), AppliedCap)
  <2>1. PICK m \in {last[g]} \cup {t[1] : t \in loc[c].got} :
          (\A i \in {last[g]} \cup {t[1] : t \in loc[c].got} : i <= m) /\ last'[g] = m
    BY <1>1 DEF HeartbeatDone
  <2>2. applied'[g][x] = AtMost(applied[g][x] + Copies(loc[c].got, x), AppliedCap)
    BY <1>1 DEF HeartbeatDone
  <2> QED
    BY <1>1, <2>1, <2>2
<1>5. /\ Open(g, "heartbeat")' = open \ {c} /\ c \in open
      /\ \A d \in open \ {c} : req'[d] = req[d]
  <2>1. /\ \A d \in Calls \ {c} : req'[d] = req[d] /\ owner'[d] = owner[d]
        /\ owner'[c] = None
    BY DEF HeartbeatDone, Free, Base, Types, TypeOK
  <2> QED
    BY <1>2, <2>1 DEF Open
<1>6. /\ IsFiniteSet(Passed(g, x)) /\ IsFiniteSet(Repeats(g, x)) /\ IsFiniteSet(open)
      /\ Cardinality(Passed(g, x)) \in Nat /\ Cardinality(Repeats(g, x)) \in Nat
      /\ Cardinality(open) \in Nat /\ Cardinality(open) <= MaxHeartbeats
  BY <1>3, FiniteCounts DEF Attempts, Pollers
<1>7. Copied(x) \subseteq Nat
  BY <1>1 DEF Copied
<1>8. /\ Passed(g, x)' = Passed(g, x) \cup fresh /\ Passed(g, x) \cap fresh = {}
      /\ IsFiniteSet(fresh) /\ IsFiniteSet(got)
  <2>1. Passed(g, x)' = Passed(g, x) \cup fresh
    BY <1>1, <1>3, <1>4, <1>7 DEF Passed
  <2>2. Passed(g, x) \cap fresh = {}
    BY <1>1, <1>3, <1>7 DEF Passed
  <2>3. IsFiniteSet(fresh) /\ IsFiniteSet(got)
    BY <1>1, <1>3, FS_Subset DEF Attempts
  <2> QED
    BY <2>1, <2>2, <2>3
<1>9. Repeats(g, x)' = later
  BY <1>5, <1>8 DEF Repeats
<1>10. \A t \in got : <<c, t[1]>> \in Repeats(g, x) \/ t[1] \in fresh
  <2> SUFFICES ASSUME NEW t \in got PROVE <<c, t[1]>> \in Repeats(g, x) \/ t[1] \in fresh
    OBVIOUS
  <2>1. /\ t[1] \in Nat /\ t[1] \in Copied(x) /\ t[1] <= last'[g] /\ t[1] > req[c].last
    BY <1>1, <1>3, <1>4 DEF Complete, News, Copied
  <2>2. CASE t[1] <= last[g]
    BY <1>5, <2>1, <2>2 DEF Passed, Repeats
  <2>3. CASE ~ (t[1] <= last[g])
    BY <1>1, <1>3, <2>1, <2>3
  <2> QED
    BY <2>2, <2>3
<1>11. \A s, t \in got : s[1] = t[1] => s = t
  BY <1>1
<1>12. later \subseteq Repeats(g, x) \cup (open \X fresh) /\ \A p \in later : p[1] # c
  BY DEF Repeats
<1>13. Cardinality(got) + Cardinality(later)
         <= Cardinality(Repeats(g, x)) + Cardinality(open) * Cardinality(fresh)
  <2> HIDE DEF got, open, fresh, later
  <2> QED
    BY <1>5, <1>6, <1>8, <1>10, <1>11, <1>12, AttachCount
<1>14. /\ Cardinality(Passed(g, x)') = Cardinality(Passed(g, x)) + Cardinality(fresh)
       /\ Cardinality(fresh) \in Nat /\ Cardinality(got) \in Nat /\ Cardinality(later) \in Nat
  <2>1. Cardinality(Passed(g, x) \cup fresh)
          = Cardinality(Passed(g, x)) + Cardinality(fresh) - Cardinality(Passed(g, x) \cap fresh)
    BY <1>6, <1>8, FS_Union
  <2>2. Cardinality(Passed(g, x) \cap fresh) = 0
    BY <1>8, FS_EmptySet
  <2>3. IsFiniteSet(later)
    <3>1. IsFiniteSet(open \X fresh)
      BY <1>6, <1>8, FS_Product
    <3>2. IsFiniteSet(Repeats(g, x) \cup (open \X fresh))
      BY <1>6, <3>1, FS_Union
    <3> QED
      BY <1>12, <3>2, FS_Subset
  <2>4. Cardinality(fresh) \in Nat /\ Cardinality(got) \in Nat /\ Cardinality(later) \in Nat
    BY <1>8, <2>3, FS_CardinalityType
  <2> QED
    BY <1>6, <1>8, <2>1, <2>2, <2>4
<1>15. Copies(loc[c].got, x) = Cardinality(got)
  BY DEF Copies
<1> HIDE DEF got, open, fresh, later
<1>16. /\ applied[g][x] \in Nat /\ applied'[g][x] \in Nat
       /\ applied'[g][x] <= applied[g][x] + Cardinality(got)
  BY <1>1, <1>4, <1>14, <1>15, CappedPositive DEF AtMost
<1>17. x \in DOMAIN author' => (author'[x] = g => applied'[g][x] = 0)
  <2> SUFFICES ASSUME x \in DOMAIN author, author[x] = g PROVE applied'[g][x] = 0
    BY <1>2
  <2>1. got = {}
    BY <1>2, <1>3 DEF News, got
  <2>2. Cardinality(got) = 0
    BY <2>1, FS_EmptySet
  <2>3. applied[g][x] = 0
    BY <1>3 DEF Counted
  <2> QED
    BY <1>16, <2>2, <2>3
<1>18. applied'[g][x] + Cardinality(later) <= MaxHeartbeats * Cardinality(Passed(g, x)')
  <2>1. applied[g][x] + Cardinality(Repeats(g, x)) <= MaxHeartbeats * Cardinality(Passed(g, x))
    BY <1>3 DEF Counted
  <2>2. /\ Cardinality(open) * Cardinality(fresh) <= MaxHeartbeats * Cardinality(fresh)
        /\ Cardinality(open) * Cardinality(fresh) \in Nat
        /\ MaxHeartbeats * Cardinality(fresh) \in Nat
    BY <1>6, <1>14, TimesMonotone, LimitsAssumption
  <2>3. /\ MaxHeartbeats * (Cardinality(Passed(g, x)) + Cardinality(fresh))
             = MaxHeartbeats * Cardinality(Passed(g, x)) + MaxHeartbeats * Cardinality(fresh)
        /\ MaxHeartbeats * Cardinality(Passed(g, x)) \in Nat
    BY <1>6, <1>14, LimitsAssumption
  <2> QED
    BY <1>6, <1>13, <1>14, <1>16, <2>1, <2>2, <2>3
<1> QED
  BY <1>9, <1>17, <1>18 DEF Counted

(* The callbacks.                                                          *)
LEMMA CallbackAttached ==
  ASSUME Base, Base', Claims, Authorship, Heard, Attached, NEW c \in Calls, Callback(c)
  PROVE  Attached'
<1>1. Free(c) /\ UNCHANGED <<author, changes, tries>> /\ AuthorsKept /\ pc[c] \in Answered
  BY DEF Callback, LoginDone, HeartbeatDone, SendChangesDone, AnswerIgnored, Answer,
         Free, page, store, AuthorsKept
<1>2. /\ \A d \in Calls \ {c} : Untouched(d) /\ owner'[d] = owner[d]
      /\ pc'[c] = "idle" /\ loc'[c].got = {} /\ owner'[c] = None
  BY <1>1 DEF Free, Goto, Untouched, NoLocals, Base, Types, TypeOK
<1>3. OutsideStep
  BY <1>1, <1>2, PcsDisjoint
  DEF Free, OutsideStep, Beginnings, Handled, HandlerPcs, Answered
<1>4. \A d \in Calls : News(d)'
  BY <1>1, <1>2, <1>3, OutsideNews DEF Attached
<1>5. ASSUME NEW x \in Payloads PROVE Attempts(x)'
  <2>1. Copied(x)' = Copied(x)
    BY <1>1 DEF Copied
  <2>2. Unlogged(x)' \subseteq Unlogged(x)
    BY <1>2, PcsDisjoint DEF Unlogged, Untouched, PpsPcs, ChangeIdPcs
  <2> QED
    BY <1>1, <2>1, <2>2, AttemptsKept DEF Attached, Base
<1>6. ASSUME NEW g \in Guests
      PROVE  \A d \in Open(g, "heartbeat")' : d \in Open(g, "heartbeat") /\ req'[d] = req[d]
  BY <1>2, GuestsAssumption DEF Open, Untouched
<1>7. ASSUME NEW g \in Guests
      PROVE  \/ applied'[g] = applied[g] /\ last'[g] = last[g]
             \/ owner[c] = g /\ HeartbeatDone(c) /\ pc[c] = "replied" /\ g \in joined
  <2>1. CASE LoginDone(c)
    <3>1. UNCHANGED applied
      BY <2>1 DEF LoginDone
    <3>2. owner[c] = g /\ pc[c] = "replied" => last[g] = -1
      <4> SUFFICES ASSUME owner[c] = g, pc[c] = "replied" PROVE g \notin joined
        BY DEF Attached, Pollers
      <4>1. Claimed(c) /\ req[c].user = NameOf[g]
        BY <2>1, GuestsAssumption DEF LoginDone, Answer, Claimed, Base, Served, CallServed
      <4> QED
        BY <4>1 DEF Claims
    <3> QED
      BY <2>1, <3>1, <3>2 DEF LoginDone, Base, Types, TypeOK
  <2>2. CASE HeartbeatDone(c)
    <3>1. owner[c] \in joined
      BY <2>2 DEF HeartbeatDone, Answer, Heard, Asked
    <3> QED
      BY ZenonT(30), <2>2, <3>1 DEF HeartbeatDone, Base, Types, TypeOK
  <2>3. CASE SendChangesDone(c) \/ AnswerIgnored(c)
    BY <2>3 DEF SendChangesDone, AnswerIgnored, page
  <2> QED
    BY <2>1, <2>2, <2>3 DEF Callback
<1>8. ASSUME NEW g \in Guests PROVE Pollers(g)'
  <2>1. Pollers(g) /\ Cardinality(Open(g, "heartbeat")) \in Nat
    BY FS_CardinalityType DEF Attached, Pollers
  <2>2. /\ IsFiniteSet(Open(g, "heartbeat")')
        /\ Cardinality(Open(g, "heartbeat")') <= Cardinality(Open(g, "heartbeat"))
        /\ Cardinality(Open(g, "heartbeat")') \in Nat
    BY <1>6, <2>1, FS_Subset, FS_CardinalityType DEF Pollers
  <2>3. joined \subseteq joined'
    BY DEF Callback, LoginDone, HeartbeatDone, SendChangesDone, AnswerIgnored, page
  <2>4. g \notin joined' => last'[g] = -1
    BY <1>7, <2>1, <2>3 DEF Pollers
  <2> QED
    BY <2>1, <2>2, <2>4, LimitsAssumption DEF Pollers
<1>9. ASSUME NEW g \in Guests, NEW x \in Payloads PROVE Counted(g, x)'
  <2>1. Attempts(x) /\ Pollers(g) /\ Counted(g, x)
    BY DEF Attached
  <2>2. CASE applied'[g] = applied[g] /\ last'[g] = last[g]
    <3>1. Copied(x)' = Copied(x)
      BY <1>1 DEF Copied
    <3>2. x \in DOMAIN author' => (author'[x] = g => applied[g][x] = 0)
      BY <1>1, <2>1 DEF Counted
    <3> QED
      BY <1>6, <2>1, <2>2, <3>1, <3>2, CountedKept
  <2>3. CASE owner[c] = g /\ HeartbeatDone(c) /\ pc[c] = "replied"
    BY <2>3, HeartbeatDoneCounted
  <2> QED
    BY <1>7, <2>2, <2>3
<1> QED
  BY <1>4, <1>5, <1>8, <1>9 DEF Attached

(* Every step of a server that handles one request at a time.              *)
LEMMA NextAttached ==
  Base /\ Base' /\ Serial /\ Claims /\ Authorship /\ Heard /\ Attached /\ [Next]_vars
    => Attached'
<1> SUFFICES ASSUME Base, Base', Serial, Claims, Authorship, Heard, Attached, [Next]_vars
             PROVE  Attached'
  OBVIOUS
<1>1. ASSUME OutsideStep, UNCHANGED <<req, loc, owner, page>>,
             \A c \in Calls : Untouched(c) \/ pc[c] = "queued"
      PROVE  Attached'
  <2>1. /\ AuthorsKept
        /\ UNCHANGED <<changes, author, joined, last, applied, tries>>
    BY <1>1 DEF AuthorsKept, OutsideStep, store, page
  <2>2. \A d \in Calls : News(d)'
    BY <1>1, <2>1, OutsideNews DEF Attached
  <2>3. ASSUME NEW x \in Payloads PROVE Attempts(x)'
    <3>1. Copied(x)' = Copied(x)
      BY <2>1 DEF Copied
    <3>2. Unlogged(x)' \subseteq Unlogged(x)
      BY <1>1 DEF Unlogged, Untouched
    <3> QED
      BY <2>1, <3>1, <3>2, AttemptsKept DEF Attached, Base
  <2>4. ASSUME NEW g \in Guests PROVE Pollers(g)' /\ \A x \in Payloads : Counted(g, x)'
    <3>1. Open(g, "heartbeat")' = Open(g, "heartbeat")
      BY <1>1 DEF Open
    <3>2. \A x \in Payloads : Counted(g, x)'
      BY <1>1, <2>1, <3>1 DEF Attached, Counted, Passed, Repeats, Copied
    <3> QED
      BY <2>1, <3>1, <3>2 DEF Attached, Pollers
  <2> QED
    BY <2>2, <2>3, <2>4 DEF Attached
<1>2. ASSUME NEW c \in Calls, Accept(c), UNCHANGED <<owner, page>> PROVE Attached'
  <2>1. /\ pc'[c] \in Beginnings /\ \A d \in Calls \ {c} : Untouched(d)
        /\ pc[c] = "queued" /\ UNCHANGED <<store, starts, req, loc>>
    BY <1>2
    DEF Accept, Goto, Entry, Beginnings, Untouched, Base, Types, TypeOK, Dispatched, Request, Kinds
  <2>2. OutsideStep
    BY <2>1, PcsDisjoint DEF OutsideStep, Handled, HandlerPcs
  <2> QED
    BY <1>1, <1>2, <2>1, <2>2
<1>3. CASE UNCHANGED vars
  BY <1>1, <1>3 DEF vars, server, OutsideStep, Untouched
<1>4. ~ Startup
  BY DEF Startup, Base, Types, TypeOK
<1> QED
  BY <1>2, <1>3, <1>4, CommandAttached, RequestAttached, CallbackAttached
  DEF Next, ServerStep, CommandStep

(* A guest never attaches a change of its own, and attaches one of the     *)
(* others at most once per attempt at sending it and per heartbeat that    *)
(* can be open: the server logs a payload once per attempt, and a guest    *)
(* asks for an id again only in the heartbeats that were open when it was  *)
(* first told of it.                                                       *)
THEOREM AttachedAtMostOnce ==
  ASSUME Workers = 1, MaxStarts = 0
  PROVE  Spec => []AttachedOnce
<1>1. Init => Attached
  <2> SUFFICES ASSUME Init PROVE Attached
    OBVIOUS
  <2>1. \A c \in Calls : News(c)
    BY DEF Init, ServerInit, NoLocals, News
  <2>2. ASSUME NEW x \in Payloads PROVE Copied(x) = {} /\ Unlogged(x) = {}
    BY DEF Init, ServerInit, StoreEmpty, EmptyHash, NoRequest, Copied, Unlogged
  <2>3. ASSUME NEW x \in Payloads PROVE Attempts(x)
    BY <2>2, FS_EmptySet DEF Init, EmptyHash, Attempts
  <2>4. ASSUME NEW g \in Guests PROVE Open(g, "heartbeat") = {} /\ Pollers(g)
    <3>1. Open(g, "heartbeat") = {}
      BY DEF Init, ServerInit, NoRequest, Open
    <3> QED
      BY <3>1, FS_EmptySet, LimitsAssumption DEF Init, Pollers
  <2>5. ASSUME NEW g \in Guests, NEW x \in Payloads PROVE Counted(g, x)
    <3>1. Passed(g, x) = {} /\ Repeats(g, x) = {}
      BY <2>2, <2>4 DEF Passed, Repeats
    <3> QED
      BY <3>1, FS_EmptySet, LimitsAssumption DEF Init, Counted
  <2> QED
    BY <2>1, <2>3, <2>4, <2>5 DEF Attached
<1>2. Types /\ Attached => AttachedOnce
  <2> SUFFICES ASSUME Types, Attached, NEW g \in Guests, NEW x \in DOMAIN author, author[x] # g
               PROVE  applied[g][x] <= MaxHeartbeats * (1 + tries[x])
    BY DEF AttachedOnce, Attached, Counted, Types, TypeOK
  <2>1. x \in Payloads /\ tries[x] \in Nat /\ applied[g][x] \in Nat
    BY CappedPositive DEF Types, TypeOK
  <2>2. Attempts(x) /\ Pollers(g) /\ Counted(g, x)
    BY <2>1 DEF Attached
  <2>3. /\ Cardinality(Passed(g, x)) \in Nat /\ Cardinality(Repeats(g, x)) \in Nat
        /\ Cardinality(Copied(x)) \in Nat
        /\ Cardinality(Passed(g, x)) <= Cardinality(Copied(x))
    BY <2>2, FiniteCounts DEF Attempts, Pollers
  <2>4. Cardinality(Passed(g, x)) <= 1 + tries[x]
    BY <2>1, <2>2, <2>3, FS_CardinalityType DEF Attempts
  <2>5. MaxHeartbeats * Cardinality(Passed(g, x)) <= MaxHeartbeats * (1 + tries[x])
    <3>1. /\ Cardinality(Passed(g, x)) * MaxHeartbeats <= (1 + tries[x]) * MaxHeartbeats
      BY <2>1, <2>3, <2>4, TimesMonotone, LimitsAssumption
    <3> QED
      BY <2>1, <2>3, <3>1, LimitsAssumption
  <2>6. /\ MaxHeartbeats * Cardinality(Passed(g, x)) \in Nat
        /\ MaxHeartbeats * (1 + tries[x]) \in Nat
    BY <2>1, <2>3, LimitsAssumption
  <2> QED
    BY <2>1, <2>2, <2>3, <2>5, <2>6 DEF Counted
<1>3. Types /\ Served /\ (Types /\ Served)' /\ starts = 0 /\ (starts = 0)'
      /\ (starts = 0 => Serial) /\ (starts = 0 => Claims) /\ (starts = 0 => Authorship)
      /\ (starts = 0 => Heard) /\ Attached /\ [Next]_vars => Attached'
  BY NextAttached DEF Base
<1> QED
  BY <1>1, <1>2, <1>3, BaseAlways, OneProcess, SerialAlways, ClaimsAlways,
     AuthorshipAlways, HeardAlways, PTL DEF Spec, OneWorker
=============================================================================
