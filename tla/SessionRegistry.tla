--------------------------- MODULE SessionRegistry ---------------------------
(***************************************************************************)
(* Names, positions and authorship in module Session, for one server       *)
(* process: what the registry of users and the lists of own changes say    *)
(* while requests run.                                                     *)
(***************************************************************************)
EXTENDS SessionSafety, SequenceTheorems

-----------------------------------------------------------------------------
(***************************************************************************)
(* The steps of a server that is not started again: a command of one       *)
(* handler, or a step that leaves the store and the handlers alone.        *)
(***************************************************************************)
Untouched(d) == pc'[d] = pc[d] /\ req'[d] = req[d] /\ loc'[d] = loc[d]

(* Where a call is when it is free, on its way or about to be handled.     *)
Beginnings == {"idle", "queued", "login_index", "hb_count", "pps_check",
               "deinitialize", "names"}

OutsideStep ==
  /\ UNCHANGED <<store, starts>>
  /\ \A d \in Calls : Untouched(d) \/ (~ Handled(d) /\ pc'[d] \in Beginnings)

CommandStep(c) == HandlerStep(c) /\ UNCHANGED <<owner, page>>

(* What is known already of every state of one server process.             *)
Base == Types /\ Served /\ starts = 0

(* The requests and answers of the pages, and accepting a request, are     *)
(* steps of the second kind.                                               *)
LEMMA RequestOutside ==
  ASSUME Types, NEW g \in Guests, NEW c \in Calls, PageRequest(g, c)
  PROVE  OutsideStep
<1>1. CASE SendGiveUp(g, c)
  BY <1>1 DEF SendGiveUp, server, store, OutsideStep, Untouched
<1>2. CASE ~ SendGiveUp(g, c)
  <2>1. PICK k \in Calls : /\ pc[k] = "idle" /\ pc' = [pc EXCEPT ![k] = "queued"]
                           /\ \E r : req' = [req EXCEPT ![k] = r]
                           /\ UNCHANGED <<store, loc, starts>>
    BY <1>2
    DEF PageRequest, LoginAsGuest, HeartbeatTimer, SendChangesTimer, SendTimeout,
        LogOut, GetUserNames, Issue, Goto
  <2> QED
    BY <2>1, PcsDisjoint DEF OutsideStep, Untouched, Beginnings, Handled, Types, TypeOK
<1> QED
  BY <1>1, <1>2

(* There are no other steps, as long as the server is not started again.    *)
LEMMA StepKinds ==
  ASSUME Types, [Next]_vars, starts' = 0
  PROVE  OutsideStep \/ \E c \in Calls : CommandStep(c)
<1>1. CASE UNCHANGED vars
  BY <1>1 DEF vars, server, OutsideStep, Untouched
<1>2. ASSUME NEW g \in Guests, NEW c \in Calls, PageRequest(g, c) PROVE OutsideStep
  BY <1>2, RequestOutside
<1>3. ASSUME NEW c \in Calls, Callback(c) PROVE OutsideStep
  <2>1. Free(c) /\ pc[c] \in Answered
    BY <1>3
    DEF Callback, LoginDone, HeartbeatDone, SendChangesDone, AnswerIgnored, Answer
  <2>2. ~ Handled(c)
    BY <2>1, PcsDisjoint DEF Handled, HandlerPcs, Answered
  <2> QED
    BY <2>1, <2>2 DEF Free, Goto, OutsideStep, Untouched, Beginnings, Types, TypeOK
<1>4. ASSUME NEW c \in Calls, Accept(c) PROVE OutsideStep
  <2>1. pc'[c] \in Beginnings
    BY <1>4 DEF Accept, Goto, Entry, Beginnings, Types, TypeOK, Dispatched, Request, Kinds
  <2>2. \A d \in Calls \ {c} : Untouched(d)
    BY <1>4 DEF Accept, Goto, Untouched, Types, TypeOK
  <2> QED
    BY <1>4, <2>1, <2>2, PcsDisjoint DEF Accept, OutsideStep, Handled, HandlerPcs
<1>5. ~ Startup
  BY DEF Startup, Types, TypeOK
<1> QED
  BY <1>1, <1>2, <1>3, <1>4, <1>5 DEF Next, ServerStep, CommandStep

(* Whose step a step is; only a registered guest sends more than a login.  *)
LEMMA HandlerOf ==
  ASSUME Base, NEW c \in Calls
  PROVE  /\ LoginStep(c) => req[c].kind = "login"
         /\ HeartbeatStep(c) => req[c].kind = "heartbeat" /\ Registered(req[c].user)
         /\ SendStep(c) => req[c].kind = "sendChanges" /\ Registered(req[c].user)
         /\ Deinitialize(c) => req[c].kind = "deinitializeCall"
         /\ SendUserNames(c) => req[c].kind = "sendUserNames"
<1>1. Dispatched(c) /\ CallServed(c)
  BY DEF Base, Types, TypeOK, Served
<1>2. LoginStep(c) => pc[c] \in LoginPcs
  BY DEF LoginPcs, LoginStep, LoginIndex, LoginTaken, AddLen, AddUser, AddChanges,
         LoginCount, LoginKeys, LoginPosition
<1>3. HeartbeatStep(c) => pc[c] \in HeartbeatPcs
  BY DEF HeartbeatPcs, HeartbeatStep, HeartbeatCount, HeartbeatKeys,
         HeartbeatPosition, HeartbeatChanges, HeartbeatOwn, HeartbeatFetch
<1>4. SendStep(c) => pc[c] \in SendPcs
  BY DEF SendPcs, PpsPcs, ChangeIdPcs, SendStep, PpsStep, PpsCheck, PpsZero, PpsOne,
         PpsKey, ChangeIdGet, ChangeIdSet, ChangeIdReget, LogChange, OwnCompare,
         OwnRead, OwnWrite
<1> QED
  BY <1>1, <1>2, <1>3, <1>4
  DEF Dispatched, CallServed, Kinds, Deinitialize, SendUserNames

-----------------------------------------------------------------------------
(***************************************************************************)
(* Requests that would get into each other's way.  Two logins under one    *)
(* name are never handled at the same time if requests are handled one at  *)
(* a time, or if every guest has a name of its own and does not click      *)
(* "login" twice.  Then two sends under one name are attempts at the same  *)
(* send, or the first one timed out -- see Overlapping.                    *)
(***************************************************************************)
OneWorker == Workers = 1
Considerate ==
  /\ MaxLogins = 1
  /\ \A g, h \in Guests : NameOf[g] = NameOf[h] => g = h

Writing(c) == Handled(c) /\ req[c].kind \in {"login", "sendChanges"}

Apart ==
  \A c, d \in Calls :
    Writing(c) /\ Writing(d) /\ req[c].kind = req[d].kind /\ req[c].user = req[d].user
      => c = d \/ (req[c].kind = "sendChanges" /\ Overlapping(req[c].user))

(* A send carries a payload of its user's.                                 *)
Signed(r) ==
  r.kind = "sendChanges" =>
    r.change \in DOMAIN author /\ NameOf[author[r.change]] = r.user

(* A send under this name was made again.                                  *)
Repeated(n) == \E x \in DOMAIN author : NameOf[author[x]] = n /\ tries[x] > 0

(* The open logins and sends of considerate guests.                        *)
LoginsAlone ==
  \A c, d \in Calls :
    req[c].kind = "login" =>
      /\ owner[c] # None
      /\ req[d].kind = "login" /\ owner[c] = owner[d] => c = d

SendsAlone ==
  \A c, d \in Calls :
    req[c].kind = "sendChanges" =>
      /\ owner[c] # None => req[c].user = NameOf[owner[c]]
      /\ \/ \E g \in unacked : NameOf[g] = req[c].user
         \/ Repeated(req[c].user)
      /\ req[d].kind = "sendChanges" /\ req[c].user = req[d].user
           => c = d \/ Repeated(req[c].user)

Alone == LoginsAlone /\ SendsAlone /\ \A c \in Calls : Signed(req[c])

(* One worker: no two calls are handled at all.                            *)
LEMMA SerialApart == Serial => Apart
BY DEF Serial, Apart, Writing

(* With one worker, no other request is being handled.                      *)
LEMMA OthersIdle ==
  ASSUME Types, Serial, NEW c \in Calls, HandlerStep(c)
  PROVE  \A d \in Calls \ {c} : ~ Handled(d) /\ ~ Handled(d)'
<1>1. Handled(c)
  BY DEF Handled, HandlerPcs, LoginPcs, HeartbeatPcs, SendPcs, PpsPcs, ChangeIdPcs,
         HandlerStep, LoginStep, LoginIndex, LoginTaken, AddLen, AddUser, AddChanges,
         LoginCount, LoginKeys, LoginPosition, HeartbeatStep, HeartbeatCount,
         HeartbeatKeys, HeartbeatPosition, HeartbeatChanges, HeartbeatOwn,
         HeartbeatFetch, SendStep, PpsStep, PpsCheck, PpsZero, PpsOne, PpsKey,
         ChangeIdGet, ChangeIdSet, ChangeIdReget, LogChange, OwnCompare, OwnRead,
         OwnWrite, Deinitialize, SendUserNames
<1> QED
  BY <1>1, HandlerFrame DEF Serial, Handled

(* What was sent stays sent, and what was repeated stays repeated.         *)
RepeatsKept ==
  \A x \in DOMAIN author : /\ x \in DOMAIN author' /\ author'[x] = author[x]
                           /\ tries[x] > 0 => tries'[x] > 0

LEMMA RepeatedStays ==
  ASSUME RepeatsKept, NEW n
  PROVE  /\ Repeated(n) => Repeated(n)'
         /\ Overlapping(n) => Overlapping(n)'
BY DEF RepeatsKept, Repeated, Overlapping

(* The requests of the pages: a payload is signed when it is sent, and a   *)
(* retry repeats it.                                                       *)
LEMMA RequestSigned ==
  ASSUME Types, \A d \in Calls : Signed(req[d]),
         NEW g \in Guests, NEW c \in Calls, PageRequest(g, c)
  PROVE  (\A d \in Calls : Signed(req[d])') /\ RepeatsKept
<1>1. ASSUME NEW kind, NEW x, NEW n, Issue(g, c, Body(kind, g, x, n)), UNCHANGED author,
             kind # "sendChanges"
      PROVE  \A d \in Calls : Signed(req[d])'
  BY <1>1 DEF Issue, Body, Signed, Types, TypeOK
<1>2. CASE LoginAsGuest(g, c) \/ HeartbeatTimer(g, c) \/ LogOut(g, c) \/ GetUserNames(g, c)
  BY <1>1, <1>2 DEF LoginAsGuest, HeartbeatTimer, LogOut, GetUserNames, page, RepeatsKept
<1>3. ASSUME NEW x \in Payloads, SendChangesTimer(g, c, x)
      PROVE  (\A d \in Calls : Signed(req[d])') /\ RepeatsKept
  BY <1>3 DEF SendChangesTimer, Issue, Body, HSet, Signed, RepeatsKept, Types, TypeOK
<1>4. ASSUME NEW retry \in Calls, SendTimeout(g, c, retry)
      PROVE  (\A d \in Calls : Signed(req[d])') /\ RepeatsKept
  <2>1. \A d \in Calls : Signed(req[d])'
    BY <1>4 DEF SendTimeout, Signed, Types, TypeOK
  <2>2. /\ tries \in [Payloads -> Nat] /\ DOMAIN author \subseteq Payloads
        /\ author' = author
        /\ tries' = [tries EXCEPT ![req[c].change] = @ + 1]
    BY <1>4 DEF SendTimeout, Types, TypeOK
  <2>3. \A x \in Payloads : tries[x] > 0 => tries'[x] > 0
    BY <2>2
  <2> QED
    BY <2>1, <2>2, <2>3 DEF RepeatsKept
<1>5. CASE SendGiveUp(g, c)
  BY <1>5 DEF SendGiveUp, server, page, Signed, RepeatsKept
<1> QED
  BY <1>2, <1>3, <1>4, <1>5 DEF PageRequest

(* A considerate guest has one login open at most,                         *)
LEMMA LoginsAlonePage ==
  ASSUME Considerate, Types, Alone, NEW g \in Guests, NEW c \in Calls, PageRequest(g, c)
  PROVE  LoginsAlone'
<1>1. CASE LoginAsGuest(g, c)
  <2>1. Open(g, "login") = {}
    <3> SUFFICES ASSUME NEW d \in Open(g, "login") PROVE FALSE
      OBVIOUS
    <3>1. Open(g, "login") = {d}
      BY DEF Open, Alone, LoginsAlone
    <3>2. Cardinality(Open(g, "login")) = 1
      BY <3>1, FS_Singleton
    <3> QED
      BY <1>1, <3>2 DEF LoginAsGuest, Considerate
  <2>2. /\ req'[c].kind = "login" /\ owner'[c] = g /\ g # None
        /\ \A d \in Calls \ {c} : req'[d] = req[d] /\ owner'[d] = owner[d]
    BY <1>1, GuestsAssumption DEF LoginAsGuest, Issue, Body, Types, TypeOK
  <2> QED
    BY <2>1, <2>2 DEF Open, Alone, LoginsAlone
<1>2. CASE ~ LoginAsGuest(g, c)
  <2>1. SUFFICES \A d \in Calls : req'[d].kind = "login"
                                   => req[d].kind = "login" /\ owner'[d] = owner[d]
    BY <2>1 DEF Alone, LoginsAlone
  <2>2. ASSUME NEW retry \in Calls, SendTimeout(g, c, retry)
        PROVE  \A d \in Calls : req'[d].kind = "login"
                                 => req[d].kind = "login" /\ owner'[d] = owner[d]
    BY <2>2 DEF SendTimeout, Open, Types, TypeOK
  <2>3. CASE SendGiveUp(g, c)
    BY <2>3 DEF SendGiveUp, Open, server, Types, TypeOK
  <2>4. CASE \/ HeartbeatTimer(g, c) \/ LogOut(g, c) \/ GetUserNames(g, c)
             \/ \E x \in Payloads : SendChangesTimer(g, c, x)
    BY <2>4
    DEF HeartbeatTimer, LogOut, GetUserNames, SendChangesTimer, Issue, Body, Types, TypeOK
  <2> QED
    BY <1>2, <2>2, <2>3, <2>4 DEF PageRequest
<1> QED
  BY <1>1, <1>2

(* and two sends only after the first one timed out.                       *)
LEMMA SendsAlonePage ==
  ASSUME Considerate, Types, Alone, NEW g \in Guests, NEW c \in Calls, PageRequest(g, c)
  PROVE  SendsAlone'
<1>1. RepeatsKept /\ \A n : Repeated(n) => Repeated(n)'
  BY RequestSigned, RepeatedStays DEF Alone
<1>2. ASSUME NEW x \in Payloads, SendChangesTimer(g, c, x) PROVE SendsAlone'
  <2>1. /\ req'[c].kind = "sendChanges" /\ req'[c].user = NameOf[g] /\ owner'[c] = g
        /\ unacked' = unacked \cup {g} /\ g \notin unacked
        /\ \A d \in Calls \ {c} : req'[d] = req[d] /\ owner'[d] = owner[d]
    BY <1>2 DEF SendChangesTimer, Issue, Body, Types, TypeOK
  <2>2. ASSUME NEW d \in Calls, req[d].kind = "sendChanges", req[d].user = NameOf[g]
        PROVE  Repeated(NameOf[g])
    <3>1. \A h \in unacked : h \in Guests /\ NameOf[h] # NameOf[g]
      BY <2>1 DEF Considerate, Types, TypeOK
    <3> QED
      BY <2>2, <3>1 DEF Alone, SendsAlone
  <2> QED
    BY <1>1, <2>1, <2>2 DEF Alone, SendsAlone
<1>3. ASSUME NEW retry \in Calls, SendTimeout(g, c, retry) PROVE SendsAlone'
  <2>1. /\ req[c].kind = "sendChanges" /\ owner[c] = g
        /\ req'[retry] = req[c] /\ owner'[retry] \in {g, None} /\ unacked' = unacked
        /\ \A d \in Calls \ {retry} : req'[d] = req[d] /\ owner'[d] \in {owner[d], None}
    BY <1>3 DEF SendTimeout, Open, Types, TypeOK
  <2>2. g # None /\ req[c].user = NameOf[g] /\ Signed(req[c])
    BY <2>1, GuestsAssumption DEF Alone, SendsAlone
  <2>3. Repeated(req[c].user)'
    <3> DEFINE x == req[c].change
    <3>1. /\ x \in DOMAIN author /\ NameOf[author[x]] = req[c].user
          /\ tries \in [Payloads -> Nat] /\ DOMAIN author \subseteq Payloads
          /\ author' = author /\ tries' = [tries EXCEPT ![x] = @ + 1]
      BY <1>3, <2>1, <2>2 DEF SendTimeout, Signed, Types, TypeOK
    <3>2. tries'[x] > 0
      BY <3>1
    <3>3. \E y \in DOMAIN author' : NameOf[author'[y]] = req[c].user /\ tries'[y] > 0
      BY <3>1, <3>2
    <3> QED
      BY <2>1, <3>3 DEF Repeated
  <2>4. \A d \in Calls : req'[d].kind = "sendChanges" =>
          /\ req'[d].user = req[c].user \/ (req'[d] = req[d] /\ owner'[d] \in {owner[d], None})
          /\ owner'[d] # None => req'[d].user = NameOf[owner'[d]]
    BY <2>1, <2>2 DEF Alone, SendsAlone
  <2> QED
    BY <1>1, <2>1, <2>3, <2>4 DEF Alone, SendsAlone
<1>4. ASSUME unacked' = unacked,
             \A d \in Calls : req'[d].kind = "sendChanges"
                               => req'[d] = req[d] /\ owner'[d] \in {owner[d], None}
      PROVE  SendsAlone'
  BY <1>1, <1>4 DEF Alone, SendsAlone
<1>5. CASE SendGiveUp(g, c)
  BY <1>4, <1>5 DEF SendGiveUp, server, page, Types, TypeOK
<1>6. CASE LoginAsGuest(g, c) \/ HeartbeatTimer(g, c) \/ LogOut(g, c) \/ GetUserNames(g, c)
  <2>1. /\ unacked' = unacked /\ req'[c].kind # "sendChanges"
        /\ \A d \in Calls \ {c} : req'[d] = req[d] /\ owner'[d] = owner[d]
    BY <1>6
    DEF LoginAsGuest, HeartbeatTimer, LogOut, GetUserNames, Issue, Body, page, Types, TypeOK
  <2> QED
    BY <1>4, <2>1
<1> QED
  BY <1>2, <1>3, <1>5, <1>6 DEF PageRequest

(* An answer takes a request away, and the wait for it,                    *)
LEMMA AloneCallback ==
  ASSUME Types, Alone, NEW c \in Calls, Callback(c)
  PROVE  Alone'
<1>1. /\ Free(c) /\ UNCHANGED <<author, tries>>
      /\ \A g \in unacked : g \in unacked'
                             \/ (g = owner[c] /\ g # None /\ req[c].kind = "sendChanges")
  BY DEF Callback, LoginDone, HeartbeatDone, SendChangesDone, AnswerIgnored, Answer, page
<1>2. /\ \A d \in Calls \ {c} : req'[d] = req[d] /\ owner'[d] = owner[d]
      /\ req'[c].kind = "none"
  BY <1>1 DEF Free, NoRequest, Types, TypeOK
<1>3. RepeatsKept
  BY <1>1 DEF RepeatsKept
<1>4. \A n : Repeated(n) => Repeated(n)'
  BY <1>3, RepeatedStays
<1>5. LoginsAlone' /\ \A d \in Calls : Signed(req[d])'
  BY <1>1, <1>2 DEF Alone, LoginsAlone, Signed
<1>6. SendsAlone'
  <2> SUFFICES ASSUME NEW d \in Calls \ {c}, NEW e \in Calls \ {c},
                      req[d].kind = "sendChanges"
               PROVE  /\ owner[d] # None => req[d].user = NameOf[owner[d]]
                      /\ \/ \E g \in unacked' : NameOf[g] = req[d].user
                         \/ Repeated(req[d].user)
                      /\ req[e].kind = "sendChanges" /\ req[d].user = req[e].user
                           => d = e \/ Repeated(req[d].user)
    BY <1>2, <1>4 DEF SendsAlone
  <2>1. /\ owner[d] # None => req[d].user = NameOf[owner[d]]
        /\ req[e].kind = "sendChanges" /\ req[d].user = req[e].user
             => d = e \/ Repeated(req[d].user)
    BY DEF Alone, SendsAlone
  <2>2. CASE \E g \in unacked \ unacked' : NameOf[g] = req[d].user
    <3>1. req[c].kind = "sendChanges" /\ req[c].user = req[d].user
      BY <1>1, <2>2 DEF Alone, SendsAlone
    <3> QED
      BY <2>1, <3>1 DEF Alone, SendsAlone
  <2>3. CASE ~ \E g \in unacked \ unacked' : NameOf[g] = req[d].user
    BY <2>1, <2>3 DEF Alone, SendsAlone
  <2> QED
    BY <2>2, <2>3
<1> QED
  BY <1>5, <1>6 DEF Alone

(* and so does every step.                                                  *)
LEMMA NextAlone ==
  ASSUME Considerate
  PROVE  Types /\ Alone /\ [Next]_vars => Alone'
<1> SUFFICES ASSUME Types, Alone, [Next]_vars PROVE Alone'
  OBVIOUS
<1>1. ASSUME NEW c \in Calls, ServerStep(c)
      PROVE  UNCHANGED <<req, owner, unacked, author, tries>>
  BY <1>1, HandlerFrame DEF ServerStep, Accept, page
<1>2. Startup /\ UNCHANGED <<owner, page>> => UNCHANGED <<req, owner, unacked, author, tries>>
  BY DEF Startup, page
<1>3. UNCHANGED <<req, owner, unacked, author, tries>> => Alone'
  BY DEF Alone, LoginsAlone, SendsAlone, Repeated, Signed
<1>4. ASSUME NEW g \in Guests, NEW c \in Calls, PageRequest(g, c) PROVE Alone'
  BY <1>4, LoginsAlonePage, SendsAlonePage, RequestSigned DEF Alone
<1> QED
  BY <1>1, <1>2, <1>3, <1>4, AloneCallback DEF Next, vars, server, page

(* Considerate guests: one call per guest and kind, one name per guest.    *)
LEMMA AloneApart ==
  ASSUME Considerate, Workers > 1
  PROVE  Base /\ Alone => Apart
<1> SUFFICES ASSUME Base, Alone, NEW c \in Calls, NEW d \in Calls, Writing(c), Writing(d),
                    req[c].kind = req[d].kind, req[c].user = req[d].user
             PROVE  c = d \/ (req[c].kind = "sendChanges" /\ Overlapping(req[c].user))
  BY DEF Apart
<1>1. CASE req[c].kind = "login"
  <2>1. /\ owner[c] \in Guests /\ owner[d] \in Guests
        /\ req[c].user = NameOf[owner[c]] /\ req[d].user = NameOf[owner[d]]
    BY <1>1 DEF Base, Served, CallServed, Types, TypeOK, Alone, LoginsAlone
  <2> QED
    BY <1>1, <2>1 DEF Considerate, Alone, LoginsAlone
<1>2. CASE req[c].kind = "sendChanges"
  BY <1>2 DEF Alone, SendsAlone, Overlapping, Repeated
<1> QED
  BY <1>1, <1>2 DEF Writing

-----------------------------------------------------------------------------
(***************************************************************************)
(* Positions: a login decides on its position by counting, before it       *)
(* takes it.                                                               *)
(***************************************************************************)
(* What a login that found its name free may rely on until it has taken it.*)
Vacant(c) ==
  /\ pc[c] \in {"add_len", "add_user"} => req[c].user \notin DOMAIN users
  /\ pc[c] \in {"add_len", "add_user", "add_changes"}
       => req[c].user \notin DOMAIN userChanges
  /\ pc[c] = "add_user" => loc[c].n <= Count

(* The position a reply will carry, and the count it has already.          *)
Told(c) ==
  \/ pc[c] \in {"hb_changes", "hb_own", "hb_fetch"}
  \/ pc[c] = "replied" /\ req[c].kind \in {"login", "heartbeat"}

Placed(c) ==
  /\ pc[c] \in {"login_keys", "login_position", "hb_keys", "hb_position"}
       => users[req[c].user] < loc[c].n
  /\ Told(c) => 0 <= loc[c].pos /\ loc[c].pos < loc[c].n

Registry ==
  /\ DOMAIN userChanges \subseteq DOMAIN users
  /\ \A n \in DOMAIN users : users[n] < Count
  /\ \A c \in Calls : Vacant(c) /\ Placed(c)

(* HSET of a field that is not there yet.                                  *)
LEMMA NewUser ==
  ASSUME Types, NEW n, NEW v, n \notin DOMAIN users, users' = HSet(users, n, v)
  PROVE  /\ DOMAIN users' = DOMAIN users \cup {n}
         /\ users'[n] = v
         /\ \A m \in DOMAIN users : users'[m] = users[m]
         /\ Count \in Nat /\ Count' = Count + 1
<1>1. DOMAIN users' = DOMAIN users \cup {n}
  BY DEF HSet
<1>2. Cardinality(DOMAIN users \cup {n}) = Cardinality(DOMAIN users) + 1
  BY FS_AddElement DEF Types, FiniteHashes
<1>3. Cardinality(DOMAIN users) \in Nat
  BY FS_CardinalityType DEF Types, FiniteHashes
<1> QED
  BY <1>1, <1>2, <1>3 DEF HSet, Count

(* The number of users is a number.                                         *)
LEMMA CountType == Types => Count \in Nat
BY FS_CardinalityType DEF Types, FiniteHashes, Count

(* A registered guest's position stays, and others are only added; a name  *)
(* on its way into the registry is not added by somebody else.             *)
NamesKept(d) ==
  /\ \A n \in DOMAIN users : n \in DOMAIN users' /\ users'[n] = users[n]
  /\ Count' \in Nat /\ Count <= Count'
  /\ Handled(d) /\ req[d].kind = "login" =>
       /\ req[d].user \notin DOMAIN users' \ DOMAIN users
       /\ req[d].user \notin DOMAIN userChanges' \ DOMAIN userChanges

(* A login that does not move keeps its place.                              *)
LEMMA OtherRegistry ==
  ASSUME Base, Registry, NEW d \in Calls, Untouched(d), NamesKept(d)
  PROVE  Vacant(d)' /\ Placed(d)'
<1>1. pc[d] \in LoginPcs => Handled(d) /\ req[d].kind = "login"
  BY DEF Base, Types, TypeOK, Dispatched, Handled, HandlerPcs
<1>2. Vacant(d)'
  BY <1>1, CountType
  DEF Base, Registry, Vacant, Untouched, NamesKept, LoginPcs, Types, TypeOK, Locals
<1>3. pc[d] \in {"login_keys", "login_position", "hb_keys", "hb_position"}
        => req[d].user \in DOMAIN users
  BY DEF Base, Served, CallServed, Registered, Types, TypeOK, Dispatched, LoginPcs, HeartbeatPcs, Kinds
<1> QED
  BY <1>2, <1>3 DEF Registry, Placed, Told, Untouched, NamesKept

(* The handlers that leave the registry of users alone.                    *)
LEMMA ReadersRegistry ==
  ASSUME Base, Registry, NEW c \in Calls, HandlerStep(c),
         ~ AddUser(c), ~ AddChanges(c)
  PROVE  Registry'
<1>1. pc \in [Calls -> Labels] /\ loc \in [Calls -> Locals] /\ Count \in Nat
  BY CountType DEF Base, Types, TypeOK
<1>2. req' = req /\ \A d \in Calls \ {c} : Untouched(d)
  BY HandlerFrame DEF Base, Untouched
<1>3. users' = users /\ DOMAIN userChanges' = DOMAIN userChanges
  <2>1. CASE OwnWrite(c)
    BY ZenonT(30), <2>1
    DEF OwnWrite, HSet, Base, Served, CallServed, Registered, Types, TypeOK,
        Dispatched, SendPcs, Kinds
  <2> QED
    BY <2>1
    DEF HandlerStep, LoginStep, LoginIndex, LoginTaken, AddLen, LoginCount, LoginKeys,
        LoginPosition, HeartbeatStep, HeartbeatCount, HeartbeatKeys, HeartbeatPosition,
        HeartbeatChanges, HeartbeatOwn, HeartbeatFetch, SendStep, PpsStep, PpsCheck,
        PpsZero, PpsOne, PpsKey, ChangeIdGet, ChangeIdSet, ChangeIdReget, LogChange,
        OwnCompare, OwnRead, Deinitialize, SendUserNames, ReadOnly, store
<1>4. \A d \in Calls \ {c} : Vacant(d)' /\ Placed(d)'
  BY <1>1, <1>2, <1>3, OtherRegistry DEF NamesKept, Count
<1>5. CASE LoginStep(c)
  <2>1. req[c].kind = "login" /\ CallServed(c) /\ Vacant(c) /\ Placed(c)
    BY <1>5, HandlerOf DEF Base, Served, Registry
  <2>2. Vacant(c)'
    BY <1>1, <1>2, <1>3, <1>5, <2>1
    DEF LoginStep, LoginIndex, LoginTaken, AddLen, LoginCount, LoginKeys,
        LoginPosition, Position, Goto, Vacant, Registry, Locals, Count
  <2>3. ASSUME LoginCount(c) \/ LoginKeys(c) PROVE Placed(c)'
    BY <1>1, <1>2, <1>3, <2>1, <2>3
    DEF LoginCount, LoginKeys, Goto, Placed, Told, CallServed, Registered, Registry, Locals, Count
  <2>4. ASSUME LoginPosition(c) PROVE Placed(c)'
    <3>1. req[c].user \in DOMAIN users /\ users[req[c].user] \in Nat
      BY <2>1, <2>4
      DEF LoginPosition, CallServed, Registered, Base, Types, TypeOK, StoreTypeOK
    <3>2. /\ pc[c] = "login_position" /\ pc'[c] = "replied"
          /\ loc'[c].pos = users[req[c].user] /\ loc'[c].n = loc[c].n
      BY <1>1, <2>4, <3>1 DEF LoginPosition, Position, Goto, Locals
    <3> QED
      BY <2>1, <3>1, <3>2 DEF Placed
  <2>5. ASSUME LoginIndex(c) \/ LoginTaken(c) \/ AddLen(c) PROVE Placed(c)'
    BY <1>1, <2>5 DEF LoginIndex, LoginTaken, AddLen, Goto, Placed, Told
  <2> QED
    BY <1>4, <1>5, <1>3, <2>2, <2>3, <2>4, <2>5 DEF LoginStep, Registry, Count
<1>6. CASE HeartbeatStep(c)
  <2>1. req[c].kind = "heartbeat" /\ Registered(req[c].user) /\ Placed(c)
    BY <1>6, HandlerOf DEF Registry
  <2>2. Vacant(c)'
    BY <1>1, <1>6
    DEF HeartbeatStep, HeartbeatCount, HeartbeatKeys, HeartbeatPosition,
        HeartbeatChanges, HeartbeatOwn, HeartbeatFetch, Position, Goto, Vacant
  <2>3. ASSUME HeartbeatCount(c) \/ HeartbeatKeys(c) PROVE Placed(c)'
    BY <1>1, <1>2, <1>3, <2>1, <2>3
    DEF HeartbeatCount, HeartbeatKeys, Goto, Placed, Told, Registered, Registry, Locals, Count
  <2>4. ASSUME HeartbeatPosition(c) PROVE Placed(c)'
    <3>1. req[c].user \in DOMAIN users /\ users[req[c].user] \in Nat
      BY <2>1, <2>4 DEF Registered, Base, Types, TypeOK, StoreTypeOK
    <3>2. /\ pc[c] = "hb_position" /\ pc'[c] = "hb_changes"
          /\ loc'[c].pos = users[req[c].user] /\ loc'[c].n = loc[c].n
      BY <1>1, <2>4, <3>1 DEF HeartbeatPosition, Position, Goto, Locals
    <3> QED
      BY <2>1, <3>1, <3>2 DEF Placed
  <2>5. ASSUME HeartbeatChanges(c) \/ HeartbeatOwn(c) \/ HeartbeatFetch(c) PROVE Placed(c)'
    <3>1. loc'[c].n = loc[c].n /\ loc'[c].pos = loc[c].pos
      BY ZenonT(30), <1>1, <2>5 DEF HeartbeatChanges, HeartbeatOwn, HeartbeatFetch, Locals
    <3>2. pc[c] \in {"hb_changes", "hb_own", "hb_fetch"}
          /\ pc'[c] \in {"hb_own", "hb_fetch", "replied", "failed"}
      BY <1>1, <2>5 DEF HeartbeatChanges, HeartbeatOwn, HeartbeatFetch, Goto
    <3> QED
      BY <2>1, <3>1, <3>2 DEF Placed, Told
  <2> QED
    BY <1>4, <1>6, <1>3, <2>2, <2>3, <2>4, <2>5 DEF HeartbeatStep, Registry, Count
<1>7. CASE SendStep(c)
  <2>1. pc'[c] \in SendPcs \cup {"replied", "failed"} /\ req[c].kind = "sendChanges"
    BY <1>1, <1>7, HandlerOf
    DEF SendPcs, PpsPcs, ChangeIdPcs, SendStep, PpsStep, PpsCheck, PpsZero,
        PpsOne, PpsKey, ChangeIdGet, ChangeIdSet, ChangeIdReget, LogChange,
        OwnCompare, OwnRead, OwnWrite, Goto
  <2>2. Vacant(c)' /\ Placed(c)'
    BY <1>2, <2>1 DEF Vacant, Placed, Told, SendPcs, PpsPcs, ChangeIdPcs
  <2> QED
    BY <1>3, <1>4, <2>2 DEF Registry, Count
<1>8. CASE Deinitialize(c) \/ SendUserNames(c)
  <2>1. Vacant(c)' /\ Placed(c)'
    BY <1>1, <1>2, <1>8, HandlerOf DEF Deinitialize, SendUserNames, Goto, Vacant, Placed, Told
  <2> QED
    BY <1>3, <1>4, <2>1 DEF Registry, Count
<1> QED
  BY <1>5, <1>6, <1>7, <1>8 DEF HandlerStep

(* Taking the name: nobody else is about to take it.                       *)
LEMMA AddUserRegistry ==
  ASSUME Base, Apart, Registry, NEW c \in Calls, AddUser(c)
  PROVE  Registry'
<1>1. /\ HandlerStep(c) /\ pc \in [Calls -> Labels] /\ req' = req
      /\ loc[c].n \in Nat /\ loc[c].n <= Count /\ pc[c] = "add_user"
      /\ req[c].user \notin DOMAIN users
  BY DEF Base, Types, TypeOK, Locals, AddUser, HandlerStep, LoginStep, Registry, Vacant
<1>2. /\ DOMAIN users' = DOMAIN users \cup {req[c].user}
      /\ users'[req[c].user] = loc[c].n
      /\ \A m \in DOMAIN users : users'[m] = users[m]
      /\ Count \in Nat /\ Count' = Count + 1
      /\ userChanges' = userChanges
  BY <1>1, NewUser DEF Base, AddUser
<1>3. ASSUME NEW d \in Calls \ {c} PROVE Vacant(d)' /\ Placed(d)'
  <2>1. Untouched(d)
    BY <1>1, HandlerFrame DEF Base, Untouched
  <2>2. Handled(d) /\ req[d].kind = "login" => req[d].user # req[c].user
    BY <1>1, <1>3, HandlerOf DEF Apart, Writing, Handled, HandlerPcs, LoginPcs, LoginStep, AddUser
  <2> QED
    BY <1>2, <2>1, <2>2, OtherRegistry DEF NamesKept
<1>4. Vacant(c)' /\ Placed(c)'
  BY <1>1, <1>2 DEF AddUser, Goto, Registry, Vacant, Placed, Told
<1>5. \A n \in DOMAIN users' : users'[n] < Count'
  BY <1>1, <1>2 DEF Registry, Base, Types, TypeOK, StoreTypeOK
<1> QED
  BY <1>2, <1>3, <1>4, <1>5 DEF Registry

(* The list of own changes comes after the position.                        *)
LEMMA AddChangesRegistry ==
  ASSUME Base, Apart, Registry, NEW c \in Calls, AddChanges(c)
  PROVE  Registry'
<1>1. /\ HandlerStep(c) /\ pc \in [Calls -> Labels] /\ req' = req /\ users' = users
      /\ pc[c] = "add_changes" /\ req[c].user \in DOMAIN users
      /\ DOMAIN userChanges' = DOMAIN userChanges \cup {req[c].user}
  BY DEF Base, Types, TypeOK, Served, CallServed, AddChanges, HSet, HandlerStep, LoginStep
<1>2. ASSUME NEW d \in Calls \ {c} PROVE Vacant(d)' /\ Placed(d)'
  <2>1. Untouched(d)
    BY <1>1, HandlerFrame DEF Base, Untouched
  <2>2. Handled(d) /\ req[d].kind = "login" => req[d].user # req[c].user
    BY <1>1, <1>2, HandlerOf DEF Apart, Writing, Handled, HandlerPcs, LoginPcs, LoginStep
  <2> QED
    BY <1>1, <2>1, <2>2, OtherRegistry, CountType DEF NamesKept, Base, Count
<1>3. Vacant(c)' /\ Placed(c)'
  BY <1>1 DEF AddChanges, Goto, Vacant, Placed, Told
<1> QED
  BY <1>1, <1>2, <1>3 DEF Registry, Count

(* No step gives a position that is out of range.                           *)
LEMMA NextRegistry ==
  Base /\ Base' /\ Apart /\ Registry /\ [Next]_vars => Registry'
<1> SUFFICES ASSUME Base, Base', Apart, Registry, [Next]_vars PROVE Registry'
  OBVIOUS
<1>1. CASE OutsideStep
  BY <1>1 DEF OutsideStep, Untouched, Beginnings, store, Registry, Vacant, Placed, Told, Count
<1>2. ASSUME NEW c \in Calls, CommandStep(c) PROVE Registry'
  BY <1>2, ReadersRegistry, AddUserRegistry, AddChangesRegistry DEF CommandStep
<1> QED
  BY <1>1, <1>2, StepKinds DEF Base

(* With one worker: the count is still right when the position is taken.   *)
Dense ==
  /\ PositionsDense
  /\ \A c \in Calls : pc[c] = "add_user" => loc[c].n = Count

(* With one worker: which of the sentinels are written, by where the       *)
(* handler that writes them is.                                            *)
Sentinels ==
  /\ \/ keys = 0 /\ tags = <<>>
     \/ \E c \in Calls : \/ pc[c] = "pps_one" /\ keys = 0 /\ tags = <<"0">>
                         \/ pc[c] = "pps_key" /\ keys = 0 /\ tags = <<"0", "1">>
     \/ keys = 1 /\ tags = <<"0", "1">>
  /\ \A c \in Calls :
       /\ pc[c] = "pps_zero" => keys = 0 /\ tags = <<>>
       /\ pc[c] = "pps_one" => keys = 0 /\ tags = <<"0">>
       /\ pc[c] = "pps_key" => keys = 0 /\ tags = <<"0", "1">>

(* No step gives a position twice, with one worker.                         *)
LEMMA NextDense ==
  Base /\ Base' /\ Serial /\ Registry /\ Dense /\ [Next]_vars => Dense'
<1> SUFFICES ASSUME Base, Base', Serial, Registry, Dense, [Next]_vars PROVE Dense'
  OBVIOUS
<1> USE CountType DEF Base
<1>1. CASE OutsideStep
  BY <1>1 DEF OutsideStep, Untouched, Beginnings, store, Dense, PositionsDense, Count
<1>2. ASSUME NEW c \in Calls, CommandStep(c) PROVE Dense'
  <2>1. /\ HandlerStep(c) /\ pc \in [Calls -> Labels] /\ loc \in [Calls -> Locals]
        /\ \A d \in Calls \ {c} : pc'[d] = pc[d] /\ loc'[d] = loc[d]
    BY <1>2, HandlerFrame DEF Types, TypeOK, CommandStep
  <2>2. \A d \in Calls \ {c} : pc'[d] # "add_user"
    BY <2>1, OthersIdle DEF Handled, HandlerPcs, LoginPcs
  <2>3. CASE AddUser(c)
    <3> DEFINE n == req[c].user
    <3>1. n \notin DOMAIN users /\ loc[c].n = Count /\ users' = HSet(users, n, Count)
      BY <2>1, <2>3 DEF AddUser, Registry, Vacant, Dense
    <3>2. /\ DOMAIN users' = DOMAIN users \cup {n} /\ users'[n] = Count
          /\ \A m \in DOMAIN users : users'[m] = users[m]
          /\ Count \in Nat /\ Count' = Count + 1
      BY <3>1, NewUser
    <3>3. {users'[m] : m \in DOMAIN users'} = {users[m] : m \in DOMAIN users} \cup {Count}
      BY <3>2
    <3>4. PositionsDense'
      BY <3>2, <3>3 DEF Dense, PositionsDense
    <3> QED
      BY <2>1, <2>2, <2>3, <3>4 DEF AddUser, Goto, Dense
  <2>4. CASE AddLen(c)
    BY <2>1, <2>2, <2>4
    DEF AddLen, ReadOnly, store, Dense, PositionsDense, Count, Locals
  <2>5. CASE ~ AddUser(c) /\ ~ AddLen(c)
    <3>1. users' = users /\ pc'[c] # "add_user"
      BY <2>1, <2>5 
      DEF HandlerStep, LoginStep, LoginIndex, LoginTaken, AddChanges, LoginCount,
          LoginKeys, LoginPosition, Position, HeartbeatStep, HeartbeatCount,
          HeartbeatKeys, HeartbeatPosition, HeartbeatChanges, HeartbeatOwn,
          HeartbeatFetch, SendStep, PpsStep, PpsCheck, PpsZero, PpsOne, PpsKey,
          ChangeIdGet, ChangeIdSet, ChangeIdReget, LogChange, OwnCompare, OwnRead,
          OwnWrite, Deinitialize, SendUserNames, ReadOnly, store, Goto
    <3> QED
      BY <2>2, <3>1 DEF Dense, PositionsDense, Count
  <2> QED
    BY <2>3, <2>4, <2>5
<1> QED
  BY <1>1, <1>2, StepKinds

(* RPUSH onto a list of one.                                               *)
LEMMA AppendSecond ==
  ASSUME NEW a, NEW b
  PROVE  Append(<<a>>, b) = <<a, b>>
<1> DEFINE S == {a, b}
<1>1. /\ Append(<<a>>, b) \in Seq(S) /\ Len(Append(<<a>>, b)) = 2
      /\ Append(<<a>>, b)[1] = a /\ Append(<<a>>, b)[2] = b
  OBVIOUS
<1>2. <<a, b>> \in Seq(S) /\ Len(<<a, b>>) = 2 /\ <<a, b>>[1] = a /\ <<a, b>>[2] = b
  OBVIOUS
<1>3. \A i \in 1..Len(<<a, b>>) : Append(<<a>>, b)[i] = <<a, b>>[i]
  BY <1>1, <1>2
<1> QED
  BY <1>1, <1>2, <1>3, SeqEqual

(* No step writes a sentinel again, with one worker.                        *)
LEMMA NextSentinels ==
  Base /\ Base' /\ Serial /\ Sentinels /\ [Next]_vars => Sentinels'
<1> SUFFICES ASSUME Base, Base', Serial, Sentinels, [Next]_vars PROVE Sentinels'
  OBVIOUS
<1>1. CASE OutsideStep
  BY <1>1
  DEF OutsideStep, Untouched, Beginnings, store, Sentinels, Handled, HandlerPcs,
      SendPcs, PpsPcs
<1>2. ASSUME NEW c \in Calls, CommandStep(c) PROVE Sentinels'
  <2>1. /\ HandlerStep(c) /\ pc \in [Calls -> Labels]
        /\ \A d \in Calls \ {c} : pc'[d] = pc[d]
    BY <1>2, HandlerFrame DEF Base, Types, TypeOK, CommandStep
  <2>2. \A d \in Calls \ {c} : pc[d] \notin PpsPcs /\ pc'[d] \notin PpsPcs
    BY <2>1, OthersIdle DEF Base, Handled, HandlerPcs, SendPcs
  <2>3. CASE PpsCheck(c)
    BY <2>1, <2>2, <2>3 DEF PpsCheck, Goto, ReadOnly, store, Sentinels, PpsPcs
  <2>4. CASE PpsZero(c)
    <3>1. keys = 0 /\ tags = <<>> /\ tags' = Append(tags, "0") /\ keys' = keys
          /\ pc'[c] = "pps_one"
      BY <2>1, <2>4 DEF PpsZero, Goto, Sentinels
    <3>2. tags' = <<"0">>
      BY <3>1
    <3> QED
      BY <2>2, <3>1, <3>2 DEF Sentinels, PpsPcs
  <2>5. CASE PpsOne(c)
    <3>1. keys = 0 /\ tags = <<"0">> /\ tags' = Append(tags, "1") /\ keys' = keys
          /\ pc'[c] = "pps_key"
      BY <2>1, <2>5 DEF PpsOne, Goto, Sentinels
    <3>2. tags' = <<"0", "1">>
      BY <3>1, AppendSecond
    <3> QED
      BY <2>2, <3>1, <3>2 DEF Sentinels, PpsPcs
  <2>6. CASE PpsKey(c)
    BY <2>1, <2>2, <2>6 DEF PpsKey, Goto, Sentinels, PpsPcs
  <2>7. CASE ~ PpsStep(c)
    <3>1. UNCHANGED <<keys, tags>> /\ pc[c] \notin PpsPcs
          /\ pc'[c] \notin {"pps_zero", "pps_one", "pps_key"}
      BY <2>1, <2>7
      DEF HandlerStep, LoginStep, LoginIndex, LoginTaken, AddLen, AddUser, AddChanges,
          LoginCount, LoginKeys, LoginPosition, Position, HeartbeatStep,
          HeartbeatCount, HeartbeatKeys, HeartbeatPosition, HeartbeatChanges,
          HeartbeatOwn, HeartbeatFetch, SendStep, ChangeIdGet, ChangeIdSet,
          ChangeIdReget, LogChange, OwnCompare, OwnRead, OwnWrite, Deinitialize,
          SendUserNames, ReadOnly, store, Goto, PpsPcs
    <3> QED
      BY <2>2, <3>1 DEF Sentinels, PpsPcs
  <2> QED
    BY <2>3, <2>4, <2>5, <2>6, <2>7 DEF PpsStep
<1> QED
  BY <1>1, <1>2, StepKinds DEF Base

-----------------------------------------------------------------------------
(***************************************************************************)
(* Names: whoever has taken a name is the only one who ever will.          *)
(***************************************************************************)
Claimed(c) == req[c].kind = "login"
  /\ pc[c] \in {"add_changes", "login_count", "login_keys", "login_position", "replied"}

(* Nobody gives a login up.                                                *)
LoginOwned == \A c \in Calls : req[c].kind = "login" => owner[c] # None

Claims ==
  /\ GuestNameOnce
  /\ LoginOwned
  /\ \A c \in Calls : Claimed(c) => \A g \in joined : NameOf[g] # req[c].user
  /\ \A c, d \in Calls : Claimed(c) /\ Claimed(d) /\ req[c].user = req[d].user => c = d

(* A name is claimed by the login that finds it free; any other login finds*)
(* it taken from then on.                                                  *)
LEMMA ClaimsCommand ==
  ASSUME Base, Apart, Registry, Claims, NEW c \in Calls, CommandStep(c)
  PROVE  Claims'
<1>1. /\ HandlerStep(c) /\ pc \in [Calls -> Labels]
      /\ UNCHANGED <<req, owner, joined>>
      /\ \A d \in Calls \ {c} : pc'[d] = pc[d]
  BY HandlerFrame DEF Base, Types, TypeOK, CommandStep, page
<1>2. \A d \in Calls : Claimed(d) => req[d].user \in DOMAIN users
  BY DEF Base, Served, CallServed, Registered, Claimed
<1>3. \A g \in joined : NameOf[g] \in DOMAIN users
  BY DEF Base, Served, Registered
<1>4. CASE AddUser(c)
  <2>1. req[c].user \notin DOMAIN users
    BY <1>4 DEF AddUser, Registry, Vacant
  <2>2. owner[c] # None
    BY <1>1, <1>4, HandlerOf DEF HandlerStep, LoginStep, Claims, LoginOwned
  <2> QED
    BY <1>1, <1>2, <1>3, <2>1, <2>2 DEF Claims, Claimed, GuestNameOnce, LoginOwned
<1>5. CASE ~ AddUser(c)
  <2>1. Claimed(c)' => Claimed(c)
    <3>1. CASE LoginStep(c)
      BY <1>1, <1>5, <3>1
      DEF LoginStep, LoginIndex, LoginTaken, AddLen, AddChanges, LoginCount,
          LoginKeys, LoginPosition, Position, Goto, Claimed
    <3> QED
      BY <1>1, <3>1, HandlerOf DEF HandlerStep, Claimed
  <2> QED
    BY <1>1, <2>1 DEF Claims, Claimed, GuestNameOnce, LoginOwned
<1> QED
  BY <1>4, <1>5

(* No step lets a second page have a name.                                  *)
LEMMA NextClaims ==
  Base /\ Base' /\ Apart /\ Registry /\ Claims /\ [Next]_vars => Claims'
<1> SUFFICES ASSUME Base, Base', Apart, Registry, Claims, [Next]_vars PROVE Claims'
  OBVIOUS
<1>1. ASSUME NEW c \in Calls, CommandStep(c) PROVE Claims'
  BY <1>1, ClaimsCommand
<1>2. ASSUME joined' = joined, LoginOwned',
             \A d \in Calls : Claimed(d)' => Claimed(d) /\ req'[d] = req[d]
      PROVE  Claims'
  BY <1>2 DEF Claims, GuestNameOnce
<1>3. ASSUME NEW g \in Guests, NEW c \in Calls, PageRequest(g, c) PROVE Claims'
  <2>1. CASE SendGiveUp(g, c)
    BY <1>2, <2>1 DEF SendGiveUp, Open, server, page, Claims, Claimed, LoginOwned, Base, Types, TypeOK
  <2>2. CASE ~ SendGiveUp(g, c)
    <3>1. PICK k \in Calls :
            /\ pc' = [pc EXCEPT ![k] = "queued"] /\ owner'[k] = g
            /\ \E r : req' = [req EXCEPT ![k] = r]
            /\ \A d \in Calls \ {k} : owner'[d] = owner[d] \/ req[d].kind # "login"
            /\ joined' = joined
      <4>1. ASSUME NEW retry \in Calls, SendTimeout(g, c, retry)
            PROVE  /\ pc' = [pc EXCEPT ![retry] = "queued"] /\ owner'[retry] = g
                   /\ \E r : req' = [req EXCEPT ![retry] = r]
                   /\ \A d \in Calls \ {retry} : owner'[d] = owner[d] \/ req[d].kind # "login"
                   /\ joined' = joined
        <5>1. c # retry /\ req[c].kind = "sendChanges"
          BY <4>1 DEF SendTimeout, Open, Base, Types, TypeOK, Dispatched, NoRequest
        <5> QED
          BY <4>1, <5>1 DEF SendTimeout, Goto, page, Base, Types, TypeOK
      <4>2. CASE \A retry \in Calls : ~ SendTimeout(g, c, retry)
        <5>1. (\E r : Issue(g, c, r)) /\ joined' = joined
          BY <1>3, <2>2, <4>2
          DEF PageRequest, LoginAsGuest, HeartbeatTimer, SendChangesTimer, LogOut,
              GetUserNames, page
        <5> QED
          BY <5>1 DEF Issue, Goto, Base, Types, TypeOK
      <4> QED
        BY <4>1, <4>2
    <3>2. \A d \in Calls \ {k} : pc'[d] = pc[d] /\ req'[d] = req[d]
      BY <3>1 DEF Base, Types, TypeOK
    <3> QED
      BY <1>2, <3>1, <3>2, GuestsAssumption DEF Claims, Claimed, LoginOwned, Base, Types, TypeOK
  <2> QED
    BY <2>1, <2>2
<1>4. ASSUME NEW c \in Calls, Callback(c) PROVE Claims'
  <2>1. Free(c)
    BY <1>4 DEF Callback, LoginDone, HeartbeatDone, SendChangesDone, AnswerIgnored
  <2>2. /\ \A d \in Calls \ {c} : pc'[d] = pc[d] /\ req'[d] = req[d] /\ owner'[d] = owner[d]
        /\ req'[c].kind = "none"
    BY <2>1 DEF Free, Goto, NoRequest, Base, Types, TypeOK
  <2>3. CASE joined' = joined
    BY <1>2, <2>2, <2>3 DEF Claims, Claimed, LoginOwned
  <2>4. CASE joined' # joined
    <3>1. Claimed(c) /\ joined' = joined \cup {owner[c]} /\ req[c].user = NameOf[owner[c]]
      BY <1>4, <2>4
      DEF Callback, LoginDone, HeartbeatDone, SendChangesDone, AnswerIgnored, Answer,
          page, Claimed, Base, Served, CallServed
    <3> QED
      BY <2>2, <3>1 DEF Claims, Claimed, GuestNameOnce, LoginOwned
  <2> QED
    BY <2>3, <2>4
<1>5. ASSUME NEW c \in Calls, Accept(c), UNCHANGED <<owner, page>> PROVE Claims'
  <2>1. pc'[c] \in Beginnings /\ \A d \in Calls \ {c} : pc'[d] = pc[d]
    BY <1>5
    DEF Accept, Goto, Entry, Beginnings, Base, Types, TypeOK, Dispatched, Request, Kinds
  <2> QED
    BY <1>2, <1>5, <2>1 DEF Accept, Beginnings, Claims, Claimed, LoginOwned, page
<1>6. CASE UNCHANGED vars
  BY <1>2, <1>6 DEF vars, server, page, Claims, Claimed, LoginOwned
<1>7. ~ Startup
  BY DEF Startup, Base, Types, TypeOK
<1> QED
  BY <1>1, <1>3, <1>4, <1>5, <1>6, <1>7 DEF Next, ServerStep, CommandStep

-----------------------------------------------------------------------------
(***************************************************************************)
(* Authorship: the two hashes that say what was changed and by whom are    *)
(* written one after the other, and the second by reading it first.        *)
(***************************************************************************)
(* What a handler that records a change has read before it writes is what  *)
(* the list still is, if no other attempt may be writing to it.            *)
ReadForWrite(c) ==
  /\ Recording(c) => loc[c].cid \in DOMAIN changes
  /\ pc[c] = "own_read" /\ loc[c].bare
       => Overlapping(req[c].user) \/ userChanges[req[c].user] = <<>>
  /\ pc[c] = "own_write" => \/ Overlapping(req[c].user)
                            \/ /\ loc[c].own = userChanges[req[c].user]
                               /\ loc[c].bare => loc[c].own = <<>>

Authorship ==
  /\ OwnIdsLogged
  /\ AuthorshipRecorded
  /\ \A i \in DOMAIN changes : changes[i] \in DOMAIN author
  /\ \A c \in Calls : Signed(req[c]) /\ ReadForWrite(c)

(* Where requests are handled one at a time, attempts do not overlap.      *)
LEMMA SerialAttempts == Serial => \A n : ~ Overlapping(n)
BY DEF Serial, Overlapping

(* A command repeats no send.                                              *)
LEMMA AttemptsSame ==
  ASSUME UNCHANGED <<author, tries>>, NEW n
  PROVE  Overlapping(n)' <=> Overlapping(n)
BY DEF Overlapping

(* The ids on a list after `+='.                                           *)
LEMMA AppendedIds ==
  ASSUME NEW s \in Seq(Nat), NEW i \in Nat
  PROVE  {Append(s, i)[k] : k \in DOMAIN Append(s, i)} = {s[k] : k \in DOMAIN s} \cup {i}
<1>1. /\ DOMAIN s = 1..Len(s) /\ Len(s) \in Nat
      /\ DOMAIN Append(s, i) = 1..(Len(s) + 1)
      /\ Append(s, i)[Len(s) + 1] = i
      /\ \A k \in 1..Len(s) : Append(s, i)[k] = s[k]
  OBVIOUS
<1>2. 1..(Len(s) + 1) = 1..Len(s) \cup {Len(s) + 1}
  BY <1>1
<1> QED
  BY <1>1, <1>2

(* What a call relies on stays, while others only add to the hashes and    *)
(* leave the list of its user alone.                                       *)
LEMMA OtherAuthorship ==
  ASSUME Authorship, NEW d \in Calls, Untouched(d), StoreGrows, UNCHANGED <<author, tries>>,
         Recording(d) => \/ Overlapping(req[d].user)
                         \/ userChanges'[req[d].user] = userChanges[req[d].user]
  PROVE  Signed(req[d])' /\ ReadForWrite(d)'
<1>1. Overlapping(req[d].user)' <=> Overlapping(req[d].user)
  BY AttemptsSame DEF Untouched, Overlapping
<1> QED
  BY <1>1 DEF Authorship, Untouched, StoreGrows, Signed, ReadForWrite, Recording

(* The other commands leave both hashes alone.                             *)
LEMMA ListsKept ==
  ASSUME NEW c \in Calls, HandlerStep(c), ~ OwnWrite(c), ~ AddChanges(c)
  PROVE  userChanges' = userChanges /\ (~ LogChange(c) => changes' = changes)
BY DEF HandlerStep, LoginStep, LoginIndex, LoginTaken, AddLen, AddUser, LoginCount,
       LoginKeys, LoginPosition, Position, HeartbeatStep, HeartbeatCount,
       HeartbeatKeys, HeartbeatPosition, HeartbeatChanges, HeartbeatOwn,
       HeartbeatFetch, SendStep, PpsStep, PpsCheck, PpsZero, PpsOne, PpsKey,
       ChangeIdGet, ChangeIdSet, ChangeIdReget, LogChange, OwnCompare, OwnRead,
       Deinitialize, SendUserNames, ReadOnly, store

(* Nobody else is writing to the list of the user of a call that records a *)
(* change, except for another attempt.                                     *)
LEMMA ListKept ==
  ASSUME Base, Apart, Registry, NEW c \in Calls, HandlerStep(c),
         NEW d \in Calls \ {c}, Recording(d)
  PROVE  Overlapping(req[d].user) \/ userChanges'[req[d].user] = userChanges[req[d].user]
<1>1. Writing(d) /\ req[d].kind = "sendChanges" /\ Registered(req[d].user)
  BY DEF Base, Types, TypeOK, Served, CallServed, Dispatched, Recording, Writing,
         Handled, HandlerPcs, SendPcs, Kinds
<1>2. CASE OwnWrite(c)
  <2>1. Writing(c) /\ req[c].kind = "sendChanges"
    BY <1>2, HandlerOf
    DEF OwnWrite, SendStep, Writing, Handled, HandlerPcs, SendPcs
  <2>2. req[d].user # req[c].user \/ Overlapping(req[d].user)
    BY <1>1, <2>1 DEF Apart
  <2> QED
    BY <1>1, <1>2, <2>2 DEF OwnWrite, HSet, Registered
<1>3. CASE AddChanges(c)
  BY <1>1, <1>3 DEF AddChanges, HSet, Registered, Registry, Vacant
<1>4. CASE ~ OwnWrite(c) /\ ~ AddChanges(c)
  BY <1>4, ListsKept
<1> QED
  BY <1>2, <1>3, <1>4

(* The handler's step that writes the change down under its id.            *)
LEMMA LogChangeAuthorship ==
  ASSUME Base, Apart, Registry, Authorship, NEW c \in Calls, LogChange(c), UNCHANGED <<author, tries>>
  PROVE  Authorship'
<1> DEFINE i == loc[c].cid
<1>1. /\ HandlerStep(c) /\ pc \in [Calls -> Labels] /\ pc'[c] = "own_compare"
      /\ UNCHANGED <<req, loc, userChanges>> /\ changes' = HSet(changes, i, req[c].change)
  BY DEF Base, Types, TypeOK, LogChange, Goto, HandlerStep, SendStep
<1>2. req[c].kind = "sendChanges" /\ req[c].change \in DOMAIN author
  BY <1>1, HandlerOf DEF Base, Authorship, Signed, SendStep
<1>3. /\ DOMAIN changes' = DOMAIN changes \cup {i} /\ changes'[i] = req[c].change
      /\ \A j \in DOMAIN changes \ {i} : changes'[j] = changes[j]
  BY <1>1 DEF HSet
<1>4. \A d \in Calls \ {c} : Untouched(d) /\ Signed(req[d])' /\ ReadForWrite(d)'
  <2> SUFFICES ASSUME NEW d \in Calls \ {c}
               PROVE  Untouched(d) /\ Signed(req[d])' /\ ReadForWrite(d)'
    OBVIOUS
  <2>1. Untouched(d) /\ StoreGrows
    BY <1>1, HandlerFrame DEF Base, Untouched
  <2> QED
    BY <1>1, <2>1, OtherAuthorship
<1>5. Signed(req[c])' /\ ReadForWrite(c)' /\ Recording(c)'
  BY <1>1, <1>3 DEF Authorship, Signed, ReadForWrite, Recording
<1>6. OwnIdsLogged'
  BY <1>1, <1>3, AttemptsSame DEF Authorship, OwnIdsLogged, OwnIds, Base
<1>7. AuthorshipRecorded'
  <2> SUFFICES ASSUME NEW j \in DOMAIN changes', NEW n, n = NameOf[author[changes'[j]]],
                      ~ Overlapping(n)
               PROVE  \/ n \in DOMAIN userChanges /\ j \in OwnIds(n)
                      \/ \E d \in Calls : /\ Recording(d)'
                                          /\ req'[d].change = changes'[j]
                                          /\ loc'[d].cid = j
    BY SMTT(30), <1>1, AttemptsSame DEF AuthorshipRecorded, OwnIds
  <2>1. CASE j = i
    BY <1>1, <1>3, <1>5, <2>1
  <2>2. CASE j # i
    <3>1. j \in DOMAIN changes /\ changes'[j] = changes[j]
      BY <1>3, <2>2
    <3>2. CASE n \in DOMAIN userChanges /\ j \in OwnIds(n)
      BY <3>2
    <3>3. CASE \E d \in Calls : Recording(d) /\ req[d].change = changes[j] /\ loc[d].cid = j
      <4>1. PICK d \in Calls : Recording(d) /\ req[d].change = changes[j] /\ loc[d].cid = j
        BY <3>3
      <4>2. Recording(d)'
        <5>1. CASE d = c
          BY <1>5, <5>1
        <5>2. CASE d # c
          BY <1>4, <4>1, <5>2 DEF Untouched, Recording
        <5> QED
          BY <5>1, <5>2
      <4>3. req'[d] = req[d] /\ loc'[d] = loc[d]
        BY <1>1
      <4> QED
        BY <3>1, <4>1, <4>2, <4>3
    <3>4. \/ n \in DOMAIN userChanges /\ j \in OwnIds(n)
          \/ \E d \in Calls : Recording(d) /\ req[d].change = changes[j] /\ loc[d].cid = j
      BY <3>1 DEF Base, Authorship, AuthorshipRecorded
    <3> QED
      BY <3>2, <3>3, <3>4
  <2> QED
    BY <2>1, <2>2
<1> QED
  BY <1>2, <1>3, <1>4, <1>5, <1>6, <1>7 DEF Authorship

(* ... and the one that puts the id on the list of its user.               *)
LEMMA OwnWriteLists ==
  ASSUME Base, Authorship, NEW c \in Calls, OwnWrite(c)
  PROVE  /\ loc[c].cid \in DOMAIN changes
         /\ DOMAIN userChanges' = DOMAIN userChanges
         /\ \A n \in DOMAIN userChanges : ~ Overlapping(n) =>
              OwnIds(n)' = IF n = req[c].user THEN OwnIds(n) \cup {loc[c].cid} ELSE OwnIds(n)
<1> DEFINE i == loc[c].cid
           u == req[c].user
<1>1. /\ HandlerStep(c) /\ pc \in [Calls -> Labels]
      /\ pc[c] = "own_write" /\ pc'[c] = "replied"
      /\ UNCHANGED <<req, loc, changes>> /\ i \in Nat
  BY DEF Base, Types, TypeOK, Locals, OwnWrite, Goto, HandlerStep, SendStep
<1>2. /\ req[c].kind = "sendChanges" /\ u \in DOMAIN userChanges
      /\ userChanges[u] \in Seq(Nat) /\ i \in DOMAIN changes
  BY <1>1, HandlerOf
  DEF OwnWrite, SendStep, Registered, Base, Types, TypeOK, StoreTypeOK, Authorship,
      ReadForWrite, Recording
<1>3. /\ DOMAIN userChanges' = DOMAIN userChanges
      /\ \A n \in DOMAIN userChanges \ {u} : userChanges'[n] = userChanges[n]
      /\ ~ Overlapping(u) => userChanges'[u] = Append(userChanges[u], i)
  BY <1>1, <1>2 DEF OwnWrite, AppendId, HSet, Authorship, ReadForWrite
<1>4. ASSUME NEW n \in DOMAIN userChanges, ~ Overlapping(n)
      PROVE  OwnIds(n)' = IF n = u THEN OwnIds(n) \cup {i} ELSE OwnIds(n)
  <2>1. n # u => OwnIds(n)' = OwnIds(n)
    BY <1>3, <1>4 DEF OwnIds
  <2>2. n = u => OwnIds(n)' = OwnIds(n) \cup {i}
    <3> HAVE n = u
    <3> DEFINE s == userChanges[n]
               t == Append(s, i)
    <3>1. userChanges'[n] = t /\ s \in Seq(Nat) /\ i \in Nat
      BY <1>1, <1>2, <1>3, <1>4
    <3>2. {t[k] : k \in DOMAIN t} = {s[k] : k \in DOMAIN s} \cup {i}
      <4> HIDE DEF s, i
      <4> QED
        BY <3>1, AppendedIds
    <3> QED
      BY <3>1, <3>2 DEF OwnIds
  <2> QED
    BY <2>1, <2>2
<1> QED
  BY <1>2, <1>3, <1>4

(* The write that makes a change one of its author's own.                   *)
LEMMA OwnWriteAuthorship ==
  ASSUME Base, Apart, Registry, Authorship, NEW c \in Calls, OwnWrite(c), UNCHANGED <<author, tries>>
  PROVE  Authorship'
<1> DEFINE i == loc[c].cid
           u == req[c].user
<1>1. /\ HandlerStep(c) /\ pc \in [Calls -> Labels]
      /\ pc[c] = "own_write" /\ pc'[c] = "replied"
      /\ UNCHANGED <<req, loc, changes>>
  BY DEF Base, Types, TypeOK, OwnWrite, Goto, HandlerStep, SendStep
<1>2. req[c].kind = "sendChanges" /\ u \in DOMAIN userChanges /\ i \in DOMAIN changes
  BY <1>1, HandlerOf DEF OwnWrite, SendStep, Registered, Authorship, ReadForWrite, Recording
<1>3. /\ DOMAIN userChanges' = DOMAIN userChanges
      /\ \A n \in DOMAIN userChanges : ~ Overlapping(n) =>
           OwnIds(n)' = IF n = u THEN OwnIds(n) \cup {i} ELSE OwnIds(n)
  BY OwnWriteLists
<1>4. \A d \in Calls \ {c} : Untouched(d) /\ Signed(req[d])' /\ ReadForWrite(d)'
  <2> SUFFICES ASSUME NEW d \in Calls \ {c}
               PROVE  Untouched(d) /\ Signed(req[d])' /\ ReadForWrite(d)'
    OBVIOUS
  <2>1. Untouched(d) /\ StoreGrows
    BY <1>1, HandlerFrame DEF Base, Untouched
  <2> QED
    BY <1>1, <2>1, OtherAuthorship, ListKept
<1>5. Signed(req[c])' /\ ReadForWrite(c)'
  BY <1>1 DEF Authorship, Signed, ReadForWrite, Recording
<1>6. OwnIdsLogged'
  BY <1>1, <1>2, <1>3, AttemptsSame DEF Authorship, OwnIdsLogged, Base
<1>7. AuthorshipRecorded'
  <2> SUFFICES ASSUME NEW j \in DOMAIN changes, NEW n, n = NameOf[author[changes[j]]],
                      ~ Overlapping(n)
               PROVE  \/ n \in DOMAIN userChanges /\ j \in OwnIds(n)'
                      \/ \E d \in Calls : /\ Recording(d)' /\ req[d].change = changes[j]
                                          /\ loc[d].cid = j /\ Untouched(d)
    BY <1>1, <1>3, AttemptsSame DEF AuthorshipRecorded, Untouched
  <2>1. CASE \E d \in Calls \ {c} : Recording(d) /\ req[d].change = changes[j] /\ loc[d].cid = j
    BY <1>4, <2>1 DEF Recording, Untouched
  <2>2. CASE req[c].change = changes[j] /\ i = j
    <3>1. n = u
      BY <1>2, <2>2 DEF Authorship, Signed
    <3> QED
      BY <1>2, <1>3, <2>2, <3>1
  <2>3. CASE n \in DOMAIN userChanges /\ j \in OwnIds(n)
    BY <1>3, <2>3
  <2> QED
    BY <2>1, <2>2, <2>3 DEF Base, Authorship, AuthorshipRecorded
<1> QED
  BY <1>1, <1>4, <1>5, <1>6, <1>7 DEF Authorship

(* A new guest's list is empty, and nobody has logged a change for it yet. *)
LEMMA AddChangesAuthorship ==
  ASSUME Base, Apart, Registry, Authorship, NEW c \in Calls, AddChanges(c), UNCHANGED <<author, tries>>
  PROVE  Authorship'
<1>1. /\ HandlerStep(c) /\ pc \in [Calls -> Labels] /\ pc'[c] = "login_count"
      /\ pc[c] = "add_changes" /\ UNCHANGED <<req, loc, changes>>
      /\ req[c].user \notin DOMAIN userChanges
      /\ userChanges' = HSet(userChanges, req[c].user, <<>>)
  BY DEF Base, Types, TypeOK, AddChanges, Goto, HandlerStep, LoginStep, Registry, Vacant
<1>2. /\ DOMAIN userChanges' = DOMAIN userChanges \cup {req[c].user}
      /\ \A n \in DOMAIN userChanges : userChanges'[n] = userChanges[n]
      /\ userChanges'[req[c].user] = <<>>
  BY <1>1 DEF HSet
<1>3. \A d \in Calls \ {c} : Untouched(d) /\ Signed(req[d])' /\ ReadForWrite(d)'
  <2> SUFFICES ASSUME NEW d \in Calls \ {c}
               PROVE  Untouched(d) /\ Signed(req[d])' /\ ReadForWrite(d)'
    OBVIOUS
  <2>1. Untouched(d) /\ StoreGrows
    BY <1>1, HandlerFrame DEF Base, Untouched
  <2> QED
    BY <1>1, <2>1, OtherAuthorship, ListKept
<1>4. Signed(req[c])' /\ ReadForWrite(c)'
  BY <1>1 DEF Authorship, Signed, ReadForWrite, Recording
<1>5. \A n \in DOMAIN userChanges : OwnIds(n)' = OwnIds(n)
  BY <1>2 DEF OwnIds
<1>6. OwnIdsLogged'
  <2> SUFFICES ASSUME NEW n \in DOMAIN userChanges', ~ Overlapping(n)
               PROVE  OwnIds(n)' \subseteq DOMAIN changes
    BY <1>1, AttemptsSame DEF OwnIdsLogged
  <2>1. CASE n \in DOMAIN userChanges
    BY <1>5, <2>1 DEF Base, Authorship, OwnIdsLogged
  <2>2. CASE n = req[c].user
    BY <1>2, <2>2 DEF OwnIds
  <2> QED
    BY <1>2, <2>1, <2>2
<1>7. AuthorshipRecorded'
  <2> SUFFICES ASSUME NEW j \in DOMAIN changes, NEW n, n = NameOf[author[changes[j]]],
                      ~ Overlapping(n)
               PROVE  \/ n \in DOMAIN userChanges /\ j \in OwnIds(n)'
                      \/ \E d \in Calls : /\ Recording(d)' /\ req[d].change = changes[j]
                                          /\ loc[d].cid = j /\ Untouched(d)
    BY <1>1, <1>2, AttemptsSame DEF AuthorshipRecorded, Untouched
  <2>1. CASE \E d \in Calls : Recording(d) /\ req[d].change = changes[j] /\ loc[d].cid = j
    BY <1>1, <1>3, <2>1 DEF Recording, Untouched
  <2>2. CASE n \in DOMAIN userChanges /\ j \in OwnIds(n)
    BY <1>5, <2>2
  <2> QED
    BY <2>1, <2>2 DEF Base, Authorship, AuthorshipRecorded
<1> QED
  BY <1>1, <1>3, <1>4, <1>6, <1>7 DEF Authorship

(* The commands that write neither hash.                                   *)
LEMMA ReadersAuthorship ==
  ASSUME Base, Apart, Registry, Authorship, NEW c \in Calls, HandlerStep(c), UNCHANGED <<author, tries>>,
         ~ LogChange(c), ~ OwnWrite(c), ~ AddChanges(c)
  PROVE  Authorship'
<1>1. /\ pc \in [Calls -> Labels] /\ loc \in [Calls -> Locals]
      /\ UNCHANGED <<req, changes, userChanges>>
  BY HandlerFrame, ListsKept DEF Base, Types, TypeOK
<1>2. \A d \in Calls \ {c} : Untouched(d) /\ Signed(req[d])' /\ ReadForWrite(d)'
  <2> SUFFICES ASSUME NEW d \in Calls \ {c}
               PROVE  Untouched(d) /\ Signed(req[d])' /\ ReadForWrite(d)'
    OBVIOUS
  <2>1. Untouched(d) /\ StoreGrows
    BY HandlerFrame DEF Base, Untouched
  <2> QED
    BY <1>1, <2>1, OtherAuthorship
<1>3. /\ ReadForWrite(c)'
      /\ Recording(c) => Recording(c)' /\ loc'[c].cid = loc[c].cid
  <2>1. CASE OwnCompare(c) \/ OwnRead(c)
    <3>1. req[c].user \in DOMAIN userChanges
      BY <2>1, HandlerOf DEF SendStep, Registered
    <3>2. ReadForWrite(c)
      BY DEF Authorship
    <3>3. CASE OwnCompare(c)
      <4>1. /\ pc[c] = "own_compare" /\ pc'[c] = "own_read"
            /\ loc'[c].bare = (userChanges[req[c].user] = <<>>)
            /\ loc'[c].cid = loc[c].cid
        BY <1>1, <3>1, <3>3 DEF OwnCompare, Goto, Locals
      <4> QED
        BY <1>1, <3>2, <4>1, AttemptsSame DEF ReadForWrite, Recording
    <3>4. CASE OwnRead(c)
      <4>1. /\ pc[c] = "own_read" /\ pc'[c] = "own_write"
            /\ loc'[c].own = userChanges[req[c].user]
            /\ loc'[c].cid = loc[c].cid /\ loc'[c].bare = loc[c].bare
        BY <1>1, <3>1, <3>4 DEF OwnRead, Goto, Locals
      <4> QED
        BY <1>1, <3>2, <4>1, AttemptsSame DEF ReadForWrite, Recording
    <3> QED
      BY <2>1, <3>3, <3>4
  <2>2. CASE ~ (OwnCompare(c) \/ OwnRead(c))
    <3>1. ~ Recording(c) /\ ~ Recording(c)'
      BY <1>1, <2>2
      DEF HandlerStep, LoginStep, LoginIndex, LoginTaken, AddLen, AddUser, LoginCount,
          LoginKeys, LoginPosition, Position, HeartbeatStep, HeartbeatCount,
          HeartbeatKeys, HeartbeatPosition, HeartbeatChanges, HeartbeatOwn,
          HeartbeatFetch, SendStep, PpsStep, PpsCheck, PpsZero, PpsOne, PpsKey,
          ChangeIdGet, ChangeIdSet, ChangeIdReget, Deinitialize, SendUserNames, Goto,
          Recording
    <3> QED
      BY <3>1 DEF ReadForWrite, Recording
  <2> QED
    BY <2>1, <2>2
<1>4. Signed(req[c])'
  BY <1>1 DEF Authorship, Signed
<1>5. OwnIdsLogged' /\ \A n : OwnIds(n)' = OwnIds(n)
  BY <1>1, AttemptsSame DEF Base, Authorship, OwnIdsLogged, OwnIds
<1>6. AuthorshipRecorded'
  <2> SUFFICES ASSUME NEW j \in DOMAIN changes, NEW n, n = NameOf[author[changes[j]]],
                      ~ Overlapping(n)
               PROVE  \/ n \in DOMAIN userChanges /\ j \in OwnIds(n)
                      \/ \E d \in Calls : /\ Recording(d)' /\ req[d].change = changes[j]
                                          /\ loc'[d].cid = j
    BY <1>1, <1>5, AttemptsSame DEF AuthorshipRecorded
  <2>1. CASE \E d \in Calls : Recording(d) /\ req[d].change = changes[j] /\ loc[d].cid = j
    BY <1>2, <1>3, <2>1 DEF Recording, Untouched
  <2>2. CASE n \in DOMAIN userChanges /\ j \in OwnIds(n)
    BY <2>2
  <2> QED
    BY <2>1, <2>2 DEF Base, Authorship, AuthorshipRecorded
<1> QED
  BY <1>1, <1>2, <1>3, <1>4, <1>5, <1>6 DEF Authorship

(* What the pages do leaves authorship alone,                               *)
LEMMA OutsideAuthorship ==
  ASSUME Base, Authorship, OutsideStep, \A d \in Calls : Signed(req[d])', RepeatsKept
  PROVE  Authorship'
<1>1. UNCHANGED <<changes, userChanges>>
  BY DEF OutsideStep, store
<1>0. \A n : Overlapping(n) => Overlapping(n)'
  BY RepeatedStays
<1>2. \A d \in Calls : /\ Recording(d) => Untouched(d)
                       /\ Recording(d)' => Untouched(d)
                       /\ ReadForWrite(d)'
  <2> SUFFICES ASSUME NEW d \in Calls
               PROVE  /\ Recording(d) => Untouched(d)
                      /\ Recording(d)' => Untouched(d)
                      /\ ReadForWrite(d)'
    OBVIOUS
  <2>1. Untouched(d) => ReadForWrite(d)'
    BY <1>0, <1>1 DEF Authorship, ReadForWrite, Recording, Untouched
  <2> QED
    BY <2>1
    DEF OutsideStep, Handled, HandlerPcs, SendPcs, Recording, Beginnings, ReadForWrite
<1>3. OwnIdsLogged' /\ \A n : OwnIds(n)' = OwnIds(n)
  BY <1>0, <1>1 DEF Base, Authorship, OwnIdsLogged, OwnIds
<1>4. \A i \in DOMAIN changes : /\ changes[i] \in DOMAIN author
                               /\ changes[i] \in DOMAIN author'
                               /\ author'[changes[i]] = author[changes[i]]
  BY DEF Authorship, RepeatsKept
<1>5. AuthorshipRecorded'
  <2> SUFFICES ASSUME NEW j \in DOMAIN changes, NEW n, n = NameOf[author[changes[j]]],
                      ~ Overlapping(n)
               PROVE  \/ n \in DOMAIN userChanges /\ j \in OwnIds(n)
                      \/ \E d \in Calls : /\ Recording(d)' /\ req'[d].change = changes[j]
                                          /\ loc'[d].cid = j
    BY <1>0, <1>1, <1>3, <1>4 DEF AuthorshipRecorded
  <2>1. CASE \E d \in Calls : Recording(d) /\ req[d].change = changes[j] /\ loc[d].cid = j
    BY <1>2, <2>1 DEF Recording, Untouched
  <2>2. CASE n \in DOMAIN userChanges /\ j \in OwnIds(n)
    BY <2>2
  <2> QED
    BY <2>1, <2>2 DEF Base, Authorship, AuthorshipRecorded
<1> QED
  BY <1>1, <1>2, <1>3, <1>4, <1>5 DEF Authorship

(* and so does every step.                                                  *)
LEMMA NextAuthorship ==
  Base /\ Base' /\ Apart /\ Registry /\ Authorship /\ [Next]_vars => Authorship'
<1> SUFFICES ASSUME Base, Base', Apart, Registry, Authorship, [Next]_vars PROVE Authorship'
  OBVIOUS
<1>1. ASSUME NEW c \in Calls, CommandStep(c) PROVE Authorship'
  BY <1>1, LogChangeAuthorship, OwnWriteAuthorship, AddChangesAuthorship,
     ReadersAuthorship DEF CommandStep, page
<1>2. ASSUME NEW g \in Guests, NEW c \in Calls, PageRequest(g, c) PROVE Authorship'
  BY <1>2, RequestSigned, RequestOutside, OutsideAuthorship DEF Base, Authorship
<1>3. ASSUME OutsideStep, UNCHANGED <<author, tries>>,
             \A d \in Calls : req'[d] = req[d] \/ req'[d] = NoRequest
      PROVE  Authorship'
  BY <1>3, OutsideAuthorship DEF Authorship, Signed, NoRequest, RepeatsKept
<1>4. ASSUME NEW c \in Calls, Callback(c)
      PROVE  UNCHANGED <<author, tries>> /\ \A d \in Calls : req'[d] = req[d] \/ req'[d] = NoRequest
  BY <1>4 DEF Callback, LoginDone, HeartbeatDone, SendChangesDone, AnswerIgnored, Free,
              page, Base, Types, TypeOK
<1>5. ASSUME NEW c \in Calls, Accept(c), UNCHANGED page
      PROVE  UNCHANGED <<author, tries, req>>
  BY <1>5 DEF Accept, page
<1>6. UNCHANGED vars => UNCHANGED <<author, tries, req>>
  BY DEF vars, server, page
<1>7. ~ Startup
  BY DEF Startup, Base, Types, TypeOK
<1> QED
  BY <1>1, <1>2, <1>3, <1>4, <1>5, <1>6, <1>7, StepKinds DEF Base, Next, ServerStep, CommandStep

-----------------------------------------------------------------------------
(***************************************************************************)
(* The theorems.  Each is about a server whose logins do not get into each *)
(* other's way: it handles one request at a time, or every guest has a     *)
(* name of its own and is considerate.  Without either, a name that two    *)
(* logins add at the same time takes a position twice, and the second one  *)
(* may be beyond the count.  Sends may time out and be repeated.  The      *)
(* theorems hold until another server process starts.                      *)
(***************************************************************************)
LEMMA BaseAlways == Spec => [](Types /\ Served)
<1>1. Init => Types /\ Served
  BY InitTypes DEF Init, ServerInit, Served, CallServed, NoRequest, Kinds
<1> QED
  BY <1>1, NextTypes, NextServed, PTL DEF Spec

(* No restart, no second server process.                                    *)
LEMMA OneProcess ==
  ASSUME MaxStarts = 0
  PROVE  Spec => [](starts = 0)
<1>1. Init => starts = 0
  BY DEF Init, ServerInit
<1>2. Types /\ Served /\ starts = 0 /\ [Next]_vars => (starts = 0)'
  BY StartsGrow
<1> QED
  BY <1>1, <1>2, BaseAlways, PTL DEF Spec

(* A step to a state before any other process starts is from such a state. *)
LEMMA StepBase ==
  ASSUME Types /\ Served, (Types /\ Served)', [Next]_vars, starts' = 0
  PROVE  Base /\ Base'
BY StartsGrow DEF Base

(* One worker handles one request at a time,                                *)
LEMMA SerialAlways ==
  ASSUME Workers = 1
  PROVE  Spec => [](starts = 0 => Serial)
<1>1. Init => Serial
  BY PcsDisjoint
  DEF Init, ServerInit, StoreEmpty, EmptyHash, Serial, Handled, FreshId, HandlerPcs
<1>2. Types /\ Served /\ (Types /\ Served)'
      /\ (starts = 0 => Serial) /\ [Next]_vars => (starts = 0 => Serial)'
  BY StepBase, NextSerial DEF Base
<1> QED
  BY <1>1, <1>2, BaseAlways, PTL DEF Spec

(* and either that or considerate pages keep the writers of a list apart,  *)
(* up to attempts at one send.                                             *)
LEMMA ApartAlways ==
  ASSUME OneWorker \/ Considerate
  PROVE  Spec => [](starts = 0 => Apart)
<1>1. CASE OneWorker
  BY <1>1, SerialAlways, SerialApart, PTL DEF OneWorker
<1>2. CASE Considerate /\ Workers > 1
  <2>1. Init => Alone
    BY DEF Init, ServerInit, NoRequest, Alone, LoginsAlone, SendsAlone, Signed
  <2>2. Types /\ Served /\ Alone => (starts = 0 => Apart)
    BY <1>2, AloneApart DEF Base
  <2>3. Types /\ Served /\ Alone /\ [Next]_vars => Alone'
    BY <1>2, NextAlone
  <2> QED
    BY <2>1, <2>2, <2>3, BaseAlways, PTL DEF Spec
<1> QED
  BY <1>1, <1>2, WorkersAssumption DEF OneWorker

(* So the registry is right always,                                         *)
LEMMA RegistryAlways ==
  ASSUME OneWorker \/ Considerate
  PROVE  Spec => [](starts = 0 => Registry)
<1>1. Init => Registry
  BY DEF Init, ServerInit, StoreEmpty, EmptyHash, NoRequest, Registry, Vacant, Placed, Told
<1>2. Types /\ Served /\ (Types /\ Served)' /\ (starts = 0 => Apart)
      /\ (starts = 0 => Registry) /\ [Next]_vars => (starts = 0 => Registry)'
  BY StepBase, NextRegistry DEF Base
<1> QED
  BY <1>1, <1>2, BaseAlways, ApartAlways, PTL DEF Spec

(* names belong to one page,                                                *)
LEMMA ClaimsAlways ==
  ASSUME OneWorker \/ Considerate
  PROVE  Spec => [](starts = 0 => Claims)
<1>1. Init => Claims
  BY DEF Init, ServerInit, NoRequest, Claims, GuestNameOnce, LoginOwned, Claimed
<1>2. Types /\ Served /\ (Types /\ Served)'
      /\ (starts = 0 => Apart) /\ (starts = 0 => Registry)
      /\ (starts = 0 => Claims) /\ [Next]_vars => (starts = 0 => Claims)'
  BY StepBase, NextClaims DEF Base
<1> QED
  BY <1>1, <1>2, BaseAlways, ApartAlways, RegistryAlways, PTL DEF Spec

(* and own changes to their authors.                                        *)
LEMMA AuthorshipAlways ==
  ASSUME OneWorker \/ Considerate
  PROVE  Spec => [](starts = 0 => Authorship)
<1>1. Init => Authorship
  BY DEF Init, ServerInit, StoreEmpty, EmptyHash, NoRequest, Authorship, OwnIdsLogged,
         AuthorshipRecorded, Signed, ReadForWrite, Recording
<1>2. Types /\ Served /\ (Types /\ Served)'
      /\ (starts = 0 => Apart) /\ (starts = 0 => Registry)
      /\ (starts = 0 => Authorship) /\ [Next]_vars => (starts = 0 => Authorship)'
  BY StepBase, NextAuthorship DEF Base
<1> QED
  BY <1>1, <1>2, BaseAlways, ApartAlways, RegistryAlways, PTL DEF Spec

(* The position and the count that a login or a heartbeat answers fit      *)
(* together, though they are read one after the other while others log in: *)
(* a position is below every count taken later.                            *)
THEOREM PositionsInRange ==
  ASSUME MaxStarts = 0, OneWorker \/ Considerate
  PROVE  Spec => []PositionInRange
<1>1. Registry => PositionInRange
  BY DEF Registry, Placed, Told, PositionInRange
<1> QED
  BY <1>1, OneProcess, RegistryAlways, PTL

(* With one worker, positions stay dense as long as there is one process.  *)
LEMMA DenseAlways ==
  ASSUME Workers = 1
  PROVE  Spec => [](starts = 0 => Dense)
<1>1. Init => Dense
  <2> SUFFICES ASSUME Init PROVE Dense
    OBVIOUS
  <2>1. Count = 0 /\ DOMAIN users = {}
    BY FS_EmptySet DEF Init, ServerInit, StoreEmpty, EmptyHash, Count
  <2> QED
    BY <2>1 DEF Init, ServerInit, Dense, PositionsDense
<1>2. Types /\ Served /\ (Types /\ Served)'
      /\ (starts = 0 => Serial) /\ (starts = 0 => Registry)
      /\ (starts = 0 => Dense) /\ [Next]_vars => (starts = 0 => Dense)'
  BY StepBase, NextDense DEF Base
<1> QED
  BY <1>1, <1>2, BaseAlways, SerialAlways, RegistryAlways, PTL DEF Spec, OneWorker

(* With one worker the positions handed out are 0 .. count - 1, each once: *)
(* nobody registers between the counting and the taking.                   *)
THEOREM PositionsAreDense ==
  ASSUME Workers = 1, MaxStarts = 0
  PROVE  Spec => []PositionsDense
<1>1. Dense => PositionsDense
  BY DEF Dense
<1> QED
  BY <1>1, DenseAlways, OneProcess, PTL

(* With one worker the server's document is set up once, by the first      *)
(* change that is sent, and has its sentinels in the right order.          *)
THEOREM SentinelsWrittenOnce ==
  ASSUME Workers = 1, MaxStarts = 0
  PROVE  Spec => []SentinelsOnce
<1>1. Init => Sentinels
  BY DEF Init, ServerInit, StoreEmpty, Sentinels
<1>2. Sentinels => SentinelsOnce
  <2>1. ASSUME Sentinels
        PROVE  /\ keys = 0 \/ keys = 1
               /\ tags = <<>> \/ tags = <<"0">> \/ tags = <<"0", "1">>
               /\ keys = 1 => tags = <<"0", "1">>
    BY <2>1 DEF Sentinels
  <2>2. ASSUME Sentinels PROVE keys <= 1 /\ (keys = 1 => tags = <<"0", "1">>)
    BY <2>1, <2>2
  <2>3. ASSUME Sentinels PROVE Len(tags) <= 2
    <3>1. CASE tags = <<>>
      BY <3>1
    <3>2. CASE tags = <<"0">>
      BY <3>2
    <3>3. CASE tags = <<"0", "1">>
      BY <3>3
    <3> QED
      BY <2>1, <2>3, <3>1, <3>2, <3>3
  <2> QED
    BY <2>2, <2>3 DEF SentinelsOnce
<1>3. Types /\ Served /\ (Types /\ Served)' /\ starts = 0 /\ (starts = 0)'
      /\ (starts = 0 => Serial) /\ Sentinels /\ [Next]_vars => Sentinels'
  BY NextSentinels DEF Base
<1> QED
  BY <1>1, <1>2, <1>3, BaseAlways, OneProcess, SerialAlways, PTL DEF Spec

(* No two pages are logged in under one name: a login that finds its name  *)
(* free has taken it before any other login looks.                         *)
THEOREM GuestNamesOnce ==
  ASSUME MaxStarts = 0, OneWorker \/ Considerate
  PROVE  Spec => []GuestNameOnce
<1>1. Claims => GuestNameOnce
  BY DEF Claims
<1> QED
  BY <1>1, OneProcess, ClaimsAlways, PTL

(* The lists of own changes, kept as strings that are read, extended and   *)
(* written back by separate commands, hold ids of logged changes only, as  *)
(* long as attempts at one send do not overlap.                            *)
THEOREM OwnListsLogged ==
  ASSUME OneWorker \/ Considerate
  PROVE  Spec => []OwnIdsLogged
<1>1. (starts = 0 => Authorship) => OwnIdsLogged
  BY DEF Authorship, OwnIdsLogged
<1> QED
  BY <1>1, AuthorshipAlways, PTL

(* Every logged change is on its author's list, or its handler is about to *)
(* put it there: no update of the list is lost to another handler, though  *)
(* with several workers two handlers may log under one id -- except where  *)
(* attempts at sending under one name may overlap.                         *)
THEOREM ChangesHaveAuthors ==
  ASSUME OneWorker \/ Considerate
  PROVE  Spec => []AuthorshipRecorded
<1>1. (starts = 0 => Authorship) => AuthorshipRecorded
  BY DEF Authorship, AuthorshipRecorded
<1> QED
  BY <1>1, AuthorshipAlways, PTL
=============================================================================
