------------------------------ MODULE Session -------------------------------
(***************************************************************************)
(* The pages of the guests (app/static/js/colab.js) talking to the server  *)
(* of module Router: login, the heartbeat timer, the sendChanges timer     *)
(* with its timeout and retries, and the callbacks of their answers.  The  *)
(* document is reduced to how often each batch of changes was attached;    *)
(* what attaching a batch does to the text is not part of this module.     *)
(***************************************************************************)
EXTENDS Router

CONSTANTS
  Guests,        (* browser pages, one guest each                          *)
  NameOf,        (* the name each guest types into the login form          *)
  Routes,        (* the routes the pages use in this instance              *)
  MaxLogins,     (* login requests one page has open (2: a double click)   *)
  MaxHeartbeats, (* heartbeats one page has open: setInterval does not wait*)
  Impatient,     (* may an answer to sendChanges take more than 3000 ms?   *)
  MaxRetries,    (* retryLimit of the sendChanges request                  *)
  MaxRepeated    (* bound: payloads whose request is repeated              *)

ASSUME GuestsAssumption == NameOf \in [Guests -> Names] /\ None \notin Guests
ASSUME LimitsAssumption ==
  /\ Routes \subseteq Kinds
  /\ MaxLogins \in Nat \ {0}
  /\ MaxHeartbeats \in Nat \ {0}
  /\ Impatient \in BOOLEAN
  /\ MaxRetries \in Nat
  /\ MaxRepeated \in Nat

VARIABLES
  owner,   (* per call: the guest whose callback waits for the answer      *)
  joined,  (* the guests for whom performTasksForGuest has run             *)
  unacked, (* the guests whose flag "acknowledged" is false                *)
  last,    (* per guest: lastReceivedGreatestSeqNum                        *)
  author,  (* per payload sent so far: the guest that typed it             *)
  tries,   (* per payload: tryCounter of its request                       *)
  applied  (* per guest and payload: how often it was attached (to the cap)*)

page == <<joined, unacked, last, author, tries, applied>>
vars == <<server, owner, page>>

Open(g, kind) == {c \in Calls : owner[c] = g /\ req[c].kind = kind}

(* $.ajax: the request is on its way in a free call.                       *)
Issue(g, c, body) ==
  /\ pc[c] = "idle"
  /\ Goto(c, "queued")
  /\ req' = [req EXCEPT ![c] = body]
  /\ owner' = [owner EXCEPT ![c] = g]
  /\ UNCHANGED <<store, loc, starts>>

Body(kind, g, x, k) ==
  [kind |-> kind, user |-> NameOf[g], change |-> x, last |-> k]

(***************************************************************************)
(* Requests.                                                               *)
(***************************************************************************)
LoginAsGuest(g, c) ==
  /\ "login" \in Routes
  /\ g \notin joined
  /\ Cardinality(Open(g, "login")) < MaxLogins
  /\ Issue(g, c, Body("login", g, None, -1))
  /\ UNCHANGED page

(* Every 500 ms, whether or not earlier heartbeats were answered.          *)
HeartbeatTimer(g, c) ==
  /\ "heartbeat" \in Routes
  /\ g \in joined
  /\ Cardinality(Open(g, "heartbeat")) < MaxHeartbeats
  /\ Issue(g, c, Body("heartbeat", g, None, last[g]))
  /\ UNCHANGED page

(* Every 1000 ms: all pending changes go out as one payload, if the        *)
(* previous one was acknowledged.                                          *)
SendChangesTimer(g, c, x) ==
  /\ "sendChanges" \in Routes
  /\ g \in joined
  /\ g \notin unacked
  /\ x \notin DOMAIN author
  /\ Issue(g, c, Body("sendChanges", g, x, -1))
  /\ unacked' = unacked \cup {g}
  /\ author' = HSet(author, x, g)
  /\ UNCHANGED <<joined, last, tries, applied>>

(* retryLimit, and the bound on this instance.                              *)
MayRepeat(x) ==
  /\ tries[x] < MaxRetries
  /\ Cardinality({y \in Payloads : tries[y] > 0} \cup {x}) <= MaxRepeated

(* Slip: the retries are not counted.                                      *)
SendTimeoutUncounted(g, c, retry) ==
  /\ Impatient
  /\ c \in Open(g, "sendChanges")
  /\ MayRepeat(req[c].change)
  /\ pc[retry] = "idle"
  /\ Goto(retry, "queued")
  /\ req' = [req EXCEPT ![retry] = req[c]]
  /\ owner' = [owner EXCEPT ![retry] = g, ![c] = None]
  /\ UNCHANGED <<store, loc, starts, page>>

(* timeout: 3000 -- jQuery gives the request up, the server does not; the  *)
(* error callback sends the same payload again, up to retryLimit times.    *)
SendTimeout(g, c, retry) ==
  /\ Impatient
  /\ c \in Open(g, "sendChanges")
  /\ MayRepeat(req[c].change)
  /\ pc[retry] = "idle"
  /\ Goto(retry, "queued")
  /\ req' = [req EXCEPT ![retry] = req[c]]
  /\ owner' = [owner EXCEPT ![retry] = g, ![c] = None]
  /\ tries' = [tries EXCEPT ![req[c].change] = @ + 1]
  /\ UNCHANGED <<store, loc, starts, joined, unacked, last, author, applied>>

(* Slip: at the first timeout.                                             *)
SendGiveUpAtOnce(g, c) ==
  /\ Impatient
  /\ c \in Open(g, "sendChanges")
  /\ owner' = [owner EXCEPT ![c] = None]
  /\ UNCHANGED <<server, page>>

(* The retries are used up: acknowledged stays false.                      *)
SendGiveUp(g, c) ==
  /\ Impatient
  /\ c \in Open(g, "sendChanges")
  /\ tries[req[c].change] = MaxRetries
  /\ owner' = [owner EXCEPT ![c] = None]
  /\ UNCHANGED <<server, page>>

(* The page's own timers are local variables of the functions that set     *)
(* them: logging out stops none of them and changes nothing in the session.*)
LogOut(g, c) ==
  /\ "deinitializeCall" \in Routes
  /\ g \in joined
  /\ Open(g, "deinitializeCall") = {}
  /\ Issue(g, c, Body("deinitializeCall", g, None, -1))
  /\ UNCHANGED page

GetUserNames(g, c) ==
  /\ "sendUserNames" \in Routes
  /\ g \in joined
  /\ Open(g, "sendUserNames") = {}
  /\ Issue(g, c, Body("sendUserNames", g, None, -1))
  /\ UNCHANGED page

(***************************************************************************)
(* Answers.                                                                *)
(***************************************************************************)
Free(c) ==
  /\ Goto(c, "idle")
  /\ req' = [req EXCEPT ![c] = NoRequest]
  /\ loc' = [loc EXCEPT ![c] = NoLocals]
  /\ owner' = [owner EXCEPT ![c] = None]
  /\ UNCHANGED <<store, starts>>

Answer(c, kind) == pc[c] \in Answered /\ owner[c] # None /\ req[c].kind = kind

LoginDone(c) ==
  /\ Answer(c, "login")
  /\ \/ /\ pc[c] = "replied"
        /\ joined' = joined \cup {owner[c]}
        /\ last' = [last EXCEPT ![owner[c]] = -1]
     \/ /\ pc[c] # "replied"
        /\ UNCHANGED <<joined, last>>
  /\ Free(c)
  /\ UNCHANGED <<unacked, author, tries, applied>>

(* How often a reply's transactions carry payload x.                       *)
Copies(got, x) == Cardinality({t \in got : t[2] = x})

(* Attachments of one payload are counted up to a cap no run reaches       *)
(* without violating AttachedOnce.                                         *)
AppliedCap == 1 + MaxHeartbeats * (1 + MaxRetries)

AtMost(n, bound) == IF n < bound THEN n ELSE bound

(* Slip: the greatest id received is not remembered.                       *)
HeartbeatDoneForgets(c) ==
  /\ Answer(c, "heartbeat")
  /\ applied' = [applied EXCEPT ![owner[c]] =
       [x \in Payloads |-> AtMost(@[x] + Copies(loc[c].got, x), AppliedCap)]]
  /\ Free(c)
  /\ UNCHANGED <<joined, unacked, last, author, tries>>

(* PPS.attach on every transaction received, new or not; the greatest id   *)
(* becomes lastReceivedGreatestSeqNum.  There is no error callback.        *)
HeartbeatDone(c) ==
  /\ Answer(c, "heartbeat")
  /\ LET g == owner[c]
         got == loc[c].got
         seen == {last[g]} \cup {t[1] : t \in got}
     IN  \/ /\ pc[c] = "replied"
            /\ \E m \in seen : /\ \A i \in seen : i <= m
                               /\ last' = [last EXCEPT ![g] = m]
            /\ applied' = [applied EXCEPT ![g] =
                 [x \in Payloads |-> AtMost(@[x] + Copies(got, x), AppliedCap)]]
         \/ /\ pc[c] # "replied"
            /\ UNCHANGED <<last, applied>>
  /\ Free(c)
  /\ UNCHANGED <<joined, unacked, author, tries>>

(* Slip: the success callback does not set acknowledged.                   *)
SendChangesDoneStuck(c) ==
  /\ Answer(c, "sendChanges")
  /\ Free(c)
  /\ UNCHANGED page

SendChangesDone(c) ==
  /\ Answer(c, "sendChanges")
  /\ unacked' = IF pc[c] = "replied" THEN unacked \ {owner[c]} ELSE unacked
  /\ Free(c)
  /\ UNCHANGED <<joined, last, author, tries, applied>>

(* Answers no callback acts on, and answers to requests given up.          *)
AnswerIgnored(c) ==
  /\ pc[c] \in Answered
  /\ owner[c] = None \/ req[c].kind \in {"deinitializeCall", "sendUserNames"}
  /\ Free(c)
  /\ UNCHANGED page

-----------------------------------------------------------------------------
Init ==
  /\ ServerInit
  /\ owner = [c \in Calls |-> None]
  /\ joined = {}
  /\ unacked = {}
  /\ last = [g \in Guests |-> -1]
  /\ author = EmptyHash
  /\ tries = [x \in Payloads |-> 0]
  /\ applied = [g \in Guests |-> [x \in Payloads |-> 0]]

PageRequest(g, c) ==
  \/ LoginAsGuest(g, c)
  \/ HeartbeatTimer(g, c)
  \/ \E x \in Payloads : SendChangesTimer(g, c, x)
  \/ \E retry \in Calls : SendTimeout(g, c, retry)
  \/ SendGiveUp(g, c)
  \/ LogOut(g, c)
  \/ GetUserNames(g, c)

Callback(c) ==
  LoginDone(c) \/ HeartbeatDone(c) \/ SendChangesDone(c) \/ AnswerIgnored(c)

ServerStep(c) == (Accept(c) \/ HandlerStep(c)) /\ UNCHANGED <<owner, page>>

Next ==
  \/ \E g \in Guests, c \in Calls : PageRequest(g, c)
  \/ \E c \in Calls : ServerStep(c) \/ Callback(c)
  \/ Startup /\ UNCHANGED <<owner, page>>

Spec == Init /\ [][Next]_vars

-----------------------------------------------------------------------------
(***************************************************************************)
(* Properties.                                                             *)
(***************************************************************************)
(* A call's handler is the one its request names.                          *)
Dispatched(c) ==
  /\ pc[c] = "idle" <=> req[c] = NoRequest
  /\ pc[c] \in LoginPcs \cup {"invalid"} => req[c].kind = "login"
  /\ pc[c] \in HeartbeatPcs => req[c].kind = "heartbeat"
  /\ pc[c] \in SendPcs => req[c].kind = "sendChanges"
  /\ pc[c] = "deinitialize" => req[c].kind = "deinitializeCall"
  /\ pc[c] = "names" => req[c].kind = "sendUserNames"
  /\ req[c].kind = "sendChanges" => req[c].change \in Payloads

(* The type invariant of the server's and the pages' state.                *)
TypeOK ==
  /\ StoreTypeOK
  /\ pc \in [Calls -> Labels]
  /\ req \in [Calls -> Request]
  /\ loc \in [Calls -> Locals]
  /\ \A c \in Calls : Dispatched(c)
  /\ starts \in Nat
  /\ owner \in [Calls -> Guests \cup {None}]
  /\ joined \subseteq Guests
  /\ unacked \subseteq Guests
  /\ last \in [Guests -> Int]
  /\ author \in [DOMAIN author -> Guests] /\ DOMAIN author \subseteq Payloads
  /\ tries \in [Payloads -> Nat]
  /\ applied \in [Guests -> [Payloads -> 0..AppliedCap]]

(* No handler ever raises while the database is not emptied under it: the  *)
(* fields a handler reads after listing a hash's keys, or after its guest  *)
(* was registered, are still there.                                        *)
NoServerError == \A c \in Calls : pc[c] = "failed" => starts > 0

(* The partition of the tag space works with an index below the number of  *)
(* users: the count and the position a guest is told are read by separate  *)
(* commands, and still fit together.                                       *)
PositionInRange ==
  /\ \A n \in DOMAIN users : users[n] < Count
  /\ \A c \in Calls : pc[c] = "replied" /\ req[c].kind \in {"login", "heartbeat"}
                        => 0 <= loc[c].pos /\ loc[c].pos < loc[c].n

(* Each registered name has a position of its own, and none is left out.   *)
PositionsDense == {users[n] : n \in DOMAIN users} = 0..Count - 1

(* A handler between logging the change and recording it as its user's own.*)
Recording(c) == pc[c] \in {"own_compare", "own_read", "own_write"}

(* A send under this name was repeated where requests are handled          *)
(* concurrently: two attempts may then compare, read and write the name's  *)
(* list of own changes at the same time, and lose an id or glue two into a *)
(* number that no change has.                                              *)
Overlapping(n) ==
  Workers > 1 /\ \E x \in DOMAIN author : NameOf[author[x]] = n /\ tries[x] > 0

(* Every logged change is on its author's list of own changes, or its      *)
(* handler is about to put it there -- the filter that keeps a guest from  *)
(* being sent its own changes loses nothing -- unless attempts under the   *)
(* author's name may overlap, or the list went with the database.          *)
AuthorshipRecorded ==
  starts = 0 => \A i \in DOMAIN changes :
    LET n == NameOf[author[changes[i]]]
    IN  \/ Overlapping(n)
        \/ n \in DOMAIN userChanges /\ i \in OwnIds(n)
        \/ \E c \in Calls : /\ Recording(c)
                            /\ req[c].change = changes[i]
                            /\ loc[c].cid = i

(* Every id on a list of own changes is the id of a logged change, unless  *)
(* attempts under the name may overlap, or the log was emptied.            *)
OwnIdsLogged ==
  starts = 0 => \A n \in DOMAIN userChanges :
    Overlapping(n) \/ OwnIds(n) \subseteq DOMAIN changes

(* A logged change is never replaced: ids are handed out once.             *)
LogAppendOnly ==
  [][\A i \in DOMAIN changes : i \in DOMAIN changes' /\ changes'[i] = changes[i]]_changes

(* A guest never attaches its own changes, which are in its document       *)
(* already, and attaches a change of the others at most once -- once per   *)
(* attempt at sending it, and per heartbeat that can be open, if there can *)
(* be more than one of either.                                             *)
AttachedOnce ==
  \A g \in Guests, x \in DOMAIN author :
    applied[g][x] <= IF author[x] = g THEN 0 ELSE MaxHeartbeats * (1 + tries[x])

(* A guest that has seen id n has attached every change of the others      *)
(* logged up to n: skipping to the greatest id received skips nothing.     *)
(* (A restart ends that, even for the guests registered since: a handler   *)
(* in flight may log its change under an id of the old log.)               *)
NoGap ==
  starts = 0 =>
    \A g \in joined : \A i \in DOMAIN changes :
      i <= last[g] /\ author[changes[i]] # g => applied[g][changes[i]] > 0

(* A guest waits for at most one answer to sendChanges, the one that will  *)
(* set acknowledged again; acknowledged stays false without such a request *)
(* only after the last retry has timed out, or after a restart.            *)
GaveUp(g) ==
  starts > 0 \/ \E x \in DOMAIN author : author[x] = g /\ tries[x] = MaxRetries
OneSendOrStuck ==
  \A g \in Guests :
    LET open == Open(g, "sendChanges")
    IN  /\ g \notin unacked => open = {}
        /\ g \in unacked => Cardinality(open) = 1 \/ (open = {} /\ GaveUp(g))

(* The server's document starts with its two sentinels, once.              *)
SentinelsOnce == keys <= 1 /\ Len(tags) <= 2 /\ (keys = 1 => tags = <<"0", "1">>)

(* No two pages are logged in under one name.                              *)
GuestNameOnce == \A g, h \in joined : NameOf[g] = NameOf[h] => g = h

(* Inside a "with hot_redis.transaction()" block: UserOrder.add and        *)
(* get_change_id, after their first command.                               *)
InTransaction(c) == pc[c] \in {"add_user", "add_changes", "cid_set", "cid_reget"}

(* The commands of a transaction block are executed together: no other     *)
(* request changes what they read or write in between.                     *)
TransactionIsolated ==
  [][\A c \in Calls : InTransaction(c) /\ pc'[c] = pc[c]
       => UNCHANGED <<users, userChanges, id>>]_vars

(* A guest told that it was deinitialized is no longer registered.         *)
LogoutForgets ==
  \A c \in Calls : pc[c] = "replied" /\ req[c].kind = "deinitializeCall"
                     => req[c].user \notin DOMAIN users

-----------------------------------------------------------------------------
(***************************************************************************)
(* Liveness.  A handler's commands return; callbacks run; setInterval keeps*)
(* firing; a waiting connection is accepted sooner or later (the listen    *)
(* queue is first in, first out, which strong fairness stands for).        *)
(***************************************************************************)
Fairness ==
  /\ \A c \in Calls : /\ WF_vars(HandlerStep(c) /\ UNCHANGED <<owner, page>>)
                      /\ WF_vars(Callback(c))
                      /\ SF_vars(Accept(c) /\ UNCHANGED <<owner, page>>)
  /\ \A g \in Guests : SF_vars(\E c \in Calls : HeartbeatTimer(g, c))

FairSpec == Spec /\ Fairness

(* Every change sent reaches every other guest that is logged in.          *)
Delivered ==
  \A x \in Payloads, g \in Guests :
    (x \in DOMAIN author /\ g \in joined /\ author[x] # g) ~> applied[g][x] > 0

(* A guest that has sent changes can send again eventually.                *)
SendsAgain == \A g \in Guests : g \in unacked ~> g \notin unacked
=============================================================================
