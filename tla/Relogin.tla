------------------------------ MODULE Relogin -------------------------------
(***************************************************************************)
(* Logging out and in again on one page of app/static/js/colab.js.  The    *)
(* timers of a login are local variables of the functions that set them,   *)
(* so logOut stops none: a page that has logged in twice asks for news     *)
(* under both names, into one lastReceivedGreatestSeqNum, and sends under  *)
(* whatever its name field says at that moment, into one flag              *)
(* "acknowledged".  A send may time out and is then repeated as it was, up *)
(* to retryLimit times, while the server may still be at the first one.    *)
(* The server is the one of module SharedLog: a login and a heartbeat take *)
(* effect as they are issued, a send whenever the server gets to it.  An   *)
(* answer is reduced to what these callbacks use of it, and a document to  *)
(* which changes are in it.                                                *)
(***************************************************************************)
EXTENDS Integers, FiniteSets, Sequences

CONSTANTS
  Pages,
  Names,     (* what can be in the name field                              *)
  Empty,     (* the empty name: the server takes it like any other         *)
  MaxTyped,  (* bound: changes made, by all pages together                 *)
  MaxLogOuts, (* bound: logouts, by all pages together                     *)
  MaxRetries, (* retryLimit of a send                                      *)
  MaxStarts, (* bound: server processes started after the first one        *)
  MaxEvents  (* bound: changes made, changes sent again and server starts, *)
             (* all together                                               *)

ASSUME ReloginAssumption ==
  /\ Empty \in Names /\ {"login", "send"} \cap Names = {}
  /\ {MaxTyped, MaxLogOuts, MaxRetries, MaxStarts, MaxEvents} \subseteq Nat

Changes == 1..MaxTyped

VARIABLES
  members, log, own, answer, (* the server, see SharedLog                  *)
  field,        (* the value of the field UserName                         *)
  inside,       (* the pages that show the editor, not the login form      *)
  names,        (* per page: the names its heartbeat timers use            *)
  asked,        (* per page: the name in its open login request            *)
  acknowledged,
  pending,      (* pendingChanges                                          *)
  request,      (* the settings of the open send, with its tryCounter;     *)
                (* those of a send that failed are kept                    *)
  posted,       (* the sends the server has not come to yet                *)
  last,         (* lastReceivedGreatestSeqNum                              *)
  attached,     (* the changes of others that are in the document          *)
  screen,       (* the changes that are in the editor                      *)
  typist,       (* history: the page each change was made on               *)
  logOuts,      (* history: how many                                       *)
  starts,       (* history: server starts after the first one              *)
  tries,        (* history: how often the send of each change was repeated *)
  current,      (* history: the pages whose last login was answered while  *)
                (* no changes were on their way to them, and no server     *)
                (* start since                                             *)
  heard         (* history: per page in current, the names whose heartbeats*)
                (* brought changes since that login                        *)

server == <<members, log, own, answer>>
form == <<field, inside, names, asked>>
sending == <<acknowledged, pending, request, posted>>
content == <<last, attached, screen>>
history == <<typist, logOuts, starts, tries, current, heard>>
vars == <<server, form, sending, content, history>>

Requests == (Pages \X {"login", "send"}) \cup (Pages \X Names)

Server == INSTANCE SharedLog WITH Payloads <- SUBSET Changes, Calls <- Requests

Failed == [kind |-> "failed"]

Send(p, n, sent, k) == [page |-> p, name |-> n, changes |-> sent, tries |-> k]
NoSend(p) == Send(p, Empty, {}, 0)

Init ==
  /\ Server!Init
  /\ field = [p \in Pages |-> Empty]
  /\ inside = {}
  /\ names = [p \in Pages |-> {}]
  /\ asked = [p \in Pages |-> {}]
  /\ acknowledged = [p \in Pages |-> TRUE]
  /\ pending = [p \in Pages |-> {}]
  /\ request = [p \in Pages |-> NoSend(p)]
  /\ posted = {}
  /\ last = [p \in Pages |-> -1]
  /\ attached = [p \in Pages |-> {}]
  /\ screen = [p \in Pages |-> {}]
  /\ typist = <<>> /\ logOuts = 0 /\ starts = 0
  /\ tries = [x \in Changes |-> 0]
  /\ heard = [p \in Pages |-> {}]
  /\ current = {}

(* The events that MaxEvents counts, if these changes have been sent again.*)
SentAgain == {x \in Changes : tries[x] > 0}
Events(again) == Len(typist) + starts + Cardinality(again)

-----------------------------------------------------------------------------
(* The login form; while a login is on its way it is left alone.           *)
FillIn(p, n) ==
  /\ p \notin inside /\ asked[p] = {} /\ field[p] # n
  /\ field' = [field EXCEPT ![p] = n]
  /\ UNCHANGED <<server, inside, names, asked, sending, content, history>>

(* logOut: the server answers and forgets nothing, no timer stops.         *)
LogOut(p) ==
  /\ p \in inside /\ logOuts < MaxLogOuts
  /\ inside' = inside \ {p}
  /\ logOuts' = logOuts + 1
  /\ UNCHANGED <<server, field, names, asked, sending, content>>
  /\ UNCHANGED <<typist, starts, tries, current, heard>>

(* loginAsGuest: the name goes into the request ...                        *)
LoginAsGuest(p) ==
  /\ p \notin inside /\ asked[p] = {}
  /\ asked' = [asked EXCEPT ![p] = {field[p]}]
  /\ \/ Server!Register(<<p, "login">>, field[p])
     \/ Server!Refuse(<<p, "login">>, field[p])
  /\ UNCHANGED <<field, inside, names, sending, content, history>>

HeartbeatOpen(p) == \E n \in Names : answer[<<p, n>>] # Server!NoAnswer

(* Slips: a second login that starts afresh, and one that asks only for    *)
(* what is new.                                                            *)
PerformTasksForGuestEmpty(p) ==
  /\ inside' = inside \cup {p}
  /\ names' = [names EXCEPT ![p] = @ \cup asked[p]]
  /\ last' = [last EXCEPT ![p] = -1]
  /\ screen' = [screen EXCEPT ![p] = {}]
  /\ heard' = [heard EXCEPT ![p] = {}]
  /\ current' = IF HeartbeatOpen(p) THEN current \ {p} ELSE current \cup {p}
  /\ pending' = [pending EXCEPT ![p] = {}]
  /\ UNCHANGED <<acknowledged, request, posted, attached>>
PerformTasksForGuestUnlocked(p) ==
  /\ inside' = inside \cup {p}
  /\ names' = [names EXCEPT ![p] = @ \cup asked[p]]
  /\ last' = [last EXCEPT ![p] = -1]
  /\ screen' = [screen EXCEPT ![p] = {}]
  /\ heard' = [heard EXCEPT ![p] = {}]
  /\ current' = IF HeartbeatOpen(p) THEN current \ {p} ELSE current \cup {p}
  /\ acknowledged' = [acknowledged EXCEPT ![p] = TRUE]
  /\ UNCHANGED <<pending, request, posted, attached>>
PerformTasksForGuestGoesOn(p) ==
  /\ inside' = inside \cup {p}
  /\ names' = [names EXCEPT ![p] = @ \cup asked[p]]
  /\ screen' = [screen EXCEPT ![p] = {}]
  /\ heard' = [heard EXCEPT ![p] = {}]
  /\ current' = IF HeartbeatOpen(p) THEN current \ {p} ELSE current \cup {p}
  /\ UNCHANGED <<sending, attached, last>>

(* ... and its answer empties the editor, resets the position in the log   *)
(* and starts another set of timers; document, pending changes, the flag   *)
(* and an open send stay as they are.                                      *)
PerformTasksForGuest(p) ==
  /\ inside' = inside \cup {p}
  /\ names' = [names EXCEPT ![p] = @ \cup asked[p]]
  /\ last' = [last EXCEPT ![p] = -1]
  /\ screen' = [screen EXCEPT ![p] = {}]
  /\ heard' = [heard EXCEPT ![p] = {}]
  /\ current' = IF HeartbeatOpen(p) THEN current \ {p} ELSE current \cup {p}
  /\ UNCHANGED <<sending, attached>>

LoginDone(p) ==
  LET a == answer[<<p, "login">>]
  IN  /\ Server!Collect(<<p, "login">>)
      /\ asked' = [asked EXCEPT ![p] = {}]
      /\ \/ a.kind = "welcome" /\ PerformTasksForGuest(p)
         \/ /\ a.kind = "invalid"
            /\ UNCHANGED <<inside, names, sending, content, current, heard>>
      /\ UNCHANGED <<field, typist, logOuts, starts, tries>>

-----------------------------------------------------------------------------
(* insertText and deleteText.                                              *)
Edit(p) ==
  LET x == Len(typist) + 1
  IN  /\ p \in inside /\ x \in Changes /\ Events(SentAgain) < MaxEvents
      /\ typist' = Append(typist, p)
      /\ pending' = [pending EXCEPT ![p] = @ \cup {x}]
      /\ screen' = [screen EXCEPT ![p] = @ \cup {x}]
      /\ UNCHANGED <<server, form, acknowledged, request, posted, last, attached>>
      /\ UNCHANGED <<logOuts, starts, tries, current, heard>>

(* A timer of startSendChanges, of whichever login.                        *)
StartSendChanges(p) ==
  LET r == Send(p, field[p], pending[p], 0)
  IN  /\ names[p] # {} /\ acknowledged[p] /\ pending[p] # {}
      /\ acknowledged' = [acknowledged EXCEPT ![p] = FALSE]
      /\ pending' = [pending EXCEPT ![p] = {}]
      /\ request' = [request EXCEPT ![p] = r]
      /\ posted' = posted \cup {r}
      /\ UNCHANGED <<server, form, content, history>>

(* The server comes to a send: it logs the changes, and fails afterwards if*)
(* it does not know the name.  A page has no callback left for the answer  *)
(* to an attempt it gave up.                                               *)
InsertText(r) ==
  LET c == <<r.page, "send">>
      i == Cardinality(DOMAIN log) + 1
      known == r.name \in DOMAIN own
      a == IF known THEN Server!Logged(r.name, r.changes, i) ELSE Failed
  IN  /\ r \in posted
      /\ posted' = posted \ {r}
      /\ log' = Server!With(log, i, r.changes)
      /\ own' = IF known THEN [own EXCEPT ![r.name] = @ \cup {i}] ELSE own
      /\ answer' = IF request[r.page] = r THEN [answer EXCEPT ![c] = a] ELSE answer
      /\ UNCHANGED <<members, form, acknowledged, pending, request, content, history>>

SendOpen(p) == request[p] \in posted \/ answer[<<p, "send">>] # Server!NoAnswer

(* timeout: 3000 -- the answer is not waited for any longer, and the same  *)
(* send goes out again, unless it was the last attempt.                    *)
SendTimeout(p) ==
  LET r == [request[p] EXCEPT !.tries = @ + 1]
      again == r.tries <= MaxRetries
  IN  /\ SendOpen(p) /\ Events(SentAgain \cup r.changes) <= MaxEvents
      /\ request' = [request EXCEPT ![p] = r]
      /\ answer' = [answer EXCEPT ![<<p, "send">>] = Server!NoAnswer]
      /\ posted' = IF again THEN posted \cup {r} ELSE posted
      /\ tries' = [x \in Changes |->
           IF again /\ x \in r.changes THEN tries[x] + 1 ELSE tries[x]]
      /\ UNCHANGED <<members, log, own, form, acknowledged, pending, content>>
      /\ UNCHANGED <<typist, logOuts, starts, current, heard>>

(* An answer in time: success, or an error that is no timeout.             *)
SendDone(p) ==
  LET a == answer[<<p, "send">>]
  IN  /\ Server!Collect(<<p, "send">>)
      /\ acknowledged' = [acknowledged EXCEPT ![p] = a # Failed]
      /\ request' = IF a = Failed THEN request ELSE [request EXCEPT ![p] = NoSend(p)]
      /\ UNCHANGED <<form, pending, posted, content, history>>

-----------------------------------------------------------------------------
(* What a heartbeat is answered: the changes of others after id k.  One    *)
(* that brings none does nothing to this page and is left out.             *)
Poll(c, n, k) ==
  LET fresh == {i \in DOMAIN log : i > k} \ own[n]
      news == [kind |-> "news", since |-> k, transactions |-> {<<i, log[i]>> : i \in fresh}]
  IN  /\ n \in DOMAIN members /\ fresh # {}
      /\ Server!Give(c, news)
      /\ UNCHANGED <<members, log, own>>

(* Slips: from the next id on; under the name in the field.                *)
HeartbeatLater(p, n) ==
  /\ n \in names[p]
  /\ Poll(<<p, n>>, n, last[p] + 2)
  /\ UNCHANGED <<form, sending, content, history>>
HeartbeatOfField(p, n) ==
  /\ n \in names[p]
  /\ Poll(<<p, n>>, field[p], last[p])
  /\ UNCHANGED <<form, sending, content, history>>

(* heartbeat(guestName), of each login, and its answer.                    *)
Heartbeat(p, n) ==
  /\ n \in names[p]
  /\ Poll(<<p, n>>, n, last[p])
  /\ UNCHANGED <<form, sending, content, history>>

News(p, n) ==
  LET got == answer[<<p, n>>].transactions
      ids == {last[p]} \cup {t[1] : t \in got}
      changes == UNION {t[2] : t \in got}
  IN  /\ Server!Collect(<<p, n>>)
      /\ last' = [last EXCEPT ![p] = CHOOSE m \in ids : \A i \in ids : i <= m]
      /\ attached' = [attached EXCEPT ![p] = @ \cup changes]
      /\ screen' = [screen EXCEPT ![p] = @ \cup changes]
      /\ heard' = [heard EXCEPT ![p] = IF p \in current THEN @ \cup {n} ELSE @]
      /\ UNCHANGED <<form, sending, typist, logOuts, starts, tries, current>>

(* A new server process: flushall.  The sends on their way to one that died*)
(* fail.                                                                   *)
Restart ==
  /\ starts < MaxStarts /\ Events(SentAgain) < MaxEvents
  /\ members' = [n \in {} |-> 0]
  /\ log' = [i \in {} |-> 0]
  /\ own' = [n \in {} |-> {}]
  /\ starts' = starts + 1
  /\ current' = {}
  /\ \E lost \in SUBSET posted :
       /\ posted' = posted \ lost
       /\ answer' = [c \in Requests |->
            IF \E p \in Pages : c = <<p, "send">> /\ request[p] \in lost
              THEN Failed ELSE answer[c]]
  /\ UNCHANGED <<form, acknowledged, pending, request, content>>
  /\ heard' = [p \in Pages |-> {}]
  /\ UNCHANGED <<typist, logOuts, tries>>

Next ==
  \/ Restart
  \/ \E r \in posted : InsertText(r)
  \/ \E p \in Pages :
    \/ \E n \in Names : FillIn(p, n) \/ Heartbeat(p, n) \/ News(p, n)
    \/ LogOut(p) \/ LoginAsGuest(p) \/ LoginDone(p)
    \/ Edit(p) \/ StartSendChanges(p) \/ SendTimeout(p) \/ SendDone(p)

Spec == Init /\ [][Next]_vars

-----------------------------------------------------------------------------
Made == DOMAIN typist
Logged == UNION {log[i] : i \in DOMAIN log}
OwnIds(p) == UNION {own[n] : n \in names[p] \cap DOMAIN own}

(* Logging out and in neither drops a change nor sends one by itself: it is*)
(* pending on its page, on its way, or in the log.  It is there or on its  *)
(* way once, and once more for each time its send was repeated.  Only a    *)
(* server start takes a change that has been sent.                         *)
NothingLost ==
  \A x \in Made :
    LET ids == {i \in DOMAIN log : x \in log[i]}
        sends == {r \in posted : x \in r.changes}
    IN  /\ x \notin pending[typist[x]] /\ ids = {} /\ sends = {} => starts > 0
        /\ x \in pending[typist[x]] => ids = {} /\ sends = {}
        /\ Cardinality(ids) + Cardinality(sends) <= 1 + tries[x]

(* The timers of all logins share one flag: a page has its request open    *)
(* only while the flag is down.  The flag is down for good only if the last*)
(* attempt timed out, or the request went out under a name that the server *)
(* did not know -- its changes are then in the log as nobody's own -- or a *)
(* new server process took over.                                           *)
Anonymous(r) ==
  \E i \in DOMAIN log : log[i] = r.changes /\ \A n \in DOMAIN own : i \notin own[n]
OneFlag ==
  \A p \in Pages :
    /\ acknowledged[p] => ~ SendOpen(p)
    /\ ~ acknowledged[p] /\ ~ SendOpen(p) =>
         request[p].tries > MaxRetries \/ Anonymous(request[p]) \/ starts > 0

(* Two timers with one position in the log skip nothing, as long as ids do *)
(* not start anew: whatever has an id up to it and was not sent under one  *)
(* of the page's names is in the document.                                 *)
NoGap ==
  starts = 0 =>
    \A p \in Pages : \A i \in DOMAIN log \ OwnIds(p) :
      i <= last[p] => log[i] \subseteq attached[p]

(* The editor was emptied by the login and is filled again from the log,   *)
(* the page's own earlier text included, and also from the log of a new    *)
(* server process.  Three things keep text out of it: changes that were on *)
(* their way when the login was answered, a server that was started later, *)
(* and the filter for own changes -- what was sent under a name does not   *)
(* come back once a heartbeat of that name brought changes since the login.*)
Refilled ==
  \A p \in current : \A i \in DOMAIN log :
    i <= last[p] => \/ log[i] \subseteq screen[p]
                    \/ \E n \in heard[p] \cap DOMAIN own : i \in own[n]

(* A page gets a change of its own back only after a second login, or if   *)
(* it was sent under a name the page is not logged in with.  A new server  *)
(* process forgets the names: a change may then come back that went with it*)
(* or that was sent more than once.                                        *)
EchoExplained ==
  \A p \in Pages : \A x \in attached[p] : typist[x] = p =>
    \/ Cardinality(names[p]) > 1
    \/ \E i \in DOMAIN log \ OwnIds(p) : x \in log[i]
    \/ starts > 0 /\ (x \notin Logged \/ tries[x] > 0)
=============================================================================
