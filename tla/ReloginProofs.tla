---------------------------- MODULE ReloginProofs ----------------------------
(***************************************************************************)
(* What stays true when the guests of module Relogin log out and in again: *)
(* no change is lost and each is logged at most once per attempt, the flag *)
(* "acknowledged" and its request go together, the timers of several logins*)
(* skip nothing, and what comes back to its own page is accounted for.     *)
(***************************************************************************)
EXTENDS Relogin, FiniteSetTheorems, SequenceTheorems, WellFoundedInduction, TLAPS

-----------------------------------------------------------------------------
(***************************************************************************)
(* The inductive invariants.                                               *)
(***************************************************************************)
SendAnswer(p) == answer[<<p, "send">>]
NewsAnswer(p, n) == answer[<<p, n>>]

ServerTypes ==
  /\ DOMAIN own = DOMAIN members
  /\ Cardinality(DOMAIN log) \in Nat
  /\ DOMAIN log = 1..Cardinality(DOMAIN log)
  /\ \A n \in DOMAIN own : own[n] \subseteq DOMAIN log
  /\ answer = [c \in Requests |-> answer[c]]
  /\ \A p \in Pages : \A n \in Names :
       NewsAnswer(p, n) # Server!NoAnswer => n \in names[p]

(* The settings of a send.                                                 *)
Sends == [page : Pages, name : Names, changes : SUBSET Changes, tries : Nat]

SendTypes ==
  /\ acknowledged \in [Pages -> BOOLEAN]
  /\ pending \in [Pages -> SUBSET Changes]
  /\ request \in [Pages -> Sends]
  /\ \A p \in Pages : request[p].page = p
  /\ posted \subseteq Sends /\ IsFiniteSet(posted)
  /\ tries \in [Changes -> Nat]

PageTypes ==
  /\ field \in [Pages -> Names]
  /\ names \in [Pages -> SUBSET Names]
  /\ \A p \in Pages : IsFiniteSet(names[p])
  /\ asked \in [Pages -> SUBSET Names]
  /\ \A p \in Pages : asked[p] = {} \/ \E n \in Names : asked[p] = {n}
  /\ last = [p \in Pages |-> last[p]]
  /\ attached = [p \in Pages |-> attached[p]]
  /\ screen = [p \in Pages |-> screen[p]]
  /\ typist \in Seq(Pages) /\ Made \subseteq Changes
  /\ starts \in Nat
  /\ current \subseteq Pages
  /\ heard = [p \in Pages |-> heard[p]]

Types == ServerTypes /\ PageTypes /\ SendTypes

(* Where a change is, in the log and on its way to the server.             *)
IdsOf(x) == {i \in DOMAIN log : x \in log[i]}
SendsOf(x) == {r \in posted : x \in r.changes}

(* A change that has been made is pending, or sent: then it is on its way  *)
(* or logged, at most once per attempt, while the server keeps its log.    *)
Kept ==
  /\ \A p \in Pages : \A x \in pending[p] : x \in Made /\ typist[x] = p
  /\ \A i \in DOMAIN log : log[i] \subseteq Made
  /\ \A r \in posted : r.changes \subseteq Made
  /\ \A p \in Pages : request[p].changes \subseteq Made
  /\ \A x \in Made : x \in pending[typist[x]] =>
       /\ IdsOf(x) = {} /\ SendsOf(x) = {}
       /\ \A p \in Pages : x \notin request[p].changes
  /\ \A x \in Made : x \notin pending[typist[x]] /\ IdsOf(x) = {} /\ SendsOf(x) = {}
                      => starts > 0
  /\ \A x \in Made : Cardinality(IdsOf(x)) + Cardinality(SendsOf(x)) <= 1 + tries[x]

(* The flag is down while a send is open.  An open one is on its way or    *)
(* answered, never both; one that ended without raising the flag failed or *)
(* timed out for the last time.                                            *)
Ended(p) ==
  \/ SendAnswer(p) = Failed
  \/ ~ acknowledged[p] /\ SendAnswer(p) = Server!NoAnswer /\ request[p] \notin posted
Flagged ==
  /\ \A r \in posted : r.changes # {}
  /\ \A p \in Pages :
    /\ acknowledged[p] => SendAnswer(p) = Server!NoAnswer /\ request[p] \notin posted
    /\ SendAnswer(p) # Server!NoAnswer => request[p] \notin posted /\ request[p].changes # {}
    /\ Ended(p) => request[p].tries > MaxRetries \/ Anonymous(request[p]) \/ starts > 0

(* Where the changes of others go to: the document, or the editor.         *)
Shown(p, where) == IF where = "document" THEN attached[p] ELSE screen[p]

(* What the filter for own changes may keep from it: nothing that was sent *)
(* under a name the page has not heard from since it emptied its editor.   *)
Filtered(p, where) ==
  IF where = "document" THEN OwnIds(p)
  ELSE UNION {own[n] : n \in heard[p] \cap DOMAIN own}

(* Change i is there, or in an answer to come, or filtered.                *)
Brings(p, n, i, where) ==
  \/ i \in Filtered(p, where)
  \/ n \in DOMAIN own /\ i \in own[n]
  \/ log[i] \subseteq Shown(p, where)
  \/ <<i, log[i]>> \in NewsAnswer(p, n).transactions

Filled(p, where) ==
  /\ last[p] \in {-1} \cup DOMAIN log
  /\ \A i \in DOMAIN log \ Filtered(p, where) : i <= last[p] => log[i] \subseteq Shown(p, where)
  /\ \A n \in Names : NewsAnswer(p, n) # Server!NoAnswer =>
       /\ NewsAnswer(p, n).since \in {-1} \cup DOMAIN log
       /\ \A t \in NewsAnswer(p, n).transactions : t[1] \in DOMAIN log /\ t[2] = log[t[1]]
       /\ \A i \in DOMAIN log :
            i <= NewsAnswer(p, n).since => Brings(p, n, i, where)
       /\ \A t \in NewsAnswer(p, n).transactions : \A i \in DOMAIN log :
            i <= t[1] => Brings(p, n, i, where)

Filling ==
  \A p \in Pages : /\ starts = 0 => Filled(p, "document")
                   /\ p \in current => Filled(p, "editor")

(* A change that went down with the log of an earlier server process, or   *)
(* of which only a repeated attempt may be left.                           *)
Gone(x) ==
  /\ x \in Made /\ starts > 0
  /\ \/ tries[x] > 0
     \/ x \notin pending[typist[x]] /\ IdsOf(x) = {} /\ SendsOf(x) = {}

(* Logged, but not as one of the page's own.                               *)
Unowned(p, x) == \E i \in DOMAIN log \ OwnIds(p) : x \in log[i]

(* Why a change may be in the document of a page, ...                      *)
Explained(p, x) ==
  \/ Gone(x) \/ Unowned(p, x)
  \/ typist[x] # p
  \/ \E n, m \in names[p] : n # m

(* ... and in an answer to the page under name n.                          *)
Fetched(n, t, x) ==
  \/ Gone(x)
  \/ t[1] \in DOMAIN log /\ x \in log[t[1]] /\ (n \in DOMAIN own => t[1] \notin own[n])

Echoes ==
  \A p \in Pages :
    /\ attached[p] \subseteq Made
    /\ attached[p] # {} => names[p] # {}
    /\ \A x \in attached[p] : Explained(p, x)
    /\ \A n \in Names : NewsAnswer(p, n) # Server!NoAnswer =>
         \A t \in NewsAnswer(p, n).transactions : \A x \in t[2] : Fetched(n, t, x)

-----------------------------------------------------------------------------
(***************************************************************************)
(* Requests, the server's log and the steps that touch them.               *)
(***************************************************************************)
(* Every request of every page is another one.                             *)
LEMMA Distinct ==
  ASSUME NEW p \in Pages, NEW q \in Pages, NEW n \in Names, NEW m \in Names
  PROVE  /\ {<<p, "login">>, <<p, "send">>, <<p, n>>} \subseteq Requests
         /\ <<p, "login">> # <<q, "send">> /\ <<p, "login">> # <<q, n>>
         /\ <<p, "send">> # <<q, n>>
         /\ <<p, "login">> = <<q, "login">> <=> p = q
         /\ <<p, "send">> = <<q, "send">> <=> p = q
         /\ <<p, n>> = <<q, m>> <=> p = q /\ n = m
BY ReloginAssumption DEF Requests

(* An answer is given to one request and leaves the others alone.          *)
LEMMA Gives ==
  ASSUME Types, NEW c \in Requests, NEW a, Server!Give(c, a)
  PROVE  /\ answer[c] = Server!NoAnswer /\ answer'[c] = a
         /\ answer' = [d \in Requests |-> answer'[d]]
         /\ \A d \in Requests : d # c => answer'[d] = answer[d]
BY DEF Types, ServerTypes, Server!Give

(* An answer is collected once, and the log is as it was.                  *)
LEMMA Collects ==
  ASSUME Types, NEW c \in Requests, Server!Collect(c)
  PROVE  /\ answer[c] # Server!NoAnswer /\ answer'[c] = Server!NoAnswer
         /\ answer' = [d \in Requests |-> answer'[d]]
         /\ \A d \in Requests : d # c => answer'[d] = answer[d]
         /\ UNCHANGED <<members, log, own>>
BY DEF Types, ServerTypes, Server!Collect

(* What a server start alone breaks: ids stay, own ids stay own.           *)
LogStays ==
  /\ DOMAIN own' = DOMAIN members'
  /\ DOMAIN log \subseteq DOMAIN log'
  /\ \A i \in DOMAIN log : log'[i] = log[i]
  /\ \A i \in DOMAIN log' \ DOMAIN log : \A j \in DOMAIN log : j < i
  /\ \A n \in DOMAIN own : n \in DOMAIN own' /\ own[n] \subseteq own'[n]
  /\ \A n \in DOMAIN own' : \A i \in own'[n] :
       i \in DOMAIN log => n \in DOMAIN own /\ i \in own[n]

(* Ids are counted, own ids are ids.                                       *)
LogTypes ==
  /\ DOMAIN own = DOMAIN members
  /\ Cardinality(DOMAIN log) \in Nat
  /\ DOMAIN log = 1..Cardinality(DOMAIN log)
  /\ \A n \in DOMAIN own : own[n] \subseteq DOMAIN log

(* The login form: a name is registered or refused.                        *)
LEMMA LoginStep ==
  ASSUME Types, NEW p \in Pages, LoginAsGuest(p)
  PROVE  /\ LogStays
         /\ UNCHANGED <<log, names, sending, content, history>>
         /\ answer' = [d \in Requests |-> answer'[d]]
         /\ \A d \in Requests : d # <<p, "login">> => answer'[d] = answer[d]
         /\ \A n \in DOMAIN own' : own'[n] \subseteq DOMAIN log'
<1> DEFINE c == <<p, "login">>
<1>1. c \in Requests
  BY DEF Requests
<1>2. \E a : Server!Give(c, a)
  BY DEF LoginAsGuest, Server!Register, Server!Refuse
<1>3. /\ answer' = [d \in Requests |-> answer'[d]]
      /\ \A d \in Requests : d # c => answer'[d] = answer[d]
  BY <1>1, <1>2, Gives
<1>4. UNCHANGED <<log, names, sending, content, history>>
  BY DEF LoginAsGuest, Server!Register, Server!Refuse
<1>5. \/ UNCHANGED <<members, own>>
      \/ /\ field[p] \notin DOMAIN members
         /\ DOMAIN members' = DOMAIN members \cup {field[p]}
         /\ DOMAIN own' = DOMAIN own \cup {field[p]}
         /\ \A n \in DOMAIN own' : own'[n] = IF n = field[p] THEN {} ELSE own[n]
  BY DEF LoginAsGuest, Server!Register, Server!Refuse, Server!With
<1> QED
  BY <1>3, <1>4, <1>5 DEF LogStays, Types, ServerTypes

(* A send starts: its changes are on their way, the server knows nothing.  *)
LEMMA StartStep ==
  ASSUME Types, NEW p \in Pages, StartSendChanges(p)
  PROVE  /\ UNCHANGED <<server, form, content, history>>
         /\ acknowledged[p] /\ acknowledged' = [acknowledged EXCEPT ![p] = FALSE]
         /\ pending[p] # {} /\ pending' = [pending EXCEPT ![p] = {}]
         /\ \E r \in Sends : /\ r.page = p /\ r.changes = pending[p]
                            /\ request' = [request EXCEPT ![p] = r]
                            /\ posted' = posted \cup {r}
<1> DEFINE r == Send(p, field[p], pending[p], 0)
<1>1. r \in Sends /\ r.page = p /\ r.changes = pending[p]
  BY DEF Send, Sends, Types, PageTypes, SendTypes
<1> QED
  BY <1>1 DEF StartSendChanges

(* The server comes to a send of page p.                                   *)
Insert(p) == \E r \in posted : r.page = p /\ InsertText(r)

(* It is logged under the next id, and either it becomes one of the        *)
(* sender's own or fails.                                                  *)
LEMMA InsertStep ==
  ASSUME Types, NEW p \in Pages, NEW r \in posted, r.page = p, InsertText(r)
  PROVE  /\ LogStays
         /\ UNCHANGED <<form, acknowledged, pending, request, content, history>>
         /\ posted' = posted \ {r}
         /\ answer' = [d \in Requests |-> answer'[d]]
         /\ \A d \in Requests : d # <<p, "send">> => answer'[d] = answer[d]
         /\ request[p] # r => answer' = answer
         /\ request[p] = r => answer'[<<p, "send">>] # Server!NoAnswer
         /\ \E i : /\ i \notin DOMAIN log
                   /\ DOMAIN log' = DOMAIN log \cup {i} /\ log'[i] = r.changes
                   /\ request[p] = r /\ answer'[<<p, "send">>] = Failed => own' = own
         /\ LogTypes'
<1> DEFINE c == <<p, "send">>   size == Cardinality(DOMAIN log)
           i == size + 1        n == r.name
           a == IF n \in DOMAIN own THEN Server!Logged(n, r.changes, i) ELSE Failed
<1>1. c \in Requests
  BY DEF Requests
<1>2. /\ UNCHANGED <<members, form, acknowledged, pending, request, content, history>>
      /\ posted' = posted \ {r}
      /\ log' = Server!With(log, i, r.changes)
      /\ own' = IF n \in DOMAIN own THEN [own EXCEPT ![n] = @ \cup {i}] ELSE own
      /\ answer' = IF request[p] = r THEN [answer EXCEPT ![c] = a] ELSE answer
  BY DEF InsertText
<1>3. size \in Nat /\ DOMAIN log = 1..size /\ i \notin DOMAIN log
  BY DEF Types, ServerTypes
<1>4. /\ DOMAIN log' = DOMAIN log \cup {i} /\ log'[i] = r.changes
      /\ \A j \in DOMAIN log : log'[j] = log[j]
  BY <1>2, <1>3 DEF Server!With
<1>5. DOMAIN log' = 1..i
  BY <1>3, <1>4
<1>6. Cardinality(DOMAIN log') = i
  BY <1>3, <1>5, FS_Interval
<1>7. a # Server!NoAnswer /\ (a = Failed => n \notin DOMAIN own)
  BY DEF Failed, Server!NoAnswer, Server!Logged
<1>8. LogStays /\ LogTypes'
  <2>1. /\ DOMAIN own' = DOMAIN own /\ members' = members
        /\ \A m \in DOMAIN own : own[m] \subseteq own'[m] /\ own'[m] \subseteq own[m] \cup {i}
    BY <1>2
  <2>2. /\ DOMAIN own = DOMAIN members
        /\ \A m \in DOMAIN own : own[m] \subseteq DOMAIN log
    BY DEF Types, ServerTypes
  <2>3. Cardinality(DOMAIN log') \in Nat /\ DOMAIN log' = 1..Cardinality(DOMAIN log')
    BY <1>3, <1>5, <1>6
  <2>4. \A j \in DOMAIN log' \ DOMAIN log : \A k \in DOMAIN log : k < j
    BY <1>3, <1>4
  <2> HIDE DEF i, size
  <2>5. LogTypes'
    BY <1>4, <2>1, <2>2, <2>3 DEF LogTypes
  <2>6. LogStays
    BY <1>3, <1>4, <2>1, <2>2, <2>4 DEF LogStays
  <2> QED
    BY <2>5, <2>6
<1> HIDE DEF a, size
<1>9. /\ answer' = [d \in Requests |-> answer'[d]]
      /\ \A d \in Requests : d # c => answer'[d] = answer[d]
      /\ request[p] # r => answer' = answer
      /\ request[p] = r => answer'[c] = a
  BY <1>1, <1>2 DEF Types, ServerTypes
<1>10. request[p] = r /\ answer'[c] = Failed => own' = own
  BY <1>2, <1>7, <1>9
<1> HIDE DEF i, n
<1> QED
  BY <1>2, <1>3, <1>4, <1>7, <1>8, <1>9, <1>10

(* A send times out: it is repeated, or was the last attempt.              *)
LEMMA TimeoutStep ==
  ASSUME Types, NEW p \in Pages, SendTimeout(p)
  PROVE  /\ UNCHANGED <<members, log, own, form, acknowledged, pending, content>>
         /\ UNCHANGED <<typist, logOuts, starts, current, heard>>
         /\ SendOpen(p)
         /\ answer' = [d \in Requests |-> answer'[d]]
         /\ \A d \in Requests : d # <<p, "send">> => answer'[d] = answer[d]
         /\ answer'[<<p, "send">>] = Server!NoAnswer
         /\ \E r \in Sends :
              /\ r.page = p /\ r.changes = request[p].changes
              /\ request' = [request EXCEPT ![p] = r]
              /\ \/ /\ posted' = posted \cup {r}
                    /\ tries' = [x \in Changes |-> IF x \in r.changes THEN tries[x] + 1
                                                                    ELSE tries[x]]
                 \/ UNCHANGED <<posted, tries>> /\ r.tries > MaxRetries
<1> DEFINE c == <<p, "send">>   r == [request[p] EXCEPT !.tries = @ + 1]
<1>1. c \in Requests
  BY DEF Requests
<1>2. request[p] \in Sends /\ request[p].page = p
  BY DEF Types, SendTypes
<1>3. r \in Sends /\ r.page = p /\ r.changes = request[p].changes
  BY <1>2 DEF Sends
<1>4. /\ UNCHANGED <<members, log, own, form, acknowledged, pending, content>>
      /\ UNCHANGED <<typist, logOuts, starts, current, heard>>
      /\ SendOpen(p)
      /\ request' = [request EXCEPT ![p] = r]
      /\ answer' = [answer EXCEPT ![c] = Server!NoAnswer]
      /\ posted' = IF r.tries <= MaxRetries THEN posted \cup {r} ELSE posted
      /\ tries' = [x \in Changes |-> IF r.tries <= MaxRetries /\ x \in r.changes
                                      THEN tries[x] + 1 ELSE tries[x]]
  BY DEF SendTimeout
<1> HIDE DEF r
<1>5. /\ answer' = [d \in Requests |-> answer'[d]]
      /\ \A d \in Requests : d # c => answer'[d] = answer[d]
      /\ answer'[c] = Server!NoAnswer
  BY <1>1, <1>4 DEF Types, ServerTypes
<1>6. CASE r.tries <= MaxRetries
  <2>1. /\ posted' = posted \cup {r}
        /\ tries' = [x \in Changes |-> IF x \in r.changes THEN tries[x] + 1 ELSE tries[x]]
    BY <1>4, <1>6
  <2> QED
    BY <1>3, <1>4, <1>5, <2>1
<1>7. CASE ~ (r.tries <= MaxRetries)
  <2>1. r.tries > MaxRetries
    BY <1>3, <1>7, ReloginAssumption DEF Sends
  <2>2. tries = [x \in Changes |-> tries[x]]
    BY DEF Types, SendTypes
  <2>3. UNCHANGED <<posted, tries>>
    BY <1>4, <1>7, <2>2
  <2> QED
    BY <1>3, <1>4, <1>5, <2>1, <2>3
<1> QED
  BY <1>6, <1>7

(* A heartbeat is answered with the changes of others since "last".        *)
LEMMA HeartbeatStep ==
  ASSUME Types, NEW p \in Pages, NEW n \in Names, Heartbeat(p, n)
  PROVE  /\ UNCHANGED <<members, log, own, form, sending, content, history>>
         /\ n \in names[p] /\ n \in DOMAIN own
         /\ answer' = [d \in Requests |-> answer'[d]]
         /\ \A d \in Requests : d # <<p, n>> => answer'[d] = answer[d]
         /\ answer'[<<p, n>>] # Server!NoAnswer
         /\ answer'[<<p, n>>].since = last[p]
         /\ answer'[<<p, n>>].transactions =
              {<<i, log[i]>> : i \in {k \in DOMAIN log : k > last[p]} \ own[n]}
<1> DEFINE c == <<p, n>>
           got == {<<i, log[i]>> : i \in {k \in DOMAIN log : k > last[p]} \ own[n]}
           a == [kind |-> "news", since |-> last[p], transactions |-> got]
<1>1. c \in Requests
  BY DEF Requests
<1>2. /\ UNCHANGED <<members, log, own, form, sending, content, history>>
      /\ n \in names[p] /\ n \in DOMAIN members
      /\ Server!Give(c, a)
  BY DEF Heartbeat, Poll
<1>3. a # Server!NoAnswer /\ a.since = last[p] /\ a.transactions = got
  BY DEF Server!NoAnswer
<1> HIDE DEF got, a
<1> QED
  BY <1>1, <1>2, <1>3, Gives DEF got, Types, ServerTypes

(* The news arrive: the greatest id is remembered, the changes are shown.  *)
LEMMA NewsStep ==
  ASSUME Types, NEW p \in Pages, NEW n \in Names, News(p, n)
  PROVE  /\ UNCHANGED <<members, log, own, form, sending>>
         /\ UNCHANGED <<typist, logOuts, starts, tries, current>>
         /\ heard' = [heard EXCEPT ![p] = IF p \in current THEN @ \cup {n} ELSE @]
         /\ answer' = [d \in Requests |-> answer'[d]]
         /\ \A d \in Requests : d # <<p, n>> => answer'[d] = answer[d]
         /\ answer[<<p, n>>] # Server!NoAnswer
         /\ answer'[<<p, n>>] = Server!NoAnswer
         /\ attached' = [attached EXCEPT ![p] =
                           @ \cup UNION {t[2] : t \in answer[<<p, n>>].transactions}]
         /\ screen' = [screen EXCEPT ![p] =
                           @ \cup UNION {t[2] : t \in answer[<<p, n>>].transactions}]
         /\ last' = [last EXCEPT ![p] =
              CHOOSE m \in {last[p]} \cup {t[1] : t \in answer[<<p, n>>].transactions} :
                \A i \in {last[p]} \cup {t[1] : t \in answer[<<p, n>>].transactions} : i <= m]
<1>1. <<p, n>> \in Requests /\ Server!Collect(<<p, n>>)
  BY DEF Requests, News
<1>2. /\ UNCHANGED <<members, log, own>>
      /\ answer' = [d \in Requests |-> answer'[d]]
      /\ \A d \in Requests : d # <<p, n>> => answer'[d] = answer[d]
      /\ answer[<<p, n>>] # Server!NoAnswer
      /\ answer'[<<p, n>>] = Server!NoAnswer
  BY <1>1, Collects
<1> QED
  BY <1>2 DEF News

(* The answer to a login: the page gets the name and empties its editor.   *)
LEMMA LoginDoneStep ==
  ASSUME Types, NEW p \in Pages, LoginDone(p)
  PROVE  /\ UNCHANGED <<members, log, own, field, sending, attached>>
         /\ UNCHANGED <<typist, logOuts, starts, tries>>
         /\ answer' = [d \in Requests |-> answer'[d]]
         /\ \A d \in Requests : d # <<p, "login">> => answer'[d] = answer[d]
         /\ asked' = [asked EXCEPT ![p] = {}]
         /\ \/ UNCHANGED <<inside, names, content, current, heard>>
            \/ /\ names' = [names EXCEPT ![p] = @ \cup asked[p]]
               /\ last' = [last EXCEPT ![p] = -1]
               /\ screen' = [screen EXCEPT ![p] = {}]
               /\ heard' = [heard EXCEPT ![p] = {}]
               /\ current' = IF HeartbeatOpen(p) THEN current \ {p} ELSE current \cup {p}
<1>1. <<p, "login">> \in Requests /\ Server!Collect(<<p, "login">>)
  BY DEF Requests, LoginDone
<1>2. /\ UNCHANGED <<members, log, own>>
      /\ answer' = [d \in Requests |-> answer'[d]]
      /\ \A d \in Requests : d # <<p, "login">> => answer'[d] = answer[d]
  BY <1>1, Collects
<1> QED
  BY <1>2 DEF LoginDone, PerformTasksForGuest, sending, content

(* The answer to a change that was sent, or its failure: the flag.         *)
LEMMA SendDoneStep ==
  ASSUME Types, NEW p \in Pages, SendDone(p)
  PROVE  /\ UNCHANGED <<members, log, own, form, pending, posted, content, history>>
         /\ answer' = [d \in Requests |-> answer'[d]]
         /\ \A d \in Requests : d # <<p, "send">> => answer'[d] = answer[d]
         /\ answer[<<p, "send">>] # Server!NoAnswer
         /\ answer'[<<p, "send">>] = Server!NoAnswer
         /\ acknowledged' = [acknowledged EXCEPT ![p] = answer[<<p, "send">>] # Failed]
         /\ request' = IF answer[<<p, "send">>] = Failed THEN request
                       ELSE [request EXCEPT ![p] = NoSend(p)]
<1>1. <<p, "send">> \in Requests /\ Server!Collect(<<p, "send">>)
  BY DEF Requests, SendDone
<1> QED
  BY <1>1, Collects DEF SendDone

(* A new server process: sends may fail, heartbeats are answered before it.*)
LEMMA RestartAnswers ==
  ASSUME Types, Restart
  PROVE  /\ \A p \in Pages : \A n \in Names : answer'[<<p, n>>] = answer[<<p, n>>]
         /\ answer' = [d \in Requests |-> answer'[d]]
         /\ posted' \subseteq posted
         /\ \A p \in Pages :
              IF request[p] \in posted /\ request[p] \notin posted'
                THEN answer'[<<p, "send">>] = Failed
                ELSE answer'[<<p, "send">>] = answer[<<p, "send">>]
<1>1. PICK lost \in SUBSET posted :
        /\ posted' = posted \ lost
        /\ answer' = [c \in Requests |->
             IF \E p \in Pages : c = <<p, "send">> /\ request[p] \in lost
               THEN Failed ELSE answer[c]]
  BY DEF Restart
<1>2. ASSUME NEW p \in Pages, NEW n \in Names PROVE answer'[<<p, n>>] = answer[<<p, n>>]
  <2>1. <<p, n>> \in Requests /\ \A q \in Pages : <<p, n>> # <<q, "send">>
    BY Distinct
  <2> QED
    BY <1>1, <2>1
<1>3. ASSUME NEW p \in Pages
      PROVE  answer'[<<p, "send">>] = IF request[p] \in lost THEN Failed ELSE answer[<<p, "send">>]
  <2>1. <<p, "send">> \in Requests /\ \A q \in Pages : <<p, "send">> = <<q, "send">> => p = q
    BY DEF Requests
  <2> QED
    BY <1>1, <2>1
<1>4. answer' = [d \in Requests |-> answer'[d]]
  BY <1>1
<1> QED
  BY <1>1, <1>2, <1>3, <1>4

(* All other steps of a page leave the server and its answers alone.       *)
PageStep(p) ==
  \/ LogOut(p) \/ Edit(p)
  \/ \E n \in Names : FillIn(p, n)

(* The steps of a page and of its sends, as in Next.                       *)
ActionOf(p) ==
  \/ \E n \in Names : FillIn(p, n) \/ Heartbeat(p, n) \/ News(p, n)
  \/ LogOut(p) \/ LoginAsGuest(p) \/ LoginDone(p)
  \/ Edit(p) \/ StartSendChanges(p) \/ SendTimeout(p) \/ SendDone(p)
  \/ Insert(p)

LEMMA NextKinds ==
  ASSUME Types, [Next]_vars
  PROVE  UNCHANGED vars \/ Restart \/ \E p \in Pages : ActionOf(p)
<1>1. ASSUME NEW r \in posted, InsertText(r) PROVE \E p \in Pages : ActionOf(p)
  <2>1. r.page \in Pages
    BY DEF Types, SendTypes, Sends
  <2>2. Insert(r.page)
    BY <1>1 DEF Insert
  <2> QED
    BY <2>1, <2>2 DEF ActionOf
<1>2. ASSUME NEW p \in Pages,
             \/ \E n \in Names : FillIn(p, n) \/ Heartbeat(p, n) \/ News(p, n)
             \/ LogOut(p) \/ LoginAsGuest(p) \/ LoginDone(p)
             \/ Edit(p) \/ StartSendChanges(p) \/ SendTimeout(p) \/ SendDone(p)
      PROVE  ActionOf(p)
  BY <1>2 DEF ActionOf
<1> QED
  BY <1>1, <1>2 DEF Next

(* Except for a new server process, the log and the own ids only grow.     *)
LEMMA LogStaysOrRestart ==
  ASSUME Types, [Next]_vars
  PROVE  Restart \/ LogStays
<1>1. ASSUME UNCHANGED <<members, log, own>> PROVE LogStays
  BY <1>1 DEF LogStays, Types, ServerTypes
<1>2. CASE UNCHANGED vars
  BY <1>1, <1>2 DEF vars, server
<1>3. ASSUME NEW p \in Pages, ActionOf(p) PROVE LogStays
  <2>1. CASE LoginAsGuest(p)
    BY <2>1, LoginStep
  <2>2. CASE Insert(p)
    BY <2>2, InsertStep DEF Insert
  <2>3. CASE LoginDone(p)
    BY <1>1, <2>3, LoginDoneStep
  <2>4. CASE SendDone(p)
    BY <1>1, <2>4, SendDoneStep
  <2>5. CASE \E n \in Names : Heartbeat(p, n)
    BY <1>1, <2>5, HeartbeatStep
  <2>6. CASE \E n \in Names : News(p, n)
    BY <1>1, <2>6, NewsStep
  <2>7. CASE PageStep(p)
    BY <1>1, <2>7 DEF PageStep, LogOut, Edit, FillIn, server
  <2>8. CASE StartSendChanges(p)
    BY <1>1, <2>8, StartStep DEF server
  <2>9. CASE SendTimeout(p)
    BY <1>1, <2>9, TimeoutStep
  <2> QED
    BY <1>3, <2>1, <2>2, <2>3, <2>4, <2>5, <2>6, <2>7, <2>8, <2>9 DEF ActionOf, PageStep
<1> QED
  BY <1>2, <1>3, NextKinds

-----------------------------------------------------------------------------
(***************************************************************************)
(* Ids are 1..size; a page asks for news under names it is logged in with. *)
(***************************************************************************)
(* The types hold initially ...                                            *)
LEMMA InitTypes == Init => Types
<1> SUFFICES ASSUME Init PROVE Types
  OBVIOUS
<1>1. DOMAIN own = {} /\ DOMAIN log = {} /\ DOMAIN members = {}
  BY DEF Init, Server!Init
<1>2. Cardinality(DOMAIN log) = 0 /\ DOMAIN log = 1..0
  BY <1>1, FS_EmptySet
<1>3. answer = [c \in Requests |-> answer[c]]
  BY DEF Init, Server!Init
<1>4. \A p \in Pages : \A n \in Names : NewsAnswer(p, n) = Server!NoAnswer
  BY DEF Init, Server!Init, NewsAnswer, Requests
<1>5. ServerTypes
  BY <1>1, <1>2, <1>3, <1>4 DEF ServerTypes
<1>6. PageTypes
  BY FS_EmptySet, ReloginAssumption DEF Init, PageTypes, Made
<1>7. SendTypes
  BY FS_EmptySet, ReloginAssumption DEF Init, SendTypes, Sends, Send, NoSend
<1> QED
  BY <1>5, <1>6, <1>7 DEF Types

(* ... and after every step: those of the log,                             *)
LEMMA NextLogTypes ==
  ASSUME Types, [Next]_vars
  PROVE  LogTypes'
<1>1. ASSUME UNCHANGED <<members, log, own>> PROVE LogTypes'
  BY <1>1 DEF LogTypes, Types, ServerTypes
<1>2. CASE UNCHANGED vars
  BY <1>1, <1>2 DEF vars, server
<1>3. CASE Restart
  <2>1. DOMAIN own' = {} /\ DOMAIN log' = {} /\ DOMAIN members' = {}
    BY <1>3 DEF Restart
  <2>2. Cardinality(DOMAIN log') = 0 /\ DOMAIN log' = 1..0
    BY <2>1, FS_EmptySet
  <2> QED
    BY <2>1, <2>2 DEF LogTypes
<1>4. ASSUME NEW p \in Pages, ActionOf(p) PROVE LogTypes'
  <2>1. CASE LoginAsGuest(p)
    <3>1. DOMAIN own' = DOMAIN members' /\ UNCHANGED log
      BY <2>1, LoginStep DEF LogStays
    <3>2. \A n \in DOMAIN own' : own'[n] \subseteq DOMAIN log'
      BY <2>1, LoginStep
    <3> QED
      BY <3>1, <3>2 DEF LogTypes, Types, ServerTypes
  <2>2. CASE Insert(p)
    BY <2>2, InsertStep DEF Insert
  <2>3. CASE LoginDone(p)
    BY <1>1, <2>3, LoginDoneStep
  <2>4. CASE SendDone(p)
    BY <1>1, <2>4, SendDoneStep
  <2>5. CASE \E n \in Names : Heartbeat(p, n)
    BY <1>1, <2>5, HeartbeatStep
  <2>6. CASE \E n \in Names : News(p, n)
    BY <1>1, <2>6, NewsStep
  <2>7. CASE PageStep(p)
    BY <1>1, <2>7 DEF PageStep, LogOut, Edit, FillIn, server
  <2>8. CASE StartSendChanges(p)
    BY <1>1, <2>8, StartStep DEF server
  <2>9. CASE SendTimeout(p)
    BY <1>1, <2>9, TimeoutStep
  <2> QED
    BY <1>4, <2>1, <2>2, <2>3, <2>4, <2>5, <2>6, <2>7, <2>8, <2>9 DEF ActionOf, PageStep
<1> QED
  BY <1>2, <1>3, <1>4, NextKinds

(* The answers' part.                                                      *)
NewsTypes ==
  /\ answer = [c \in Requests |-> answer[c]]
  /\ \A p \in Pages : \A n \in Names :
       NewsAnswer(p, n) # Server!NoAnswer => n \in names[p]

(* those of the answers to heartbeats,                                     *)
LEMMA NextNewsTypes ==
  ASSUME Types, [Next]_vars
  PROVE  NewsTypes'
<1>1. ASSUME NEW q \in Pages, names' = [names EXCEPT ![q] = @ \cup asked[q]] \/ UNCHANGED names,
             answer' = [c \in Requests |-> answer'[c]],
             \A p \in Pages : \A n \in Names :
                answer'[<<p, n>>] = answer[<<p, n>>] \/ answer'[<<p, n>>] = Server!NoAnswer
                \/ n \in names[p]
      PROVE  NewsTypes'
  <2>1. \A p \in Pages : names[p] \subseteq names'[p]
    BY <1>1 DEF Types, PageTypes
  <2> QED
    BY <1>1, <2>1 DEF NewsTypes, NewsAnswer, Types, ServerTypes
<1>7. ASSUME NEW q \in Pages, names' = [names EXCEPT ![q] = @ \cup asked[q]] \/ UNCHANGED names,
             answer' = [c \in Requests |-> answer'[c]],
             NEW kind \in {"login", "send"},
             \A d \in Requests : d # <<q, kind>> => answer'[d] = answer[d]
      PROVE  NewsTypes'
  <2>1. \A p \in Pages : \A n \in Names : <<p, n>> \in Requests /\ <<p, n>> # <<q, kind>>
    BY Distinct
  <2>2. \A p \in Pages : \A n \in Names : answer'[<<p, n>>] = answer[<<p, n>>]
    BY <1>7, <2>1
  <2> QED
    BY <1>1, <1>7, <2>2
<1>2. ASSUME UNCHANGED <<names, answer>> PROVE NewsTypes'
  BY <1>2 DEF NewsTypes, NewsAnswer, Types, ServerTypes
<1>3. CASE UNCHANGED vars
  BY <1>2, <1>3 DEF vars, server, form
<1>4. CASE Restart
  <2>1. UNCHANGED names /\ answer' = [c \in Requests |-> answer'[c]]
    BY <1>4 DEF Restart, form
  <2>2. \A p \in Pages : \A n \in Names : answer'[<<p, n>>] = answer[<<p, n>>]
    BY <1>4, RestartAnswers
  <2> QED
    BY <2>1, <2>2 DEF NewsTypes, NewsAnswer, Types, ServerTypes
<1>5. ASSUME NEW p \in Pages, ActionOf(p) PROVE NewsTypes'
  <2>1. CASE LoginAsGuest(p)
    <3>1. UNCHANGED names
      BY <2>1, LoginStep
    <3> QED
      BY <1>7, <2>1, <3>1, LoginStep
  <2>2. CASE Insert(p)
    <3>1. UNCHANGED names
      BY <2>2, InsertStep DEF form, Insert
    <3> QED
      BY <1>7, <2>2, <3>1, InsertStep DEF Insert
  <2>3. CASE LoginDone(p)
    <3>1. names' = [names EXCEPT ![p] = @ \cup asked[p]] \/ UNCHANGED names
      BY <2>3, LoginDoneStep
    <3> QED
      BY <1>7, <2>3, <3>1, LoginDoneStep
  <2>4. CASE SendDone(p)
    <3>1. UNCHANGED names
      BY <2>4, SendDoneStep DEF form
    <3> QED
      BY <1>7, <2>4, <3>1, SendDoneStep
  <2>5. ASSUME NEW n \in Names, Heartbeat(p, n) PROVE NewsTypes'
    <3>1. UNCHANGED names
      BY <2>5, HeartbeatStep DEF form
    <3>2. /\ n \in names[p] /\ answer' = [d \in Requests |-> answer'[d]]
          /\ \A d \in Requests : d # <<p, n>> => answer'[d] = answer[d]
      BY <2>5, HeartbeatStep
    <3>3. ASSUME NEW q \in Pages, NEW m \in Names
          PROVE  answer'[<<q, m>>] = answer[<<q, m>>] \/ m \in names[q]
      <4>1. <<q, m>> \in Requests
        BY Distinct
      <4>2. CASE q = p /\ m = n
        BY <3>2, <4>2
      <4>3. CASE ~ (q = p /\ m = n)
        BY <3>2, <4>1, <4>3
      <4> QED
        BY <4>2, <4>3
    <3> QED
      BY <1>1, <3>1, <3>2, <3>3
  <2>6. ASSUME NEW n \in Names, News(p, n) PROVE NewsTypes'
    <3>1. UNCHANGED names
      BY <2>6, NewsStep DEF form
    <3> QED
      BY <1>1, <2>6, <3>1, NewsStep, Distinct
  <2>7. CASE PageStep(p)
    BY <1>2, <2>7 DEF PageStep, LogOut, Edit, FillIn, server, form
  <2>8. CASE StartSendChanges(p)
    BY <1>2, <2>8, StartStep DEF server, form
  <2>9. CASE SendTimeout(p)
    <3>1. UNCHANGED names
      BY <2>9, TimeoutStep DEF form
    <3> QED
      BY <1>7, <2>9, <3>1, TimeoutStep
  <2> QED
    BY <1>5, <2>1, <2>2, <2>3, <2>4, <2>5, <2>6, <2>7, <2>8, <2>9 DEF ActionOf, PageStep
<1> QED
  BY <1>3, <1>4, <1>5, NextKinds

(* those of the pages,                                                     *)
LEMMA NextPageTypes ==
  ASSUME Types, [Next]_vars
  PROVE  PageTypes'
<1> USE DEF Types
<1>1. CASE UNCHANGED vars
  BY <1>1 DEF vars, form, content, history, PageTypes, Made
<1>2. CASE Restart
  BY <1>2 DEF Restart, form, content, PageTypes, Made
<1>4. ASSUME UNCHANGED <<form, content, history>> PROVE PageTypes'
  BY <1>4 DEF form, content, history, PageTypes, Made
<1>3. ASSUME NEW p \in Pages, ActionOf(p) PROVE PageTypes'
  <2>1. CASE LoginAsGuest(p)
    <3>1. /\ UNCHANGED <<names, content, history, field>>
          /\ asked' = [asked EXCEPT ![p] = {field[p]}]
      BY <2>1, LoginStep DEF LoginAsGuest
    <3> QED
      BY <3>1 DEF content, history, PageTypes, Made
  <2>2. CASE StartSendChanges(p)
    BY <1>4, <2>2, StartStep
  <2>3. CASE LoginDone(p)
    <3>0. current' \subseteq Pages
      <4>1. current \subseteq Pages
        BY DEF PageTypes
      <4>2. \/ current' = current
            \/ current' = IF HeartbeatOpen(p) THEN current \ {p} ELSE current \cup {p}
        BY <2>3, LoginDoneStep DEF content
      <4> QED
        BY <4>1, <4>2
    <3>1. /\ UNCHANGED <<field, attached, typist, starts>>
          /\ asked' = [asked EXCEPT ![p] = {}]
          /\ \/ UNCHANGED <<names, last, screen>>
             \/ /\ names' = [names EXCEPT ![p] = @ \cup asked[p]]
                /\ last' = [last EXCEPT ![p] = -1]
                /\ screen' = [screen EXCEPT ![p] = {}]
      BY <2>3, LoginDoneStep DEF content
    <3>2. IsFiniteSet(names[p] \cup asked[p])
      <4>1. IsFiniteSet(names[p]) /\ IsFiniteSet(asked[p])
        <5>1. IsFiniteSet(names[p]) /\ (asked[p] = {} \/ \E n \in Names : asked[p] = {n})
          BY DEF PageTypes
        <5>2. \A n : IsFiniteSet({n})
          BY FS_Singleton
        <5> QED
          BY <5>1, <5>2, FS_EmptySet
      <4> QED
        BY <4>1, FS_Union
    <3>3. \A q \in Pages : IsFiniteSet(names'[q])
      BY <3>1, <3>2 DEF PageTypes
    <3>4. /\ names' \in [Pages -> SUBSET Names]
          /\ last' = [q \in Pages |-> last'[q]]
          /\ screen' = [q \in Pages |-> screen'[q]]
      BY <3>1 DEF PageTypes
    <3>5. heard' = [q \in Pages |-> heard'[q]]
      <4>1. UNCHANGED heard \/ heard' = [heard EXCEPT ![p] = {}]
        BY <2>3, LoginDoneStep
      <4> QED
        BY <4>1 DEF PageTypes
    <3> QED
      BY <3>0, <3>1, <3>3, <3>4, <3>5 DEF PageTypes, Made
  <2>4. CASE SendDone(p)
    BY <1>4, <2>4, SendDoneStep
  <2>5. ASSUME NEW n \in Names, Heartbeat(p, n) PROVE PageTypes'
    BY <1>4, <2>5, HeartbeatStep
  <2>6. ASSUME NEW n \in Names, News(p, n) PROVE PageTypes'
    <3>1. /\ UNCHANGED <<form, typist, starts, current>>
          /\ \E more : heard' = [heard EXCEPT ![p] = more]
          /\ \E m : last' = [last EXCEPT ![p] = m]
          /\ \E more : attached' = [attached EXCEPT ![p] = more]
          /\ \E more : screen' = [screen EXCEPT ![p] = more]
      BY <2>6, NewsStep
    <3>2. /\ last' = [q \in Pages |-> last'[q]]
          /\ attached' = [q \in Pages |-> attached'[q]]
          /\ screen' = [q \in Pages |-> screen'[q]]
          /\ heard' = [q \in Pages |-> heard'[q]]
      BY <3>1 DEF PageTypes
    <3> QED
      BY <3>1, <3>2 DEF form, PageTypes, Made
  <2>7. CASE LogOut(p)
    BY <2>7 DEF LogOut, content, PageTypes, Made
  <2>8. CASE Edit(p)
    <3>1. /\ UNCHANGED <<form, last, attached, starts, current, heard>>
          /\ typist' = Append(typist, p) /\ Len(typist) + 1 \in Changes
          /\ \E more : screen' = [screen EXCEPT ![p] = more]
      BY <2>8 DEF Edit
    <3>2. screen' = [q \in Pages |-> screen'[q]]
      <4>1. screen = [q \in Pages |-> screen[q]]
        BY DEF PageTypes
      <4> QED
        BY <3>1, <4>1
    <3>3. typist' \in Seq(Pages) /\ Made' \subseteq Changes
      <4>1. typist' \in Seq(Pages) /\ DOMAIN typist' = 1..(Len(typist) + 1)
        BY <3>1, AppendProperties DEF PageTypes
      <4> QED
        BY <3>1, <4>1 DEF Made, Changes, PageTypes
    <3> QED
      BY <3>1, <3>2, <3>3 DEF form, PageTypes
  <2>9. ASSUME NEW n \in Names, FillIn(p, n) PROVE PageTypes'
    BY <2>9 DEF FillIn, content, history, PageTypes, Made
  <2>10. CASE Insert(p)
    BY <1>4, <2>10, InsertStep DEF Insert
  <2>11. CASE SendTimeout(p)
    <3>1. UNCHANGED <<form, content, typist, starts, current, heard>>
      BY <2>11, TimeoutStep
    <3> QED
      BY <3>1 DEF form, content, PageTypes, Made
  <2> QED
    BY <1>3, <2>1, <2>2, <2>3, <2>4, <2>5, <2>6, <2>7, <2>8, <2>9, <2>10, <2>11 DEF ActionOf
<1> QED
  BY <1>1, <1>2, <1>3, NextKinds

(* and those of the sends.                                                 *)
LEMMA NextSendTypes ==
  ASSUME Types, [Next]_vars
  PROVE  SendTypes'
<1> USE DEF Types
<1>1. ASSUME UNCHANGED <<sending, tries>> PROVE SendTypes'
  BY <1>1 DEF sending, SendTypes
<1>2. ASSUME UNCHANGED <<acknowledged, pending, request, tries>>, posted' \subseteq posted
      PROVE  SendTypes'
  <2>1. IsFiniteSet(posted')
    BY <1>2, FS_Subset DEF SendTypes
  <2> QED
    BY <1>2, <2>1 DEF SendTypes
<1>3. ASSUME NEW r \in Sends PROVE IsFiniteSet(posted \cup {r})
  BY FS_AddElement DEF SendTypes
<1>4. CASE UNCHANGED vars
  BY <1>1, <1>4 DEF vars, history
<1>5. CASE Restart
  BY <1>2, <1>5, RestartAnswers DEF Restart
<1>6. ASSUME NEW p \in Pages, ActionOf(p) PROVE SendTypes'
  <2>1. CASE LoginAsGuest(p)
    BY <1>1, <2>1, LoginStep DEF history
  <2>2. CASE Insert(p)
    BY <1>2, <2>2, InsertStep DEF Insert, history
  <2>3. CASE LoginDone(p)
    BY <1>1, <2>3, LoginDoneStep
  <2>4. CASE \E n \in Names : Heartbeat(p, n)
    BY <1>1, <2>4, HeartbeatStep DEF history
  <2>5. CASE \E n \in Names : News(p, n)
    BY <1>1, <2>5, NewsStep
  <2>6. CASE LogOut(p) \/ \E n \in Names : FillIn(p, n)
    BY <1>1, <2>6 DEF LogOut, FillIn, history
  <2>7. CASE Edit(p)
    <3>1. /\ UNCHANGED <<acknowledged, request, posted, tries>>
          /\ Len(typist) + 1 \in Changes
          /\ pending' = [pending EXCEPT ![p] = @ \cup {Len(typist) + 1}]
      BY <2>7 DEF Edit
    <3> QED
      BY <3>1 DEF SendTypes
  <2>8. CASE StartSendChanges(p)
    <3>1. /\ UNCHANGED tries
          /\ acknowledged' = [acknowledged EXCEPT ![p] = FALSE]
          /\ pending' = [pending EXCEPT ![p] = {}]
      BY <2>8, StartStep DEF history
    <3>2. PICK r \in Sends : /\ r.page = p
                             /\ request' = [request EXCEPT ![p] = r]
                             /\ posted' = posted \cup {r}
      BY <2>8, StartStep
    <3>3. IsFiniteSet(posted')
      BY <1>3, <3>2
    <3> QED
      BY <3>1, <3>2, <3>3 DEF SendTypes
  <2>9. CASE SendDone(p)
    <3>1. /\ UNCHANGED <<pending, posted, tries>>
          /\ acknowledged' = [acknowledged EXCEPT ![p] = answer[<<p, "send">>] # Failed]
          /\ request' = request \/ request' = [request EXCEPT ![p] = NoSend(p)]
      BY <2>9, SendDoneStep DEF history
    <3>2. NoSend(p) \in Sends /\ NoSend(p).page = p
      BY ReloginAssumption DEF NoSend, Send, Sends
    <3> QED
      BY <3>1, <3>2 DEF SendTypes
  <2>10. CASE SendTimeout(p)
    <3>1. UNCHANGED <<acknowledged, pending>>
      BY <2>10, TimeoutStep
    <3>2. PICK r \in Sends :
              /\ r.page = p /\ r.changes = request[p].changes
              /\ request' = [request EXCEPT ![p] = r]
              /\ \/ /\ posted' = posted \cup {r}
                    /\ tries' = [x \in Changes |-> IF x \in r.changes THEN tries[x] + 1
                                                                    ELSE tries[x]]
                 \/ UNCHANGED <<posted, tries>> /\ r.tries > MaxRetries
      BY <2>10, TimeoutStep
    <3>3. IsFiniteSet(posted') /\ tries' \in [Changes -> Nat]
      BY <1>3, <3>2 DEF SendTypes
    <3> QED
      BY <3>1, <3>2, <3>3 DEF SendTypes
  <2> QED
    BY <1>6, <2>1, <2>2, <2>3, <2>4, <2>5, <2>6, <2>7, <2>8, <2>9, <2>10 DEF ActionOf
<1> QED
  BY <1>4, <1>5, <1>6, NextKinds

(* So the types hold always.                                               *)
LEMMA TypesAlways == Spec => []Types
<1>1. Types /\ [Next]_vars => Types'
  BY NextLogTypes, NextNewsTypes, NextPageTypes, NextSendTypes
  DEF Types, ServerTypes, LogTypes, NewsTypes
<1> QED
  BY <1>1, InitTypes, PTL DEF Spec

-----------------------------------------------------------------------------
(***************************************************************************)
(* No change is lost, none is logged more often than it was sent.          *)
(***************************************************************************)
(* The steps that neither make nor move a change.                          *)
Quiet(p) ==
  \/ LogOut(p) \/ LoginAsGuest(p) \/ LoginDone(p)
  \/ \E n \in Names : FillIn(p, n) \/ Heartbeat(p, n) \/ News(p, n)

LEMMA ChangesStay ==
  ASSUME Types, NEW p \in Pages, Quiet(p)
  PROVE  UNCHANGED <<log, sending, typist, starts, tries>>
<1>1. CASE LoginAsGuest(p)
  BY <1>1, LoginStep DEF history
<1>2. CASE LoginDone(p)
  BY <1>2, LoginDoneStep
<1>3. CASE \E n \in Names : Heartbeat(p, n)
  BY <1>3, HeartbeatStep DEF history
<1>4. CASE \E n \in Names : News(p, n)
  BY <1>4, NewsStep
<1>5. CASE LogOut(p) \/ \E n \in Names : FillIn(p, n)
  BY <1>5 DEF LogOut, FillIn, server, history
<1> QED
  BY <1>1, <1>2, <1>3, <1>4, <1>5 DEF Quiet

(* A change that is made is the next one, pending and nowhere else.        *)
LEMMA EditStep ==
  ASSUME Types, NEW p \in Pages, Edit(p)
  PROVE  /\ UNCHANGED <<server, form, acknowledged, request, posted, last, attached>>
         /\ UNCHANGED <<logOuts, starts, tries, current, heard>>
         /\ Made \subseteq Made'
         /\ \A y \in Made : typist'[y] = typist[y]
         /\ \E x : /\ x \notin Made /\ Made' = Made \cup {x} /\ typist'[x] = p
                   /\ pending' = [pending EXCEPT ![p] = @ \cup {x}]
                   /\ screen' = [screen EXCEPT ![p] = @ \cup {x}]
<1> DEFINE x == Len(typist) + 1
<1>1. typist \in Seq(Pages)
  BY DEF Types, PageTypes
<1>2. typist' = Append(typist, p)
  BY DEF Edit
<1>3. /\ Len(typist) \in Nat /\ Made = 1..Len(typist)
      /\ Made' = 1..x /\ typist'[x] = p
      /\ \A y \in Made : typist'[y] = typist[y]
  BY <1>1, <1>2, AppendProperties DEF Made
<1>4. x \notin Made /\ Made' = Made \cup {x}
  BY <1>3
<1>5. /\ UNCHANGED <<server, form, acknowledged, request, posted, last, attached>>
      /\ UNCHANGED <<logOuts, starts, tries, current, heard>>
      /\ pending' = [pending EXCEPT ![p] = @ \cup {x}]
      /\ screen' = [screen EXCEPT ![p] = @ \cup {x}]
  BY DEF Edit
<1> HIDE DEF x
<1> QED
  BY <1>3, <1>4, <1>5

(* Only an edit adds to the history of changes.                            *)
LEMMA TypistStays ==
  ASSUME Types, [Next]_vars
  PROVE  Made \subseteq Made' /\ \A y \in Made : typist'[y] = typist[y]
<1>1. ASSUME UNCHANGED typist
      PROVE  Made \subseteq Made' /\ \A y \in Made : typist'[y] = typist[y]
  BY <1>1 DEF Made
<1>2. CASE UNCHANGED vars
  BY <1>1, <1>2 DEF vars, history
<1>3. CASE Restart
  BY <1>1, <1>3 DEF Restart
<1>4. ASSUME NEW p \in Pages, ActionOf(p)
      PROVE  Made \subseteq Made' /\ \A y \in Made : typist'[y] = typist[y]
  <2>1. CASE Edit(p)
    BY <2>1, EditStep
  <2>2. CASE StartSendChanges(p)
    BY <1>1, <2>2, StartStep DEF history
  <2>3. CASE Insert(p)
    BY <1>1, <2>3, InsertStep DEF Insert, history
  <2>4. CASE SendTimeout(p)
    BY <1>1, <2>4, TimeoutStep
  <2>5. CASE SendDone(p)
    BY <1>1, <2>5, SendDoneStep DEF history
  <2>6. CASE Quiet(p)
    BY <1>1, <2>6, ChangesStay
  <2> QED
    BY <1>4, <2>1, <2>2, <2>3, <2>4, <2>5, <2>6 DEF ActionOf, Quiet
<1> QED
  BY <1>2, <1>3, <1>4, NextKinds

(* Where a change is are finite sets, and their sizes numbers.             *)
LEMMA PlacesFinite ==
  ASSUME Types, NEW x
  PROVE  /\ IsFiniteSet(IdsOf(x)) /\ IsFiniteSet(SendsOf(x))
         /\ Cardinality(IdsOf(x)) \in Nat /\ Cardinality(SendsOf(x)) \in Nat
<1>1. IsFiniteSet(DOMAIN log)
  <2>1. PICK size \in Nat : DOMAIN log = 1..size
    BY DEF Types, ServerTypes
  <2> QED
    BY <2>1, FS_Interval
<1>2. IsFiniteSet(IdsOf(x)) /\ IsFiniteSet(SendsOf(x))
  BY <1>1, FS_Subset DEF IdsOf, SendsOf, Types, SendTypes
<1> QED
  BY <1>2, FS_CardinalityType

(* One more element, and one less.                                         *)
LEMMA OneMore ==
  ASSUME NEW S, IsFiniteSet(S), NEW e
  PROVE  /\ Cardinality(S) \in Nat /\ Cardinality(S \cup {e}) \in Nat
         /\ Cardinality(S) <= Cardinality(S \cup {e})
         /\ Cardinality(S \cup {e}) <= Cardinality(S) + 1
         /\ e \in S => Cardinality(S \ {e}) = Cardinality(S) - 1
<1>1. /\ Cardinality(S) \in Nat
      /\ IsFiniteSet(S \cup {e})
      /\ Cardinality(S \cup {e}) = IF e \in S THEN Cardinality(S) ELSE Cardinality(S) + 1
  BY FS_AddElement, FS_CardinalityType
<1>2. e \in S => Cardinality(S \ {e}) = Cardinality(S) - 1
  BY FS_RemoveElement
<1> QED
  BY <1>1, <1>2, FS_CardinalityType

(* Initially nothing has been made;                                        *)
LEMMA InitKept == Init => Kept
BY DEF Init, Server!Init, Kept, Made, NoSend, Send

(* an edit makes a change that is pending and nowhere else,                *)
LEMMA EditKept ==
  ASSUME Types, Types', Kept, NEW p \in Pages, Edit(p)
  PROVE  Kept'
<1>1. /\ UNCHANGED <<log, request, posted, starts, tries>>
      /\ \A y \in Made : typist'[y] = typist[y]
  BY EditStep DEF server
<1>2. PICK x : /\ x \notin Made /\ Made' = Made \cup {x} /\ typist'[x] = p
               /\ pending' = [pending EXCEPT ![p] = @ \cup {x}]
  BY EditStep
<1>3. /\ \A q \in Pages : pending'[q] = IF q = p THEN pending[q] \cup {x} ELSE pending[q]
      /\ \A y \in Made : typist[y] \in Pages
  <2>1. \A y \in Made : typist[y] \in Pages
    BY ElementOfSeq DEF Types, PageTypes, Made
  <2> QED
    BY <1>2, <2>1 DEF Types, SendTypes
<1>4. \A y : IdsOf(y)' = IdsOf(y) /\ SendsOf(y)' = SendsOf(y)
  BY <1>1 DEF IdsOf, SendsOf
<1>5. /\ IdsOf(x) = {} /\ SendsOf(x) = {}
      /\ \A q \in Pages : x \notin request[q].changes
  BY <1>2 DEF Kept, IdsOf, SendsOf
<1>6. tries[x] \in Nat /\ Cardinality({}) = 0
  <2>1. x \in Changes
    BY <1>2 DEF Types, PageTypes
  <2> QED
    BY <2>1, FS_EmptySet DEF Types, SendTypes
<1>7. \A q \in Pages : \A y \in pending'[q] : y \in Made' /\ typist'[y] = q
  BY <1>1, <1>2, <1>3 DEF Kept
<1>8. ASSUME NEW y \in Made'
      PROVE  /\ y \in pending'[typist'[y]] =>
                  /\ IdsOf(y)' = {} /\ SendsOf(y)' = {}
                  /\ \A q \in Pages : y \notin request'[q].changes
             /\ y \notin pending'[typist'[y]] /\ IdsOf(y)' = {} /\ SendsOf(y)' = {}
                  => starts' > 0
             /\ Cardinality(IdsOf(y)') + Cardinality(SendsOf(y)') <= 1 + tries'[y]
  <2>1. CASE y = x
    <3>1. IdsOf(y)' = {} /\ SendsOf(y)' = {} /\ y \in pending'[p] /\ typist'[y] = p
      BY <1>2, <1>3, <1>4, <1>5, <2>1
    <3>2. Cardinality(IdsOf(y)') + Cardinality(SendsOf(y)') <= 1 + tries'[y]
      BY <1>1, <1>6, <2>1, <3>1
    <3> QED
      BY <1>1, <1>5, <2>1, <3>1, <3>2
  <2>2. CASE y \in Made
    <3>1. y \in pending'[typist'[y]] <=> y \in pending[typist[y]]
      BY <1>1, <1>2, <1>3, <2>2
    <3> QED
      BY <1>1, <1>4, <2>2, <3>1 DEF Kept
  <2> QED
    BY <1>2, <2>1, <2>2
<1> QED
  BY <1>1, <1>2, <1>7, <1>8 DEF Kept

(* a send moves what is pending on its way,                                *)
LEMMA StartKept ==
  ASSUME Types, Kept, NEW p \in Pages, StartSendChanges(p)
  PROVE  Kept'
<1>1. /\ UNCHANGED <<log, typist, starts, tries>> /\ Made' = Made
      /\ pending' = [pending EXCEPT ![p] = {}]
  BY StartStep DEF server, history, Made
<1>2. PICK r \in Sends : /\ r.changes = pending[p]
                         /\ request' = [request EXCEPT ![p] = r]
                         /\ posted' = posted \cup {r}
  BY StartStep
<1>3. /\ \A q \in Pages : pending'[q] = IF q = p THEN {} ELSE pending[q]
      /\ \A q \in Pages : request'[q] = IF q = p THEN r ELSE request[q]
      /\ \A y \in Made : typist[y] \in Pages
  BY <1>1, <1>2, ElementOfSeq DEF Types, PageTypes, SendTypes, Made
<1>4. \A y \in pending[p] : /\ y \in Made /\ typist[y] = p
                            /\ IdsOf(y) = {} /\ SendsOf(y) = {}
  BY DEF Kept
<1>5. \A y : IdsOf(y)' = IdsOf(y)
  BY <1>1 DEF IdsOf
<1>6. \A y : SendsOf(y)' = IF y \in pending[p] THEN SendsOf(y) \cup {r} ELSE SendsOf(y)
  BY <1>2 DEF SendsOf
<1>7. Cardinality({}) = 0 /\ Cardinality({r}) = 1 /\ \A y \in Made : tries[y] \in Nat
  BY FS_EmptySet, FS_Singleton DEF Types, PageTypes, SendTypes
<1>8. ASSUME NEW y \in Made
      PROVE  /\ y \in pending'[typist[y]] =>
                  /\ IdsOf(y)' = {} /\ SendsOf(y)' = {}
                  /\ \A q \in Pages : y \notin request'[q].changes
             /\ y \notin pending'[typist[y]] /\ IdsOf(y)' = {} /\ SendsOf(y)' = {}
                  => starts > 0
             /\ Cardinality(IdsOf(y)') + Cardinality(SendsOf(y)') <= 1 + tries[y]
  <2>1. CASE y \in pending[p]
    <3>1. IdsOf(y)' = {} /\ SendsOf(y)' = {r}
      BY <1>4, <1>5, <1>6, <2>1
    <3> QED
      BY <1>3, <1>4, <1>7, <2>1, <3>1
  <2>2. CASE y \notin pending[p]
    <3>1. IdsOf(y)' = IdsOf(y) /\ SendsOf(y)' = SendsOf(y)
      BY <1>5, <1>6, <2>2
    <3>2. y \in pending'[typist[y]] <=> y \in pending[typist[y]]
      BY <1>3, <2>2
    <3>3. y \in pending[typist[y]] => \A q \in Pages : y \notin request'[q].changes
      BY <1>2, <1>3, <2>2 DEF Kept
    <3> QED
      BY <3>1, <3>2, <3>3 DEF Kept
  <2> QED
    BY <2>1, <2>2
<1>9. \A q \in Pages : \A y \in pending'[q] : y \in Made /\ typist[y] = q
  BY <1>3 DEF Kept
<1>10. /\ \A s \in posted' : s.changes \subseteq Made
       /\ \A q \in Pages : request'[q].changes \subseteq Made
  BY <1>2, <1>3, <1>4 DEF Kept
<1> QED
  BY <1>1, <1>8, <1>9, <1>10 DEF Kept

(* the server moves it to the log,                                         *)
LEMMA InsertKept ==
  ASSUME Types, Kept, NEW p \in Pages, Insert(p)
  PROVE  Kept'
<1>1. PICK r \in posted : r.page = p /\ InsertText(r)
  BY DEF Insert
<1>2. /\ UNCHANGED <<pending, request, typist, starts, tries>> /\ Made' = Made
      /\ posted' = posted \ {r}
      /\ \A i \in DOMAIN log : log'[i] = log[i]
  BY <1>1, InsertStep DEF history, Made, LogStays
<1>3. PICK k : /\ k \notin DOMAIN log
               /\ DOMAIN log' = DOMAIN log \cup {k} /\ log'[k] = r.changes
  BY <1>1, InsertStep
<1>4. \A y : IdsOf(y)' = IF y \in r.changes THEN IdsOf(y) \cup {k} ELSE IdsOf(y)
  BY <1>2, <1>3 DEF IdsOf
<1>5. \A y : SendsOf(y)' = SendsOf(y) \ {r} /\ (y \in r.changes <=> r \in SendsOf(y))
  BY <1>2 DEF SendsOf
<1>6. ASSUME NEW y \in Made
      PROVE  /\ y \in pending[typist[y]] =>
                  /\ IdsOf(y)' = {} /\ SendsOf(y)' = {}
                  /\ \A q \in Pages : y \notin request[q].changes
             /\ y \notin pending[typist[y]] /\ IdsOf(y)' = {} /\ SendsOf(y)' = {}
                  => starts > 0
             /\ Cardinality(IdsOf(y)') + Cardinality(SendsOf(y)') <= 1 + tries[y]
  <2>1. CASE y \in r.changes
    <3>1. IdsOf(y)' = IdsOf(y) \cup {k} /\ SendsOf(y)' = SendsOf(y) \ {r} /\ r \in SendsOf(y)
      BY <1>4, <1>5, <2>1
    <3>2. /\ Cardinality(IdsOf(y)) \in Nat /\ Cardinality(IdsOf(y)') \in Nat
          /\ Cardinality(IdsOf(y)') <= Cardinality(IdsOf(y)) + 1
      BY <3>1, PlacesFinite, OneMore
    <3>3. /\ Cardinality(SendsOf(y)) \in Nat
          /\ Cardinality(SendsOf(y)') = Cardinality(SendsOf(y)) - 1
      BY <3>1, PlacesFinite, OneMore
    <3>4. Cardinality(IdsOf(y)) + Cardinality(SendsOf(y)) <= 1 + tries[y] /\ tries[y] \in Nat
      BY DEF Kept, Types, PageTypes, SendTypes
    <3>5. y \notin pending[typist[y]]
      BY <3>1 DEF Kept
    <3> QED
      BY <3>1, <3>2, <3>3, <3>4, <3>5
  <2>2. CASE y \notin r.changes
    <3>1. IdsOf(y)' = IdsOf(y) /\ SendsOf(y)' = SendsOf(y)
      BY <1>4, <1>5, <2>2
    <3> QED
      BY <3>1 DEF Kept
  <2> QED
    BY <2>1, <2>2
<1>7. /\ \A i \in DOMAIN log' : log'[i] \subseteq Made
      /\ \A s \in posted' : s.changes \subseteq Made
  BY <1>2, <1>3 DEF Kept
<1> QED
  BY <1>2, <1>6, <1>7 DEF Kept

(* a timeout may put it on its way again,                                  *)
LEMMA TimeoutKept ==
  ASSUME Types, Kept, NEW p \in Pages, SendTimeout(p)
  PROVE  Kept'
<1>1. UNCHANGED <<log, pending, typist, starts>> /\ Made' = Made
  BY TimeoutStep DEF Made
<1>2. PICK r \in Sends :
        /\ r.changes = request[p].changes
        /\ request' = [request EXCEPT ![p] = r]
        /\ \/ /\ posted' = posted \cup {r}
              /\ tries' = [x \in Changes |-> IF x \in r.changes THEN tries[x] + 1
                                                              ELSE tries[x]]
           \/ UNCHANGED <<posted, tries>>
  BY TimeoutStep
<1>3. \A q \in Pages : request'[q].changes = request[q].changes
  BY <1>2 DEF Types, SendTypes
<1>4. \A y : IdsOf(y)' = IdsOf(y)
  BY <1>1 DEF IdsOf
<1>5. ASSUME NEW y \in Made
      PROVE  /\ \/ SendsOf(y)' = SendsOf(y) /\ tries'[y] = tries[y]
                \/ /\ SendsOf(y)' = SendsOf(y) \cup {r} /\ tries'[y] = tries[y] + 1
                   /\ y \in r.changes
             /\ tries[y] \in Nat
  <2>1. y \in Changes
    BY DEF Types, PageTypes
  <2> QED
    BY <1>2, <2>1 DEF SendsOf, Types, SendTypes
<1>6. ASSUME NEW y \in Made
      PROVE  /\ y \in pending[typist[y]] =>
                  /\ IdsOf(y)' = {} /\ SendsOf(y)' = {}
                  /\ \A q \in Pages : y \notin request'[q].changes
             /\ y \notin pending[typist[y]] /\ IdsOf(y)' = {} /\ SendsOf(y)' = {}
                  => starts > 0
             /\ Cardinality(IdsOf(y)') + Cardinality(SendsOf(y)') <= 1 + tries'[y]
  <2>1. CASE SendsOf(y)' = SendsOf(y) /\ tries'[y] = tries[y]
    BY <1>3, <1>4, <2>1 DEF Kept
  <2>2. CASE /\ SendsOf(y)' = SendsOf(y) \cup {r} /\ tries'[y] = tries[y] + 1
             /\ y \in r.changes
    <3>1. y \notin pending[typist[y]]
      BY <1>2, <2>2 DEF Kept
    <3>2. /\ Cardinality(IdsOf(y)) \in Nat
          /\ Cardinality(SendsOf(y)) \in Nat /\ Cardinality(SendsOf(y)') \in Nat
          /\ Cardinality(SendsOf(y)') <= Cardinality(SendsOf(y)) + 1
      BY <2>2, PlacesFinite, OneMore
    <3>3. Cardinality(IdsOf(y)) + Cardinality(SendsOf(y)) <= 1 + tries[y]
      BY DEF Kept
    <3> QED
      BY <1>4, <1>5, <2>2, <3>1, <3>2, <3>3
  <2> QED
    BY <1>5, <2>1, <2>2
<1>7. /\ \A s \in posted' : s.changes \subseteq Made
      /\ \A q \in Pages : request'[q].changes \subseteq Made
  BY <1>2, <1>3 DEF Kept
<1> QED
  BY <1>1, <1>6, <1>7 DEF Kept

(* and a new server process takes what is logged, and maybe what is not.   *)
LEMMA RestartKept ==
  ASSUME Types, Kept, Restart
  PROVE  Kept'
<1>1. /\ UNCHANGED <<pending, request, typist, tries>> /\ Made' = Made
      /\ DOMAIN log' = {} /\ starts' > 0 /\ posted' \subseteq posted
  BY RestartAnswers DEF Restart, Made, Types, PageTypes
<1>2. \A y : IdsOf(y)' = {} /\ SendsOf(y)' \subseteq SendsOf(y)
  BY <1>1 DEF IdsOf, SendsOf
<1>3. ASSUME NEW y \in Made
      PROVE  Cardinality(IdsOf(y)') + Cardinality(SendsOf(y)') <= 1 + tries[y]
  <2>1. /\ Cardinality(SendsOf(y)') <= Cardinality(SendsOf(y))
        /\ Cardinality(SendsOf(y)') \in Nat
    BY <1>2, PlacesFinite, FS_Subset, FS_CardinalityType
  <2>2. /\ Cardinality(IdsOf(y)) + Cardinality(SendsOf(y)) <= 1 + tries[y]
        /\ tries[y] \in Nat
    BY DEF Kept, Types, PageTypes, SendTypes
  <2>3. Cardinality(IdsOf(y)') = 0
    BY <1>2, FS_EmptySet
  <2> QED
    BY <2>1, <2>2, <2>3, PlacesFinite
<1> QED
  BY <1>1, <1>2, <1>3 DEF Kept

(* No step loses a change.                                                 *)
LEMMA NextKept ==
  ASSUME Types, Types', Kept, [Next]_vars
  PROVE  Kept'
<1>1. ASSUME UNCHANGED <<log, pending, request, posted, typist, starts, tries>> PROVE Kept'
  BY <1>1 DEF Kept, Made, IdsOf, SendsOf
<1>2. CASE UNCHANGED vars
  BY <1>1, <1>2 DEF vars, server, sending, history
<1>3. ASSUME NEW p \in Pages, SendDone(p) PROVE Kept'
  <2>1. UNCHANGED <<log, pending, posted, typist, starts, tries>> /\ Made' = Made
    BY <1>3, SendDoneStep DEF history, Made
  <2>2. \A q \in Pages : request'[q].changes \subseteq request[q].changes
    <3>1. request' = request \/ request' = [request EXCEPT ![p] = NoSend(p)]
      BY <1>3, SendDoneStep
    <3>2. NoSend(p).changes = {}
      BY DEF NoSend, Send
    <3> QED
      BY <3>1, <3>2 DEF Types, SendTypes
  <2>3. \A y : IdsOf(y)' = IdsOf(y) /\ SendsOf(y)' = SendsOf(y)
    BY <2>1 DEF IdsOf, SendsOf
  <2> QED
    BY <2>1, <2>2, <2>3 DEF Kept
<1>4. ASSUME NEW p \in Pages, Quiet(p) PROVE Kept'
  BY <1>1, <1>4, ChangesStay DEF sending
<1> QED
  BY <1>2, <1>3, <1>4, NextKinds, RestartKept, EditKept, StartKept, InsertKept,
     TimeoutKept DEF ActionOf, Quiet

(* so every change is in its place.                                        *)
LEMMA KeptAlways == Spec => []Kept
<1>1. Types /\ Types' /\ Kept /\ [Next]_vars => Kept'
  BY NextKept
<1> QED
  BY <1>1, TypesAlways, InitKept, PTL DEF Spec

(* Logging out and in neither drops a change nor sends one by itself:      *)
(* whatever has been made is pending on its page, on its way or in the log,*)
(* at most once for each attempt at sending it; only a new server process  *)
(* can take it (pendingChanges, the retries, get_change_id).               *)
THEOREM LoginsLoseNothing == Spec => []NothingLost
<1>1. Kept => NothingLost
  BY DEF Kept, NothingLost, IdsOf, SendsOf
<1> QED
  BY <1>1, KeptAlways, PTL

-----------------------------------------------------------------------------
(***************************************************************************)
(* One flag for the timers of all logins.                                  *)
(***************************************************************************)
LEMMA InitFlagged == Init => Flagged
BY Distinct, ReloginAssumption
DEF Init, Server!Init, Flagged, Ended, SendAnswer, Requests, Failed, Server!NoAnswer

(* A request that is in the log as nobody's own stays so.                  *)
LEMMA AnonymousStays ==
  ASSUME LogStays, NEW r, Anonymous(r)
  PROVE  Anonymous(r)'
BY DEF Anonymous, LogStays

(* What is said of one page's flag and request.                            *)
FlagOf(p) ==
  /\ acknowledged[p] => SendAnswer(p) = Server!NoAnswer /\ request[p] \notin posted
  /\ SendAnswer(p) # Server!NoAnswer => request[p] \notin posted /\ request[p].changes # {}
  /\ Ended(p) => request[p].tries > MaxRetries \/ Anonymous(request[p]) \/ starts > 0

(* It stays true of a page whose flag and request are left alone.          *)
LEMMA FlagOfStays ==
  ASSUME LogStays, NEW p, FlagOf(p), UNCHANGED starts,
         acknowledged'[p] = acknowledged[p], request'[p] = request[p],
         request[p] \in posted' <=> request[p] \in posted,
         SendAnswer(p)' = SendAnswer(p)
  PROVE  FlagOf(p)'
<1>1. Anonymous(request[p]) => Anonymous(request[p])'
  BY AnonymousStays
<1> QED
  BY <1>1 DEF FlagOf, Ended, Server!NoAnswer, Failed, Anonymous

(* The steps that leave the flags and their requests alone.                *)
LEMMA FlagsStay ==
  ASSUME Types, NEW p \in Pages, Quiet(p) \/ Edit(p)
  PROVE  /\ UNCHANGED <<acknowledged, request, posted, starts>>
         /\ \A q \in Pages : SendAnswer(q)' = SendAnswer(q)
<1>1. UNCHANGED <<acknowledged, request, posted, starts>>
  BY ChangesStay, EditStep DEF sending
<1>2. CASE LoginAsGuest(p) \/ LoginDone(p)
  <2>1. \A q \in Pages : <<q, "send">> \in Requests /\ <<q, "send">> # <<p, "login">>
    BY DEF Requests
  <2> QED
    BY <1>1, <1>2, <2>1, LoginStep, LoginDoneStep DEF SendAnswer
<1>3. ASSUME NEW n \in Names, Heartbeat(p, n) \/ News(p, n)
      PROVE  \A q \in Pages : SendAnswer(q)' = SendAnswer(q)
  <2>1. \A q \in Pages : <<q, "send">> \in Requests /\ <<q, "send">> # <<p, n>>
    BY Distinct
  <2> QED
    BY <1>3, <2>1, HeartbeatStep, NewsStep DEF SendAnswer
<1>4. CASE PageStep(p)
  BY <1>1, <1>4 DEF PageStep, LogOut, Edit, FillIn, server, SendAnswer
<1> QED
  BY <1>1, <1>2, <1>3, <1>4 DEF Quiet, PageStep

(* The steps of a send leave the flags and requests of other pages alone.  *)
LEMMA OtherFlags ==
  ASSUME Types, NEW p \in Pages, NEW q \in Pages, q # p,
         StartSendChanges(p) \/ Insert(p) \/ SendTimeout(p) \/ SendDone(p)
  PROVE  /\ UNCHANGED starts
         /\ acknowledged'[q] = acknowledged[q] /\ request'[q] = request[q]
         /\ request[q] \in posted' <=> request[q] \in posted
         /\ SendAnswer(q)' = SendAnswer(q)
<1>1. <<q, "send">> \in Requests /\ <<q, "send">> # <<p, "send">>
  BY DEF Requests
<1>2. /\ request[q].page = q
      /\ \A r : /\ [request EXCEPT ![p] = r][q] = request[q]
                /\ [acknowledged EXCEPT ![p] = r][q] = acknowledged[q]
  BY DEF Types, SendTypes
<1>3. CASE StartSendChanges(p)
  <2>1. UNCHANGED <<answer, starts>> /\ acknowledged' = [acknowledged EXCEPT ![p] = FALSE]
    BY <1>3, StartStep DEF server, history
  <2>2. PICK r \in Sends : /\ r.page = p /\ request' = [request EXCEPT ![p] = r]
                           /\ posted' = posted \cup {r}
    BY <1>3, StartStep
  <2>3. request[q] # r
    BY <1>2, <2>2
  <2> QED
    BY <1>2, <2>1, <2>2, <2>3 DEF SendAnswer
<1>4. CASE Insert(p)
  <2>1. PICK r \in posted : r.page = p /\ InsertText(r)
    BY <1>4 DEF Insert
  <2> QED
    BY <1>1, <1>2, <2>1, InsertStep DEF history, SendAnswer
<1>5. CASE SendTimeout(p)
  <2>1. /\ UNCHANGED <<acknowledged, starts>>
        /\ \A d \in Requests : d # <<p, "send">> => answer'[d] = answer[d]
    BY <1>5, TimeoutStep
  <2>2. PICK r \in Sends : /\ r.page = p /\ request' = [request EXCEPT ![p] = r]
                           /\ posted' = posted \cup {r} \/ posted' = posted
    BY <1>5, TimeoutStep
  <2>3. request[q] # r
    BY <1>2, <2>2
  <2> QED
    BY <1>1, <1>2, <2>1, <2>2, <2>3 DEF SendAnswer
<1>6. CASE SendDone(p)
  <2> DEFINE a == answer[<<p, "send">>]
  <2>1. /\ UNCHANGED <<posted, starts>>
        /\ \A d \in Requests : d # <<p, "send">> => answer'[d] = answer[d]
        /\ acknowledged' = [acknowledged EXCEPT ![p] = a # Failed]
        /\ request' = IF a = Failed THEN request ELSE [request EXCEPT ![p] = NoSend(p)]
    BY <1>6, SendDoneStep DEF history
  <2> QED
    BY <1>1, <1>2, <2>1 DEF SendAnswer
<1> QED
  BY <1>3, <1>4, <1>5, <1>6

(* Each step of a send keeps its own page's flag and request in step:      *)
(* it starts with the flag down,                                           *)
LEMMA StartFlag ==
  ASSUME Types, NEW p \in Pages, FlagOf(p), StartSendChanges(p)
  PROVE  FlagOf(p)' /\ \A r \in posted' \ posted : r.changes # {}
<1>1. /\ acknowledged[p] /\ ~ acknowledged'[p] /\ pending[p] # {}
      /\ UNCHANGED answer
  BY StartStep DEF server, Types, SendTypes
<1>2. PICK r \in Sends : /\ r.changes = pending[p]
                         /\ request' = [request EXCEPT ![p] = r]
                         /\ posted' = posted \cup {r}
  BY StartStep
<1>3. request'[p] \in posted'
  BY <1>2 DEF Types, SendTypes
<1>4. SendAnswer(p)' = Server!NoAnswer
  BY <1>1 DEF FlagOf, SendAnswer
<1> QED
  BY <1>1, <1>2, <1>3, <1>4 DEF FlagOf, Ended, Server!NoAnswer, Failed

(* is answered once, unless it is an attempt given up, and fails only if   *)
(* its change became nobody's own,                                         *)
LEMMA InsertFlag ==
  ASSUME Types, NEW p \in Pages, FlagOf(p), Insert(p), \A r \in posted : r.changes # {}
  PROVE  FlagOf(p)'
<1>1. PICK r \in posted : r.page = p /\ InsertText(r)
  BY DEF Insert
<1>2. /\ LogStays /\ UNCHANGED <<acknowledged, request, starts>>
      /\ posted' = posted \ {r}
      /\ request[p] # r => answer' = answer
      /\ request[p] = r => answer'[<<p, "send">>] # Server!NoAnswer
  BY <1>1, InsertStep DEF history
<1>3. CASE request[p] # r
  <2>1. SendAnswer(p)' = SendAnswer(p)
    BY <1>2, <1>3 DEF SendAnswer
  <2> QED
    BY <1>2, <1>3, <2>1, FlagOfStays
<1>4. CASE request[p] = r
  <2>1. ~ acknowledged[p] /\ request[p] \notin posted' /\ request[p].changes # {}
    BY <1>1, <1>2, <1>4 DEF FlagOf
  <2>2. SendAnswer(p)' # Server!NoAnswer
    BY <1>2, <1>4 DEF SendAnswer
  <2>3. ASSUME SendAnswer(p)' = Failed PROVE Anonymous(r)'
    <3>1. PICK k : /\ k \notin DOMAIN log /\ k \in DOMAIN log'
                   /\ log'[k] = r.changes /\ own' = own
      BY <1>1, <1>4, <2>3, InsertStep DEF SendAnswer
    <3>2. \A n \in DOMAIN own' : k \notin own'[n]
      BY <3>1 DEF Types, ServerTypes
    <3> QED
      BY <3>1, <3>2 DEF Anonymous
  <2> QED
    BY <1>2, <1>4, <2>1, <2>2, <2>3 DEF FlagOf, Ended, Server!NoAnswer, Anonymous
<1> QED
  BY <1>3, <1>4

(* goes on after a timeout with the flag down, unless it was the last,     *)
LEMMA TimeoutFlag ==
  ASSUME Types, NEW p \in Pages, FlagOf(p), SendTimeout(p), \A r \in posted : r.changes # {}
  PROVE  FlagOf(p)' /\ \A r \in posted' : r.changes # {}
<1>1. /\ UNCHANGED <<acknowledged, starts>> /\ SendOpen(p)
      /\ SendAnswer(p)' = Server!NoAnswer
  BY TimeoutStep DEF SendAnswer
<1>2. PICK r \in Sends :
        /\ r.changes = request[p].changes
        /\ request' = [request EXCEPT ![p] = r]
        /\ posted' = posted \cup {r} \/ (posted' = posted /\ r.tries > MaxRetries)
  BY TimeoutStep
<1>3. request'[p] = r
  BY <1>2 DEF Types, SendTypes
<1>4. ~ acknowledged[p] /\ request[p].changes # {}
  BY <1>1 DEF FlagOf, SendOpen, SendAnswer
<1>5. request'[p] \in posted' \/ request'[p].tries > MaxRetries
  BY <1>2, <1>3
<1> QED
  BY <1>1, <1>2, <1>4, <1>5 DEF FlagOf, Ended, Server!NoAnswer, Failed

(* and raises the flag when it is answered in time.                        *)
LEMMA DoneFlag ==
  ASSUME Types, NEW p \in Pages, FlagOf(p), SendDone(p), \A r \in posted : r.changes # {}
  PROVE  FlagOf(p)'
<1>1. /\ UNCHANGED <<members, log, own, posted, starts>>
      /\ SendAnswer(p) # Server!NoAnswer /\ SendAnswer(p)' = Server!NoAnswer
      /\ acknowledged'[p] = (SendAnswer(p) # Failed)
  BY SendDoneStep DEF history, SendAnswer, Types, SendTypes
<1>2. CASE SendAnswer(p) = Failed
  <2>1. UNCHANGED request
    BY <1>2, SendDoneStep DEF SendAnswer
  <2>2. request[p].tries > MaxRetries \/ Anonymous(request[p]) \/ starts > 0
    BY <1>2 DEF FlagOf, Ended
  <2> QED
    BY <1>1, <1>2, <2>1, <2>2 DEF FlagOf, Ended, Server!NoAnswer, Failed, Anonymous
<1>3. CASE SendAnswer(p) # Failed
  <2>1. request'[p] = NoSend(p)
    BY <1>3, SendDoneStep DEF SendAnswer, Types, SendTypes
  <2>2. request'[p] \notin posted'
    BY <1>1, <2>1 DEF NoSend, Send
  <2>3. acknowledged'[p] = TRUE /\ SendAnswer(p)' = Server!NoAnswer
    BY <1>1, <1>3
  <2> QED
    BY <2>2, <2>3 DEF FlagOf, Ended, Server!NoAnswer, Failed
<1> QED
  BY <1>2, <1>3

(* A new server process leaves the flags alone.                            *)
LEMMA RestartFlag ==
  ASSUME Types, NEW p \in Pages, FlagOf(p), Restart, \A r \in posted : r.changes # {}
  PROVE  FlagOf(p)'
<1>1. starts' > 0 /\ UNCHANGED <<acknowledged, request>> /\ posted' \subseteq posted
  BY RestartAnswers DEF Restart, Types, PageTypes
<1>2. CASE request[p] \in posted /\ request[p] \notin posted'
  <2>1. answer'[<<p, "send">>] = Failed
    BY <1>2, RestartAnswers
  <2> QED
    BY <1>1, <1>2, <2>1 DEF FlagOf, Ended, Server!NoAnswer, Failed, SendAnswer
<1>3. CASE ~ (request[p] \in posted /\ request[p] \notin posted')
  <2>1. answer'[<<p, "send">>] = answer[<<p, "send">>]
    BY <1>3, RestartAnswers
  <2> QED
    BY <1>1, <1>3, <2>1 DEF FlagOf, Ended, Server!NoAnswer, Failed, SendAnswer
<1> QED
  BY <1>2, <1>3

(* A request lowers the flag, its answer raises it unless it failed.       *)
LEMMA NextFlagged ==
  ASSUME Types, Flagged, [Next]_vars
  PROVE  Flagged'
<1>1. /\ \A r \in posted : r.changes # {}
      /\ \A p \in Pages : FlagOf(p)
  BY DEF Flagged, FlagOf
<1>2. (\A r \in posted' : r.changes # {}) /\ (\A p \in Pages : FlagOf(p)') => Flagged'
  BY DEF Flagged, FlagOf
<1>3. ASSUME LogStays, UNCHANGED <<acknowledged, request, posted, starts>>,
             \A q \in Pages : SendAnswer(q)' = SendAnswer(q)
      PROVE  Flagged'
  <2>1. \A q \in Pages : FlagOf(q)'
    BY <1>1, <1>3, FlagOfStays
  <2> QED
    BY <1>1, <1>2, <1>3, <2>1
<1>4. CASE UNCHANGED vars
  <2>1. LogStays
    BY <1>4 DEF vars, server, LogStays, Types, ServerTypes
  <2> QED
    BY <1>3, <1>4, <2>1 DEF vars, server, sending, history, SendAnswer
<1>5. CASE Restart
  <2>1. posted' \subseteq posted
    BY <1>5, RestartAnswers
  <2> QED
    BY <1>1, <1>2, <1>5, <2>1, RestartFlag
<1>6. ASSUME LogStays, NEW p \in Pages, ActionOf(p) PROVE Flagged'
  <2>1. CASE Quiet(p) \/ Edit(p)
    BY <1>3, <1>6, <2>1, FlagsStay
  <2>2. CASE StartSendChanges(p) \/ Insert(p) \/ SendTimeout(p) \/ SendDone(p)
    <3>1. \A q \in Pages : q # p => FlagOf(q)'
      BY <1>1, <1>6, <2>2, OtherFlags, FlagOfStays
    <3>2. FlagOf(p)'
      BY <1>1, <2>2, StartFlag, InsertFlag, TimeoutFlag, DoneFlag
    <3>3. \A r \in posted' : r.changes # {}
      <4>1. Insert(p) => posted' \subseteq posted
        BY InsertStep DEF Insert
      <4>2. SendDone(p) => posted' = posted
        BY SendDoneStep
      <4> QED
        BY <1>1, <2>2, <4>1, <4>2, StartFlag, TimeoutFlag
    <3> QED
      BY <1>2, <3>1, <3>2, <3>3
  <2> QED
    BY <1>6, <2>1, <2>2 DEF ActionOf, Quiet
<1> QED
  BY <1>4, <1>5, <1>6, NextKinds, LogStaysOrRestart

(* So the flag and the request go together.                                *)
LEMMA FlaggedAlways == Spec => []Flagged
<1>1. Types /\ Flagged /\ [Next]_vars => Flagged'
  BY NextFlagged
<1> QED
  BY <1>1, TypesAlways, InitFlagged, PTL DEF Spec

(* The timers of two logins never have two changes on their way, and the   *)
(* flag stays down only after the last timeout, a request that failed and  *)
(* whose change is in the log as nobody's own, or a server start           *)
(* (startSendChanges, insertText).                                         *)
THEOREM OneFlagForAllTimers == Spec => []OneFlag
<1>1. Flagged => OneFlag
  BY DEF Flagged, Ended, OneFlag, SendOpen, SendAnswer
<1> QED
  BY <1>1, FlaggedAlways, PTL

-----------------------------------------------------------------------------
(***************************************************************************)
(* What a page has heard: the document while ids do not start anew, and the*)
(* editor since the last login.                                            *)
(***************************************************************************)
(* A set of ids has a greatest one.                                        *)
LEMMA Greatest ==
  ASSUME NEW N \in Nat, NEW S, S \subseteq {-1} \cup 1..N, S # {}
  PROVE  \E m \in S : \A i \in S : i <= m
<1> DEFINE T == {N - i : i \in S}   R == OpToRel(<, Nat)
<1>1. T \subseteq Nat /\ T # {}
  <2>1. \A i \in S : N - i \in Nat
    OBVIOUS
  <2> QED
    BY <2>1
<1>2. \E x \in T : \A y \in T : <<y, x>> \notin R
  <2>1. IsWellFoundedOn(R, Nat)
    BY NatLessThanWellFounded
  <2> HIDE DEF T, R
  <2> QED
    BY <1>1, <2>1, WFMin
<1>3. PICK x \in T : \A y \in T : ~ (y < x)
  <2>1. \A x, y \in Nat : y < x => <<y, x>> \in R
    BY DEF OpToRel
  <2> HIDE DEF R
  <2> QED
    BY <1>1, <1>2, <2>1
<1>4. PICK m \in S : x = N - m
  OBVIOUS
<1>5. \A i \in S : i <= m
  <2> TAKE i \in S
  <2>1. ~ (N - i < N - m)
    BY <1>3, <1>4
  <2> QED
    BY <2>1
<1> QED
  BY <1>5

(* What a page has heard stays heard while the log keeps its ids.          *)
LEMMA StaysFilled ==
  ASSUME Types, LogStays, LogTypes', NEW p \in Pages, NEW where, Filled(p, where),
         last'[p] = last[p] \/ last'[p] = -1,
         names[p] \subseteq names'[p], where = "document" \/ heard[p] \subseteq heard'[p],
         Shown(p, where) \subseteq Shown(p, where)',
         \A n \in Names : \/ NewsAnswer(p, n)' = NewsAnswer(p, n)
                         \/ NewsAnswer(p, n)' = Server!NoAnswer
  PROVE  Filled(p, where)'
<1> DEFINE Ids == {-1} \cup DOMAIN log
<1>1. Filtered(p, where) \subseteq Filtered(p, where)'
  BY DEF Filtered, OwnIds, LogStays
<1>2. /\ DOMAIN log \subseteq Nat \ {0} /\ DOMAIN log' \subseteq Nat \ {0}
      /\ \A i \in DOMAIN log' \ DOMAIN log : \A j \in DOMAIN log : j < i
  <2>1. PICK size \in Nat : DOMAIN log = 1..size
    BY DEF Types, ServerTypes
  <2>2. PICK size2 \in Nat : DOMAIN log' = 1..size2
    BY DEF LogTypes
  <2>3. \A i \in DOMAIN log' \ DOMAIN log : \A j \in DOMAIN log : j < i
    BY DEF LogStays
  <2> QED
    BY <2>1, <2>2, <2>3
<1>3. DOMAIN log \subseteq DOMAIN log' /\ \A i \in DOMAIN log : log'[i] = log[i]
  BY DEF LogStays
<1>4. \A k \in Ids : \A j \in DOMAIN log' : j <= k => j \in DOMAIN log
  BY <1>2
<1>5. ASSUME NEW n \in Names, NEW i \in DOMAIN log, Brings(p, n, i, where),
             NewsAnswer(p, n)' = NewsAnswer(p, n)
      PROVE  Brings(p, n, i, where)'
  BY <1>1, <1>3, <1>5 DEF Brings, LogStays
<1> DEFINE Has(i) == log[i] \subseteq Shown(p, where)
<1>6. last'[p] \in {-1} \cup DOMAIN log' /\ last'[p] \in Ids /\ last'[p] <= last[p]
  BY <1>2, <1>3 DEF Filled
<1>7. \A i \in DOMAIN log' \ Filtered(p, where)' :
        i <= last'[p] => log'[i] \subseteq Shown(p, where)'
  <2>1. SUFFICES ASSUME NEW i \in DOMAIN log', i \notin Filtered(p, where)', i <= last'[p]
                 PROVE  log'[i] \subseteq Shown(p, where)'
    OBVIOUS
  <2>2. i \in DOMAIN log /\ i \notin Filtered(p, where)
    BY <1>1, <1>4, <1>6, <2>1
  <2>3. last[p] \in Ids /\ i <= last[p]
    BY <1>2, <1>6, <2>1, <2>2 DEF Filled
  <2>4. log[i] \subseteq Shown(p, where)
    BY <2>2, <2>3 DEF Filled
  <2> QED
    BY <1>3, <2>2, <2>4
<1>8. ASSUME NEW n \in Names, NewsAnswer(p, n)' # Server!NoAnswer
      PROVE  /\ NewsAnswer(p, n)'.since \in {-1} \cup DOMAIN log'
             /\ \A t \in NewsAnswer(p, n)'.transactions : t[1] \in DOMAIN log' /\ t[2] = log'[t[1]]
             /\ \A i \in DOMAIN log' : i <= NewsAnswer(p, n)'.since => Brings(p, n, i, where)'
             /\ \A t \in NewsAnswer(p, n)'.transactions : \A i \in DOMAIN log' :
                  i <= t[1] => Brings(p, n, i, where)'
  <2>1. NewsAnswer(p, n)' = NewsAnswer(p, n) /\ NewsAnswer(p, n) # Server!NoAnswer
    BY <1>8 DEF Server!NoAnswer
  <2> DEFINE a == NewsAnswer(p, n)
  <2>2. /\ a.since \in Ids
        /\ \A t \in a.transactions : t[1] \in DOMAIN log /\ t[2] = log[t[1]]
        /\ \A i \in DOMAIN log : i <= a.since => Brings(p, n, i, where)
        /\ \A t \in a.transactions : \A i \in DOMAIN log : i <= t[1] => Brings(p, n, i, where)
    BY <2>1 DEF Filled
  <2>3. \A i \in DOMAIN log : Brings(p, n, i, where) => Brings(p, n, i, where)'
    BY <1>5, <2>1
  <2> HIDE DEF a
  <2>4. /\ a.since \in {-1} \cup DOMAIN log'
        /\ \A t \in a.transactions : t[1] \in DOMAIN log' /\ t[2] = log'[t[1]]
    BY <1>3, <2>2
  <2>5. \A i \in DOMAIN log' : i <= a.since => Brings(p, n, i, where)'
    BY <1>4, <2>2, <2>3
  <2>6. \A t \in a.transactions : \A i \in DOMAIN log' : i <= t[1] => Brings(p, n, i, where)'
    BY <1>4, <2>2, <2>3
  <2> QED
    BY <2>1, <2>4, <2>5, <2>6 DEF a
<1> QED
  BY <1>6, <1>7, <1>8 DEF Filled, Server!NoAnswer

(* A heartbeat's answer brings all that is between "last" and its ids.     *)
LEMMA HeartbeatFills ==
  ASSUME Types, NEW p \in Pages, NEW n \in Names, NEW where, Filled(p, where), Heartbeat(p, n)
  PROVE  Filled(p, where)'
<1> DEFINE got == {<<i, log[i]>> : i \in {k \in DOMAIN log : k > last[p]} \ own[n]}
<1>1. /\ UNCHANGED <<members, log, own, form, sending, content, history>>
      /\ n \in names[p] /\ n \in DOMAIN own
      /\ \A d \in Requests : d # <<p, n>> => answer'[d] = answer[d]
      /\ answer'[<<p, n>>].since = last[p]
      /\ answer'[<<p, n>>].transactions = got
  BY HeartbeatStep
<1>2. PICK size \in Nat : DOMAIN log = 1..size
  BY DEF Types, ServerTypes
<1>3. last[p] \in {-1} \cup DOMAIN log
  BY DEF Filled
<1>4. /\ UNCHANGED <<log, own, names, last>> /\ Filtered(p, where)' = Filtered(p, where)
      /\ Shown(p, where)' = Shown(p, where)
  BY <1>1 DEF form, content, history, Filtered, OwnIds, Shown
<1>6. ASSUME NEW i \in DOMAIN log PROVE Brings(p, n, i, where)'
  <2>1. CASE i \in own[n]
    BY <1>1, <1>4, <2>1 DEF Brings
  <2>2. CASE i <= last[p] /\ i \notin Filtered(p, where)
    BY <1>4, <2>2 DEF Brings, Filled
  <2>3. CASE i > last[p] /\ i \notin own[n]
    <3>1. <<i, log[i]>> \in got
      BY <2>3
    <3> HIDE DEF got
    <3> QED
      BY <1>1, <1>4, <3>1 DEF Brings, NewsAnswer
  <2>4. CASE i \in Filtered(p, where)
    BY <1>4, <2>4 DEF Brings
  <2> QED
    BY <1>2, <1>3, <2>1, <2>2, <2>3, <2>4
<1>7. \A t \in got : t[1] \in DOMAIN log /\ t[2] = log[t[1]]
  OBVIOUS
<1>8. \A m \in Names : m # n => NewsAnswer(p, m)' = NewsAnswer(p, m)
  BY <1>1, Distinct DEF NewsAnswer
<1>9. ASSUME NEW m \in Names, m # n, NEW i \in DOMAIN log
      PROVE  Brings(p, m, i, where)' <=> Brings(p, m, i, where)
  BY <1>4, <1>8, <1>9 DEF Brings
<1>10. ASSUME NEW m \in Names, NewsAnswer(p, m)' # Server!NoAnswer
       PROVE  /\ NewsAnswer(p, m)'.since \in {-1} \cup DOMAIN log'
              /\ \A t \in NewsAnswer(p, m)'.transactions : t[1] \in DOMAIN log' /\ t[2] = log'[t[1]]
              /\ \A i \in DOMAIN log' : i <= NewsAnswer(p, m)'.since => Brings(p, m, i, where)'
              /\ \A t \in NewsAnswer(p, m)'.transactions : \A i \in DOMAIN log' :
                   i <= t[1] => Brings(p, m, i, where)'
  <2>1. CASE m = n
    <3> HIDE DEF got
    <3> QED
      BY <1>1, <1>3, <1>4, <1>6, <1>7, <2>1 DEF NewsAnswer
  <2>2. CASE m # n
    <3>1. NewsAnswer(p, m)' = NewsAnswer(p, m) /\ NewsAnswer(p, m) # Server!NoAnswer
      BY <1>8, <1>10, <2>2 DEF Server!NoAnswer
    <3> DEFINE a == NewsAnswer(p, m)
    <3>2. /\ a.since \in {-1} \cup DOMAIN log
          /\ \A t \in a.transactions : t[1] \in DOMAIN log /\ t[2] = log[t[1]]
          /\ \A i \in DOMAIN log : i <= a.since => Brings(p, m, i, where)
          /\ \A t \in a.transactions : \A i \in DOMAIN log : i <= t[1] => Brings(p, m, i, where)
      BY <3>1 DEF Filled
    <3> HIDE DEF a
    <3>3. /\ \A i \in DOMAIN log : i <= a.since => Brings(p, m, i, where)'
          /\ \A t \in a.transactions : \A i \in DOMAIN log : i <= t[1] => Brings(p, m, i, where)'
      BY <1>9, <2>2, <3>2
    <3> QED
      BY <1>4, <3>1, <3>2, <3>3 DEF a
  <2> QED
    BY <2>1, <2>2
<1>11. /\ last'[p] \in {-1} \cup DOMAIN log'
       /\ \A i \in DOMAIN log' \ Filtered(p, where)' : i <= last'[p] => log'[i] \subseteq Shown(p, where)'
  BY <1>4 DEF Filled
<1> HIDE DEF got
<1> QED
  BY <1>10, <1>11 DEF Filled, Server!NoAnswer

(* The news leave no gap behind the greatest of their ids.                 *)
LEMMA NewsFill ==
  ASSUME Types, NEW p \in Pages, NEW n \in Names, NEW where \in {"document", "editor"},
         Filled(p, where), News(p, n), where = "editor" => p \in current
  PROVE  Filled(p, where)'
<1> DEFINE got == answer[<<p, n>>].transactions
           ids == {last[p]} \cup {t[1] : t \in got}
           changes == UNION {t[2] : t \in got}
<1>1. /\ UNCHANGED <<members, log, own, form, sending>>
      /\ heard' = [heard EXCEPT ![p] = IF p \in current THEN @ \cup {n} ELSE @]
      /\ \A d \in Requests : d # <<p, n>> => answer'[d] = answer[d]
      /\ NewsAnswer(p, n) # Server!NoAnswer
      /\ answer'[<<p, n>>] = Server!NoAnswer
      /\ attached' = [attached EXCEPT ![p] = @ \cup changes]
      /\ screen' = [screen EXCEPT ![p] = @ \cup changes]
      /\ last' = [last EXCEPT ![p] = CHOOSE m \in ids : \A i \in ids : i <= m]
  BY NewsStep DEF NewsAnswer
<1>2. PICK size \in Nat : DOMAIN log = 1..size
  BY DEF Types, ServerTypes
<1>3. /\ last[p] \in {-1} \cup 1..size
      /\ \A t \in got : t[1] \in DOMAIN log /\ t[2] = log[t[1]]
      /\ \A t \in got : \A i \in DOMAIN log : i <= t[1] => Brings(p, n, i, where)
  BY <1>1, <1>2 DEF Filled, NewsAnswer
<1>4. /\ UNCHANGED <<log, own, names>>
      /\ Filtered(p, where) \subseteq Filtered(p, where)'
      /\ n \in DOMAIN own => own[n] \subseteq Filtered(p, where)'
  <2>1. UNCHANGED <<log, own, names>>
    BY <1>1 DEF form
  <2>2. CASE where = "document"
    <3>1. n \in names[p]
      BY <1>1 DEF Types, ServerTypes
    <3> QED
      BY <2>1, <2>2, <3>1 DEF Filtered, OwnIds
  <2>3. CASE where = "editor"
    <3>1. heard'[p] = heard[p] \cup {n}
      BY <1>1, <2>3 DEF Types, PageTypes
    <3> QED
      BY <2>1, <2>3, <3>1 DEF Filtered
  <2> QED
    BY <2>1, <2>2, <2>3
<1>5. Shown(p, where)' = Shown(p, where) \cup changes
  <2>1. attached'[p] = attached[p] \cup changes /\ screen'[p] = screen[p] \cup changes
    BY <1>1 DEF Types, PageTypes
  <2> HIDE DEF changes
  <2> QED
    BY <2>1 DEF Shown
<1>6. last'[p] \in ids /\ \A i \in ids : i <= last'[p]
  <2>1. ids \subseteq {-1} \cup 1..size /\ ids # {}
    BY <1>2, <1>3
  <2> HIDE DEF ids
  <2>2. \E m \in ids : \A i \in ids : i <= m
    BY <2>1, Greatest
  <2>3. last'[p] = CHOOSE m \in ids : \A i \in ids : i <= m
    BY <1>1 DEF Types, PageTypes
  <2> QED
    BY <2>2, <2>3
<1>7. last'[p] \in {-1} \cup DOMAIN log'
  BY <1>2, <1>3, <1>4, <1>6
<1>8. ASSUME NEW i \in DOMAIN log, i \notin Filtered(p, where)', i <= last'[p]
      PROVE  log[i] \subseteq Shown(p, where)'
  <2>1. CASE i <= last[p]
    <3>1. log[i] \subseteq Shown(p, where)
      BY <1>4, <1>8, <2>1 DEF Filled
    <3> QED
      BY <1>5, <3>1
  <2>2. CASE \E t \in got : i <= t[1]
    <3>1. Brings(p, n, i, where)
      BY <1>3, <2>2
    <3>2. CASE <<i, log[i]>> \in got
      <4>1. log[i] \subseteq changes
        BY <3>2
      <4> QED
        BY <1>5, <4>1
    <3> QED
      BY <1>4, <1>5, <1>8, <3>1, <3>2 DEF Brings, NewsAnswer
  <2> QED
    BY <1>6, <1>8, <2>1, <2>2
<1> HIDE DEF got, changes
<1>9. \A m \in Names : m # n => NewsAnswer(p, m)' = NewsAnswer(p, m)
  BY <1>1, Distinct DEF NewsAnswer
<1>10. ASSUME NEW m \in Names, m # n, NEW i \in DOMAIN log, Brings(p, m, i, where)
       PROVE  Brings(p, m, i, where)'
  BY <1>4, <1>5, <1>9, <1>10 DEF Brings
<1>11. ASSUME NEW m \in Names, NewsAnswer(p, m)' # Server!NoAnswer
       PROVE  /\ NewsAnswer(p, m)'.since \in {-1} \cup DOMAIN log'
              /\ \A t \in NewsAnswer(p, m)'.transactions : t[1] \in DOMAIN log' /\ t[2] = log'[t[1]]
              /\ \A i \in DOMAIN log' : i <= NewsAnswer(p, m)'.since => Brings(p, m, i, where)'
              /\ \A t \in NewsAnswer(p, m)'.transactions : \A i \in DOMAIN log' :
                   i <= t[1] => Brings(p, m, i, where)'
  <2>1. m # n
    BY <1>1, <1>11 DEF NewsAnswer, Server!NoAnswer
  <2>2. NewsAnswer(p, m)' = NewsAnswer(p, m) /\ NewsAnswer(p, m) # Server!NoAnswer
    BY <1>9, <1>11, <2>1 DEF Server!NoAnswer
  <2> DEFINE a == NewsAnswer(p, m)
  <2>3. /\ a.since \in {-1} \cup DOMAIN log
        /\ \A t \in a.transactions : t[1] \in DOMAIN log /\ t[2] = log[t[1]]
        /\ \A i \in DOMAIN log : i <= a.since => Brings(p, m, i, where)
        /\ \A t \in a.transactions : \A i \in DOMAIN log : i <= t[1] => Brings(p, m, i, where)
    BY <2>2 DEF Filled
  <2> HIDE DEF a
  <2>4. /\ \A i \in DOMAIN log : i <= a.since => Brings(p, m, i, where)'
        /\ \A t \in a.transactions : \A i \in DOMAIN log : i <= t[1] => Brings(p, m, i, where)'
    BY <1>10, <2>1, <2>3
  <2> QED
    BY <1>4, <2>2, <2>3, <2>4 DEF a
<1>12. \A i \in DOMAIN log' \ Filtered(p, where)' : i <= last'[p] => log'[i] \subseteq Shown(p, where)'
  BY <1>4, <1>8
<1> QED
  BY <1>7, <1>11, <1>12 DEF Filled, Server!NoAnswer

(* The other steps take nothing away, but for the answer to a login, which *)
(* empties the editor.                                                     *)
LEMMA OtherStepsFill ==
  ASSUME Types, LogStays, LogTypes', NEW p \in Pages, NEW q \in Pages, ActionOf(q),
         \A n \in Names : ~ Heartbeat(q, n) /\ ~ News(q, n),
         NEW where \in {"document", "editor"}, Filled(p, where),
         where = "editor" => screen[p] \subseteq screen'[p] /\ heard[p] \subseteq heard'[p]
  PROVE  Filled(p, where)'
<1>1. ASSUME last'[p] = last[p] \/ last'[p] = -1, names[p] \subseteq names'[p],
             attached[p] \subseteq attached'[p],
             \A n \in Names : NewsAnswer(p, n)' = NewsAnswer(p, n)
      PROVE  Filled(p, where)'
  <2>1. Shown(p, where) \subseteq Shown(p, where)'
    BY <1>1 DEF Shown
  <2> QED
    BY <1>1, <2>1, StaysFilled
<1>2. ASSUME NEW kind \in {"login", "send"},
             \A d \in Requests : d # <<q, kind>> => answer'[d] = answer[d]
      PROVE  \A n \in Names : NewsAnswer(p, n)' = NewsAnswer(p, n)
  <2>1. \A n \in Names : <<p, n>> \in Requests /\ <<p, n>> # <<q, kind>>
    BY Distinct
  <2> QED
    BY <1>2, <2>1 DEF NewsAnswer
<1>3. CASE LoginAsGuest(q)
  BY <1>1, <1>2, <1>3, LoginStep DEF content
<1>4. CASE StartSendChanges(q)
  BY <1>1, <1>4, StartStep DEF server, form, content, NewsAnswer
<1>5. CASE Insert(q)
  <2>1. PICK r \in posted : r.page = q /\ InsertText(r)
    BY <1>5 DEF Insert
  <2> QED
    BY <1>1, <1>2, <2>1, InsertStep DEF form, content
<1>9. CASE SendTimeout(q)
  BY <1>1, <1>2, <1>9, TimeoutStep DEF form, content
<1>10. CASE SendDone(q)
  BY <1>1, <1>2, <1>10, SendDoneStep DEF form, content
<1>6. CASE LoginDone(q)
  <2>1. /\ UNCHANGED attached
        /\ \/ UNCHANGED <<names, last>>
           \/ /\ names' = [names EXCEPT ![q] = @ \cup asked[q]]
              /\ last' = [last EXCEPT ![q] = -1]
    BY <1>6, LoginDoneStep DEF content
  <2>2. names[p] \subseteq names'[p] /\ (last'[p] = last[p] \/ last'[p] = -1)
    BY <2>1 DEF Types, PageTypes
  <2> QED
    BY <1>1, <1>2, <1>6, <2>1, <2>2, LoginDoneStep
<1>7. CASE Edit(q)
  BY <1>1, <1>7, EditStep DEF server, form, NewsAnswer
<1>8. CASE LogOut(q) \/ \E n \in Names : FillIn(q, n)
  BY <1>1, <1>8 DEF LogOut, FillIn, server, content, NewsAnswer
<1> QED
  BY <1>3, <1>4, <1>5, <1>6, <1>7, <1>8, <1>9, <1>10 DEF ActionOf

(* Editors only lose what is in them by the answer to a login, and so it is *)
(* with the names heard from.                                              *)
LEMMA ScreensGrow ==
  ASSUME Types, NEW p \in Pages, NEW q \in Pages, ActionOf(q),
         \/ ~ LoginDone(q) \/ p # q
  PROVE  /\ screen[p] \subseteq screen'[p] /\ heard[p] \subseteq heard'[p]
         /\ p \in current' => p \in current
<1>1. CASE LoginAsGuest(q) \/ StartSendChanges(q)
  BY <1>1, LoginStep, StartStep DEF content, history
<1>2. CASE Insert(q)
  BY <1>2, InsertStep DEF Insert, content, history
<1>3. CASE SendTimeout(q) \/ SendDone(q)
  BY <1>3, TimeoutStep, SendDoneStep DEF content, history
<1>4. CASE LoginDone(q)
  <2>1. \/ UNCHANGED <<screen, current, heard>>
        \/ /\ screen' = [screen EXCEPT ![q] = {}] /\ heard' = [heard EXCEPT ![q] = {}]
           /\ current' = IF HeartbeatOpen(q) THEN current \ {q} ELSE current \cup {q}
    BY <1>4, LoginDoneStep DEF content
  <2>2. p # q
    BY <1>4
  <2> HIDE DEF HeartbeatOpen
  <2> QED
    BY <2>1, <2>2 DEF Types, PageTypes
<1>5. CASE Edit(q)
  BY <1>5, EditStep DEF Types, PageTypes
<1>6. CASE LogOut(q) \/ \E n \in Names : FillIn(q, n)
  BY <1>6 DEF LogOut, FillIn, content, history
<1>7. CASE \E n \in Names : Heartbeat(q, n)
  BY <1>7, HeartbeatStep DEF content, history
<1>8. ASSUME NEW n \in Names, News(q, n)
      PROVE  /\ screen[p] \subseteq screen'[p] /\ heard[p] \subseteq heard'[p]
             /\ p \in current' => p \in current
  <2>1. /\ UNCHANGED current
        /\ heard' = [heard EXCEPT ![q] = IF q \in current THEN @ \cup {n} ELSE @]
        /\ \E more : screen' = [screen EXCEPT ![q] = @ \cup more]
    BY <1>8, NewsStep
  <2> QED
    BY <2>1 DEF Types, PageTypes
<1> QED
  BY <1>1, <1>2, <1>3, <1>4, <1>5, <1>6, <1>7, <1>8 DEF ActionOf

(* Nobody has heard anything initially,                                    *)
LEMMA InitFilling == Init => Filling
<1> SUFFICES ASSUME Init, NEW p \in Pages PROVE Filled(p, "document")
  BY DEF Init, Filling
<1>1. /\ last[p] = -1 /\ DOMAIN log = {}
      /\ \A n \in Names : NewsAnswer(p, n) = Server!NoAnswer
  BY DEF Init, Server!Init, NewsAnswer, Requests
<1> QED
  BY <1>1 DEF Filled

(* no step leaves a gap in what has been heard,                            *)
LEMMA NextFilling ==
  ASSUME Types, Types', Filling, [Next]_vars
  PROVE  Filling'
<1>1. CASE UNCHANGED vars
  <2>1. /\ UNCHANGED <<members, log, own, answer, names, last, attached, screen, starts, current, heard>>
        /\ \A p \in Pages : \A n \in Names : NewsAnswer(p, n)' = NewsAnswer(p, n)
    BY <1>1 DEF vars, server, form, content, history, NewsAnswer
  <2>2. LogStays /\ LogTypes'
    BY <2>1 DEF LogStays, LogTypes, Types, ServerTypes
  <2>3. ASSUME NEW p \in Pages, NEW where, Filled(p, where) PROVE Filled(p, where)'
    <3>1. Shown(p, where)' = Shown(p, where)
      BY <2>1 DEF Shown
    <3> QED
      BY <2>1, <2>2, <2>3, <3>1, StaysFilled
  <2> QED
    BY <2>1, <2>3 DEF Filling
<1>2. CASE Restart
  <2>1. starts' > 0 /\ current' = {}
    BY <1>2 DEF Restart, Types, PageTypes
  <2> QED
    BY <2>1 DEF Filling
<1>3. ASSUME ~ Restart, NEW q \in Pages, ActionOf(q) PROVE Filling'
  <2>1. LogStays /\ LogTypes'
    BY <1>3, LogStaysOrRestart DEF Types, ServerTypes, LogTypes
  <2>2. starts' = starts
    <3>1. CASE Quiet(q)
      BY <3>1, ChangesStay
    <3>2. CASE Edit(q) \/ SendTimeout(q)
      BY <3>2, EditStep, TimeoutStep
    <3>3. CASE StartSendChanges(q) \/ SendDone(q)
      BY <3>3, StartStep, SendDoneStep DEF history
    <3>4. CASE Insert(q)
      BY <3>4, InsertStep DEF Insert, history
    <3> QED
      BY <1>3, <3>1, <3>2, <3>3, <3>4 DEF ActionOf, Quiet
  <2> SUFFICES ASSUME NEW p \in Pages
               PROVE  /\ starts' = 0 => Filled(p, "document")'
                      /\ p \in current' => Filled(p, "editor")'
    BY DEF Filling
  <2>3. ASSUME NEW where \in {"document", "editor"}, Filled(p, where),
               where = "editor" => /\ screen[p] \subseteq screen'[p]
                                   /\ heard[p] \subseteq heard'[p] /\ p \in current
        PROVE  Filled(p, where)'
    <3>1. ASSUME NEW n \in Names, Heartbeat(q, n) \/ News(q, n), p # q
          PROVE  Filled(p, where)'
      <4>1. /\ \/ last' = last
               \/ \E m : last' = [last EXCEPT ![q] = m]
            /\ \/ attached' = attached
               \/ \E more : attached' = [attached EXCEPT ![q] = more]
            /\ \/ screen' = screen
               \/ \E more : screen' = [screen EXCEPT ![q] = more]
            /\ UNCHANGED names
            /\ \A d \in Requests : d # <<q, n>> => answer'[d] = answer[d]
        BY <3>1, HeartbeatStep, NewsStep DEF form, content
      <4>2. last'[p] = last[p] /\ attached'[p] = attached[p] /\ screen'[p] = screen[p]
        BY <3>1, <4>1 DEF Types, PageTypes
      <4>3. \A m \in Names : NewsAnswer(p, m)' = NewsAnswer(p, m)
        BY <3>1, <4>1, Distinct DEF NewsAnswer
      <4>4. Shown(p, where)' = Shown(p, where)
        BY <4>2 DEF Shown
      <4> QED
        BY <2>1, <2>3, <4>1, <4>2, <4>3, <4>4, StaysFilled
    <3>2. ASSUME NEW n \in Names, Heartbeat(p, n) \/ News(p, n) PROVE Filled(p, where)'
      BY <2>3, <3>2, HeartbeatFills, NewsFill
    <3>3. ASSUME \A n \in Names : ~ Heartbeat(q, n) /\ ~ News(q, n) PROVE Filled(p, where)'
      BY <1>3, <2>1, <2>3, <3>3, OtherStepsFill
    <3> QED
      BY <3>1, <3>2, <3>3
  <2>4. starts' = 0 => Filled(p, "document")'
    BY <2>2, <2>3 DEF Filling
  <2>5. ASSUME p \in current' PROVE Filled(p, "editor")'
    <3>1. CASE /\ screen[p] \subseteq screen'[p] /\ heard[p] \subseteq heard'[p]
               /\ p \in current
      BY <2>3, <3>1 DEF Filling
    <3>2. CASE LoginDone(q) /\ p = q
      <4>1. CASE UNCHANGED <<content, current, heard>>
        BY <2>5, <3>1, <4>1 DEF content
      <4>2. CASE /\ last' = [last EXCEPT ![p] = -1]
                 /\ current' = IF HeartbeatOpen(p) THEN current \ {p} ELSE current \cup {p}
        <5>1. \A n \in Names : NewsAnswer(p, n) = Server!NoAnswer
          BY <2>5, <4>2 DEF HeartbeatOpen, NewsAnswer
        <5>2. \A n \in Names : NewsAnswer(p, n)' = Server!NoAnswer
          <6>1. \A n \in Names : <<p, n>> \in Requests /\ <<p, n>> # <<q, "login">>
            BY Distinct
          <6> QED
            BY <3>2, <5>1, <6>1, LoginDoneStep DEF NewsAnswer
        <5>3. last'[p] = -1
          BY <4>2 DEF Types, PageTypes
        <5>4. \A i \in DOMAIN log' : ~ (i <= -1)
          BY <2>1 DEF LogTypes
        <5> QED
          BY <5>2, <5>3, <5>4 DEF Filled, Server!NoAnswer
      <4> QED
        BY <3>2, <4>1, <4>2, LoginDoneStep
    <3> QED
      BY <1>3, <2>5, <3>1, <3>2, ScreensGrow
  <2> QED
    BY <2>4, <2>5
<1> QED
  BY <1>1, <1>2, <1>3, NextKinds

(* so there is none.                                                       *)
LEMMA FillingAlways == Spec => []Filling
<1>1. Types /\ Types' /\ Filling /\ [Next]_vars => Filling'
  BY NextFilling
<1> QED
  BY <1>1, TypesAlways, InitFilling, PTL DEF Spec

(* Two timers that share lastReceivedGreatestSeqNum skip nothing: whatever *)
(* has an id up to it and was not sent under one of the page's names is in *)
(* its document, as long as there is no new server process (heartbeat).    *)
THEOREM SharedPositionSkipsNothing == Spec => []NoGap
<1>1. Filling => NoGap
  BY DEF Filling, Filled, NoGap, Shown, Filtered
<1> QED
  BY <1>1, FillingAlways, PTL

(* The editor that a login has emptied is filled again from the log up to  *)
(* the greatest id, also from the log of a new server process, unless a    *)
(* heartbeat was open when the login was answered or a process was started *)
(* later; what was sent under a name may be missing from then on when a    *)
(* heartbeat of that name has been answered since (performTasksForGuest,   *)
(* get_changes).                                                           *)
THEOREM LoginRefillsEditor == Spec => []Refilled
<1>1. ASSUME Types, Filling, NEW p \in current, NEW i \in DOMAIN log, i <= last[p]
      PROVE  \/ log[i] \subseteq screen[p]
             \/ \E n \in heard[p] \cap DOMAIN own : i \in own[n]
  <2>1. Filled(p, "editor")
    BY <1>1 DEF Filling, Types, PageTypes
  <2>2. CASE i \in Filtered(p, "editor")
    BY <2>2 DEF Filtered
  <2>3. CASE i \notin Filtered(p, "editor")
    BY <1>1, <2>1, <2>3 DEF Filled, Shown
  <2> QED
    BY <2>2, <2>3
<1>2. Types /\ Filling => Refilled
  BY <1>1 DEF Refilled
<1> QED
  BY <1>2, TypesAlways, FillingAlways, PTL

-----------------------------------------------------------------------------
(***************************************************************************)
(* What comes back to the page it was made on.                             *)
(***************************************************************************)
(* The pages' names only grow, and the editor's changes are not given back.*)
LEMMA NamesGrow ==
  ASSUME Types, NEW q \in Pages, ActionOf(q)
  PROVE  \/ UNCHANGED names
         \/ names' = [names EXCEPT ![q] = @ \cup asked[q]]
<1>1. CASE LoginAsGuest(q)
  BY <1>1, LoginStep
<1>2. CASE StartSendChanges(q) \/ SendTimeout(q) \/ SendDone(q)
  BY <1>2, StartStep, TimeoutStep, SendDoneStep DEF form
<1>3. CASE LoginDone(q)
  BY <1>3, LoginDoneStep
<1>4. CASE Insert(q)
  BY <1>4, InsertStep DEF Insert, form
<1>5. CASE \E n \in Names : Heartbeat(q, n)
  BY <1>5, HeartbeatStep DEF form
<1>6. CASE \E n \in Names : News(q, n)
  BY <1>6, NewsStep DEF form
<1>7. CASE Edit(q)
  BY <1>7, EditStep DEF form
<1>8. CASE LogOut(q) \/ \E n \in Names : FillIn(q, n)
  BY <1>8 DEF LogOut, FillIn
<1> QED
  BY <1>1, <1>2, <1>3, <1>4, <1>5, <1>6, <1>7, <1>8 DEF ActionOf

(* Attempts and server starts are only added.                              *)
LEMMA TriesGrow ==
  ASSUME Types, [Next]_vars, NEW x \in Changes
  PROVE  /\ tries'[x] \in Nat /\ tries[x] <= tries'[x]
         /\ starts' \in Nat /\ starts <= starts'
<1>1. tries[x] \in Nat /\ starts \in Nat
  BY DEF Types, PageTypes, SendTypes
<1>2. CASE UNCHANGED <<tries, starts>>
  BY <1>1, <1>2
<1>3. CASE Restart
  BY <1>1, <1>3 DEF Restart
<1>4. ASSUME NEW q \in Pages, ActionOf(q)
      PROVE  /\ tries'[x] \in Nat /\ tries[x] <= tries'[x]
         /\ starts' \in Nat /\ starts <= starts'
  <2>1. CASE SendTimeout(q)
    <3>1. UNCHANGED starts
      BY <2>1, TimeoutStep
    <3>2. \/ UNCHANGED tries
          \/ \E r : tries' = [y \in Changes |-> IF y \in r.changes THEN tries[y] + 1
                                                                  ELSE tries[y]]
      BY <2>1, TimeoutStep
    <3> QED
      BY <1>1, <3>1, <3>2
  <2>2. CASE Quiet(q) \/ Edit(q)
    BY <1>2, <2>2, ChangesStay, EditStep
  <2>3. CASE StartSendChanges(q) \/ SendDone(q)
    BY <1>2, <2>3, StartStep, SendDoneStep DEF history
  <2>4. CASE Insert(q)
    BY <1>2, <2>4, InsertStep DEF Insert, history
  <2> QED
    BY <1>4, <2>1, <2>2, <2>3, <2>4 DEF ActionOf, Quiet
<1> QED
  BY <1>2, <1>3, <1>4, NextKinds DEF vars, history

(* A change that is gone stays gone.                                       *)
LEMMA GoneStays ==
  ASSUME Types, Kept, Kept', [Next]_vars, NEW x, Gone(x)
  PROVE  Gone(x)'
<1> DEFINE Nowhere == x \notin pending[typist[x]] /\ IdsOf(x) = {} /\ SendsOf(x) = {}
<1>1. /\ x \in Made /\ x \in Made' /\ typist'[x] = typist[x]
      /\ x \in Changes /\ typist[x] \in Pages
  BY TypistStays, ElementOfSeq DEF Gone, Types, PageTypes, Made
<1>2. /\ starts' > 0 /\ (tries[x] > 0 => tries'[x] > 0)
      /\ tries[x] \in Nat
  BY <1>1, TriesGrow DEF Gone, Types, PageTypes, SendTypes
<1>3. tries'[x] > 0 \/ Nowhere' => Gone(x)'
  BY <1>1, <1>2 DEF Gone
<1>4. SUFFICES ASSUME Nowhere PROVE tries'[x] > 0 \/ Nowhere'
  BY <1>2, <1>3 DEF Gone
<1>5. ASSUME UNCHANGED <<log, pending, posted>> PROVE Nowhere'
  BY <1>1, <1>4, <1>5 DEF IdsOf, SendsOf
<1>6. CASE UNCHANGED vars
  BY <1>5, <1>6 DEF vars, server, sending
<1>7. CASE Restart
  <2>1. DOMAIN log' = {} /\ UNCHANGED pending /\ posted' \subseteq posted
    BY <1>7, RestartAnswers DEF Restart
  <2> QED
    BY <1>1, <1>4, <2>1 DEF IdsOf, SendsOf
<1>8. CASE \E q \in Pages : Edit(q)
  <2>1. PICK q \in Pages : Edit(q)
    BY <1>8
  <2>2. PICK y : y \notin Made /\ pending' = [pending EXCEPT ![q] = @ \cup {y}]
    BY <2>1, EditStep
  <2>3. x \notin pending'[typist'[x]]
    BY <1>1, <1>4, <2>2 DEF Types, SendTypes
  <2>4. UNCHANGED <<log, posted>>
    BY <2>1, EditStep DEF server
  <2> QED
    BY <1>4, <2>3, <2>4 DEF IdsOf, SendsOf
<1>9. CASE \E q \in Pages : StartSendChanges(q)
  <2>1. PICK q \in Pages : StartSendChanges(q)
    BY <1>9
  <2>2. PICK r : /\ r.changes = pending[q]
                 /\ posted' = posted \cup {r}
    BY <2>1, StartStep
  <2>3. pending' = [pending EXCEPT ![q] = {}] /\ UNCHANGED log
    BY <2>1, StartStep DEF server
  <2>4. x \notin r.changes
    BY <1>4, <2>2 DEF Kept
  <2>5. x \notin pending'[typist'[x]]
    BY <1>1, <1>4, <2>3 DEF Types, SendTypes
  <2> QED
    BY <1>4, <2>2, <2>3, <2>4, <2>5 DEF IdsOf, SendsOf
<1>10. CASE \E q \in Pages : Insert(q)
  <2>1. PICK q \in Pages, r \in posted : r.page = q /\ InsertText(r)
    BY <1>10 DEF Insert
  <2>2. PICK k : /\ LogStays /\ UNCHANGED pending /\ posted' = posted \ {r}
                 /\ DOMAIN log' = DOMAIN log \cup {k} /\ log'[k] = r.changes
    BY <2>1, InsertStep
  <2>3. x \notin r.changes
    BY <1>4, <2>1 DEF SendsOf
  <2>4. IdsOf(x)' = {}
    BY <1>4, <2>2, <2>3 DEF IdsOf, LogStays
  <2> QED
    BY <1>1, <1>4, <2>2, <2>4 DEF SendsOf
<1>11. CASE \E q \in Pages : SendTimeout(q)
  <2>1. PICK q \in Pages : SendTimeout(q)
    BY <1>11
  <2>2. UNCHANGED <<log, pending>>
    BY <2>1, TimeoutStep
  <2>3. PICK r : \/ /\ posted' = posted \cup {r}
                    /\ tries' = [y \in Changes |-> IF y \in r.changes THEN tries[y] + 1
                                                                    ELSE tries[y]]
                 \/ posted' = posted
    BY <2>1, TimeoutStep
  <2>4. CASE posted' = posted
    BY <1>5, <2>2, <2>4
  <2>5. CASE posted' = posted \cup {r} /\ x \notin r.changes
    BY <1>1, <1>4, <2>2, <2>5 DEF IdsOf, SendsOf
  <2>6. CASE x \in r.changes /\ posted' # posted
    BY <1>1, <1>2, <2>3, <2>6
  <2> QED
    BY <2>3, <2>4, <2>5, <2>6
<1>12. CASE \E q \in Pages : SendDone(q)
  BY <1>5, <1>12, SendDoneStep
<1>13. CASE \E q \in Pages : Quiet(q)
  BY <1>5, <1>13, ChangesStay DEF sending
<1> HIDE DEF Nowhere
<1> QED
  BY <1>6, <1>7, <1>8, <1>9, <1>10, <1>11, <1>12, <1>13, NextKinds DEF ActionOf, Quiet

(* A new server process takes all that was logged, but for repeated sends. *)
LEMMA RestartTakes ==
  ASSUME Types, Kept, Restart, NEW x, x \in Logged
  PROVE  Gone(x)'
<1>1. x \in Made /\ IdsOf(x) # {}
  BY DEF Logged, Kept, IdsOf
<1>2. /\ IsFiniteSet(IdsOf(x)) /\ IsFiniteSet(SendsOf(x))
      /\ Cardinality(IdsOf(x)) \in Nat /\ Cardinality(SendsOf(x)) \in Nat
  BY PlacesFinite, <1>1
<1>3. Cardinality(IdsOf(x)) # 0
  BY <1>1, <1>2, FS_EmptySet
<1>4. Cardinality(IdsOf(x)) + Cardinality(SendsOf(x)) <= 1 + tries[x] /\ tries[x] \in Nat
  BY <1>1 DEF Kept, Types, PageTypes, SendTypes
<1>5. tries[x] > 0 \/ SendsOf(x) = {}
  <2>1. tries[x] > 0 \/ Cardinality(SendsOf(x)) = 0
    BY <1>2, <1>3, <1>4
  <2> QED
    BY <1>2, <2>1, FS_EmptySet
<1>6. x \notin pending[typist[x]]
  BY <1>1 DEF Kept
<1>7. /\ DOMAIN log' = {} /\ starts' > 0 /\ UNCHANGED <<pending, typist, tries>>
      /\ posted' \subseteq posted
  BY RestartAnswers DEF Restart, Types, PageTypes
<1>8. IdsOf(x)' = {} /\ SendsOf(x)' \subseteq SendsOf(x) /\ x \in Made'
  BY <1>1, <1>7 DEF IdsOf, SendsOf, Made
<1> QED
  BY <1>5, <1>6, <1>7, <1>8 DEF Gone

(* What explains a change in a document explains it after any step.        *)
LEMMA ExplainedStays ==
  ASSUME Types, Kept, Kept', [Next]_vars, NEW p \in Pages, NEW x \in Made,
         Explained(p, x), names[p] # {}
  PROVE  Explained(p, x)'
<1>1. Gone(x) => Gone(x)'
  BY GoneStays
<1>2. typist'[x] = typist[x]
  BY TypistStays
<1>3. names[p] \subseteq names'[p]
  <2>1. CASE UNCHANGED names
    BY <2>1
  <2>2. CASE \E q \in Pages : names' = [names EXCEPT ![q] = @ \cup asked[q]]
    BY <2>2 DEF Types, PageTypes
  <2> QED
    BY <2>1, <2>2, NamesGrow, NextKinds DEF vars, form, Restart
<1>4. CASE Unowned(p, x)
  <2>1. CASE Restart
    BY <1>4, <2>1, RestartTakes DEF Unowned, Logged, Explained
  <2>2. CASE names'[p] = names[p] /\ LogStays
    <3>1. PICK i \in DOMAIN log \ OwnIds(p) : x \in log[i]
      BY <1>4 DEF Unowned
    <3>2. i \in DOMAIN log' /\ log'[i] = log[i] /\ i \notin OwnIds(p)'
      BY <2>2, <3>1 DEF LogStays, OwnIds
    <3> QED
      BY <3>1, <3>2 DEF Unowned, Explained
  <2>3. CASE names'[p] # names[p]
    <3>1. PICK n \in names'[p] : n \notin names[p]
      BY <1>3, <2>3
    <3> QED
      BY <1>3, <3>1 DEF Explained
  <2> QED
    BY <2>1, <2>2, <2>3, LogStaysOrRestart
<1> QED
  BY <1>1, <1>2, <1>3, <1>4 DEF Explained

(* What explains a change in an answer explains it after any step.         *)
LEMMA FetchedStays ==
  ASSUME Types, Kept, Kept', [Next]_vars, NEW n \in Names, NEW t, NEW x, Fetched(n, t, x)
  PROVE  Fetched(n, t, x)'
<1>1. Gone(x) => Gone(x)'
  BY GoneStays
<1>2. CASE /\ t[1] \in DOMAIN log /\ x \in log[t[1]]
           /\ n \in DOMAIN own => t[1] \notin own[n]
  <2>1. CASE Restart
    BY <1>2, <2>1, RestartTakes DEF Logged, Fetched
  <2>2. CASE LogStays
    BY <1>2, <2>2 DEF LogStays, Fetched
  <2> QED
    BY <2>1, <2>2, LogStaysOrRestart
<1> QED
  BY <1>1, <1>2 DEF Fetched

(* The steps that bring a document nothing and fetch nothing.              *)
LEMMA DocumentStays ==
  ASSUME Types, NEW p \in Pages, NEW q \in Pages, ActionOf(q),
         \/ p # q
         \/ \A n \in Names : ~ Heartbeat(q, n) /\ ~ News(q, n)
  PROVE  /\ attached'[p] = attached[p]
         /\ \A n \in Names : NewsAnswer(p, n)' = NewsAnswer(p, n)
<1>1. ASSUME NEW kind \in {"login", "send"},
             \A d \in Requests : d # <<q, kind>> => answer'[d] = answer[d]
      PROVE  \A n \in Names : NewsAnswer(p, n)' = NewsAnswer(p, n)
  <2>1. \A n \in Names : <<p, n>> \in Requests /\ <<p, n>> # <<q, kind>>
    BY Distinct
  <2> QED
    BY <1>1, <2>1 DEF NewsAnswer
<1>2. CASE LoginAsGuest(q)
  BY <1>1, <1>2, LoginStep DEF content
<1>3. CASE StartSendChanges(q)
  BY <1>3, StartStep DEF server, content, NewsAnswer
<1>4. CASE LoginDone(q)
  BY <1>1, <1>4, LoginDoneStep
<1>5. CASE SendTimeout(q) \/ SendDone(q)
  BY <1>1, <1>5, TimeoutStep, SendDoneStep DEF content
<1>9. CASE Insert(q)
  BY <1>1, <1>9, InsertStep DEF Insert, content
<1>6. CASE Edit(q)
  BY <1>6, EditStep DEF server, NewsAnswer
<1>7. CASE LogOut(q) \/ \E n \in Names : FillIn(q, n)
  BY <1>7 DEF LogOut, FillIn, server, content, NewsAnswer
<1>8. ASSUME NEW n \in Names, Heartbeat(q, n) \/ News(q, n), p # q
      PROVE  /\ attached'[p] = attached[p]
             /\ \A m \in Names : NewsAnswer(p, m)' = NewsAnswer(p, m)
  <2>1. /\ \/ attached' = attached
           \/ \E more : attached' = [attached EXCEPT ![q] = more]
        /\ \A d \in Requests : d # <<q, n>> => answer'[d] = answer[d]
    BY <1>8, HeartbeatStep, NewsStep DEF content
  <2>2. attached'[p] = attached[p]
    BY <1>8, <2>1 DEF Types, PageTypes
  <2>3. \A m \in Names : NewsAnswer(p, m)' = NewsAnswer(p, m)
    BY <1>8, <2>1, Distinct DEF NewsAnswer
  <2> QED
    BY <2>2, <2>3
<1> QED
  BY <1>2, <1>3, <1>4, <1>5, <1>6, <1>7, <1>8, <1>9 DEF ActionOf

(* Initially there is nothing to explain,                                  *)
LEMMA InitEchoes == Init => Echoes
BY DEF Init, Server!Init, Echoes, NewsAnswer, Requests, Server!NoAnswer

(* every step explains what it brings,                                     *)
LEMMA NextEchoes ==
  ASSUME Types, Types', Kept, Kept', Echoes, [Next]_vars
  PROVE  Echoes'
<1> DEFINE Document(p) ==
             /\ attached'[p] \subseteq Made'
             /\ attached'[p] # {} => names'[p] # {}
             /\ \A x \in attached'[p] : Explained(p, x)'
           Answered(p, n) ==
             NewsAnswer(p, n)' # Server!NoAnswer =>
               \A t \in NewsAnswer(p, n)'.transactions : \A x \in t[2] : Fetched(n, t, x)'
<1>1. SUFFICES ASSUME NEW p \in Pages
               PROVE  Document(p) /\ \A n \in Names : Answered(p, n)
  BY <1>1 DEF Echoes, Server!NoAnswer
<1>2. Made \subseteq Made'
  BY TypistStays
<1>3. names[p] \subseteq names'[p]
  <2>1. CASE UNCHANGED names
    BY <2>1
  <2>2. CASE \E q \in Pages : names' = [names EXCEPT ![q] = @ \cup asked[q]]
    BY <2>2 DEF Types, PageTypes
  <2> QED
    BY <2>1, <2>2, NamesGrow, NextKinds DEF vars, form, Restart
<1>4. \A x \in attached[p] : Explained(p, x)'
  BY ExplainedStays DEF Echoes
<1>5. ASSUME attached'[p] = attached[p] PROVE Document(p)
  BY <1>2, <1>3, <1>4, <1>5 DEF Echoes
<1>6. ASSUME NEW n \in Names, NewsAnswer(p, n)' = NewsAnswer(p, n) PROVE Answered(p, n)
  <2> SUFFICES ASSUME NewsAnswer(p, n)' # Server!NoAnswer,
                      NEW t \in NewsAnswer(p, n)'.transactions, NEW x \in t[2]
               PROVE  Fetched(n, t, x)'
    OBVIOUS
  <2>1. Fetched(n, t, x)
    BY <1>6 DEF Echoes, Server!NoAnswer
  <2> QED
    BY <2>1, FetchedStays
<1>7. ASSUME NEW n \in Names, NewsAnswer(p, n)' = Server!NoAnswer PROVE Answered(p, n)
  BY <1>7 DEF Server!NoAnswer
<1>8. CASE UNCHANGED vars \/ Restart
  <2>1. UNCHANGED attached
    BY <1>8 DEF vars, content, Restart
  <2>2. \A n \in Names : NewsAnswer(p, n)' = NewsAnswer(p, n)
    BY <1>8, RestartAnswers DEF vars, server, NewsAnswer
  <2> HIDE DEF Document, Answered
  <2> QED
    BY <1>5, <1>6, <2>1, <2>2
<1>9. ASSUME NEW q \in Pages, ActionOf(q) PROVE Document(p) /\ \A n \in Names : Answered(p, n)
  <2>1. ASSUME NEW n \in Names, Heartbeat(p, n)
        PROVE  Document(p) /\ \A m \in Names : Answered(p, m)
    <3> DEFINE got == {<<i, log[i]>> : i \in {k \in DOMAIN log : k > last[p]} \ own[n]}
    <3>1. /\ UNCHANGED <<log, own, attached>>
          /\ \A d \in Requests : d # <<p, n>> => answer'[d] = answer[d]
          /\ answer'[<<p, n>>].transactions = got
      BY <2>1, HeartbeatStep DEF content
    <3>2. \A m \in Names : m # n => NewsAnswer(p, m)' = NewsAnswer(p, m)
      BY <3>1, Distinct DEF NewsAnswer
    <3>3. \A t \in got : t[1] \in DOMAIN log /\ t[2] = log[t[1]] /\ t[1] \notin own[n]
      OBVIOUS
    <3> HIDE DEF got
    <3>4. Answered(p, n)
      BY <3>1, <3>3 DEF Fetched, NewsAnswer
    <3> HIDE DEF Document, Answered
    <3> QED
      BY <1>5, <1>6, <3>1, <3>2, <3>4
  <2>2. ASSUME NEW n \in Names, News(p, n)
        PROVE  Document(p) /\ \A m \in Names : Answered(p, m)
    <3> DEFINE got == answer[<<p, n>>].transactions
               changes == UNION {t[2] : t \in got}
    <3>1. /\ UNCHANGED <<log, own, form, typist>>
          /\ \A d \in Requests : d # <<p, n>> => answer'[d] = answer[d]
          /\ NewsAnswer(p, n) # Server!NoAnswer
          /\ answer'[<<p, n>>] = Server!NoAnswer
          /\ attached' = [attached EXCEPT ![p] = @ \cup changes]
      BY <2>2, NewsStep DEF NewsAnswer
    <3>2. attached'[p] = attached[p] \cup changes
      BY <3>1 DEF Types, PageTypes
    <3>3. n \in names[p] /\ UNCHANGED <<names, typist, log, own>>
      BY <3>1 DEF Types, ServerTypes, form
    <3>4. \A t \in got : \A x \in t[2] : Fetched(n, t, x)
      BY <3>1 DEF Echoes, NewsAnswer
    <3>5. ASSUME NEW t \in got, NEW x \in t[2] PROVE x \in Made /\ Explained(p, x)
      <4>1. x \in Made
        BY <3>4 DEF Fetched, Gone, Kept
      <4>2. CASE Gone(x)
        BY <4>1, <4>2 DEF Explained
      <4>3. CASE /\ t[1] \in DOMAIN log /\ x \in log[t[1]]
                 /\ n \in DOMAIN own => t[1] \notin own[n]
        <5>1. CASE names[p] = {n}
          <6>1. t[1] \notin OwnIds(p)
            BY <4>3, <5>1 DEF OwnIds
          <6> QED
            BY <4>1, <4>3, <6>1 DEF Unowned, Explained
        <5>2. CASE names[p] # {n}
          <6>1. PICK m \in names[p] : m # n
            BY <3>3, <5>2
          <6> QED
            BY <3>3, <4>1, <6>1 DEF Explained
        <5> QED
          BY <5>1, <5>2
      <4> QED
        BY <3>4, <4>2, <4>3 DEF Fetched
    <3>6. \A x \in changes : x \in Made /\ Explained(p, x)
      BY <3>5
    <3>7. \A x \in changes : Explained(p, x)'
      BY <3>3, <3>6, ExplainedStays
    <3>8. Document(p)
      <4> HIDE DEF changes
      <4> QED
        BY <1>2, <1>3, <1>4, <3>2, <3>3, <3>6, <3>7 DEF Echoes
    <3>9. \A m \in Names : m # n => NewsAnswer(p, m)' = NewsAnswer(p, m)
      BY <3>1, Distinct DEF NewsAnswer
    <3> HIDE DEF Document, Answered, got, changes
    <3>10. NewsAnswer(p, n)' = Server!NoAnswer
      BY <3>1 DEF NewsAnswer
    <3> QED
      BY <1>6, <1>7, <3>8, <3>9, <3>10
  <2>3. CASE p # q \/ \A n \in Names : ~ Heartbeat(q, n) /\ ~ News(q, n)
    <3>1. /\ attached'[p] = attached[p]
          /\ \A n \in Names : NewsAnswer(p, n)' = NewsAnswer(p, n)
      BY <1>9, <2>3, DocumentStays
    <3> HIDE DEF Document, Answered
    <3> QED
      BY <1>5, <1>6, <3>1
  <2> HIDE DEF Document, Answered
  <2> QED
    BY <2>1, <2>2, <2>3
<1> HIDE DEF Document, Answered
<1> QED
  BY <1>8, <1>9, NextKinds

(* so all that is there is explained.                                      *)
LEMMA EchoesAlways == Spec => []Echoes
<1>1. Types /\ Types' /\ Kept /\ Kept' /\ Echoes /\ [Next]_vars => Echoes'
  BY NextEchoes
<1> QED
  BY <1>1, TypesAlways, KeptAlways, InitEchoes, PTL DEF Spec

(* A page gets a change of its own back only after a second login, or if it*)
(* was sent under a name the page is not logged in with, or if a new server*)
(* process took the log it was in, or one was started and the send of the  *)
(* change was repeated (heartbeat, get_changes, the retries).              *)
THEOREM EchoesHaveReasons == Spec => []EchoExplained
<1>1. Types /\ Echoes => EchoExplained
  <2> SUFFICES ASSUME Types, Echoes, NEW p \in Pages, NEW x \in attached[p], typist[x] = p
               PROVE  \/ Cardinality(names[p]) > 1
                      \/ \E i \in DOMAIN log \ OwnIds(p) : x \in log[i]
                      \/ starts > 0 /\ (x \notin Logged \/ tries[x] > 0)
    BY DEF EchoExplained
  <2>1. CASE \E n, m \in names[p] : n # m
    <3>1. PICK n \in names[p] : \E m \in names[p] : n # m
      BY <2>1
    <3>2. PICK m \in names[p] : n # m
      BY <3>1
    <3>3. Cardinality({n} \cup {m}) = 2
      <4>1. IsFiniteSet({n}) /\ Cardinality({n}) = 1
        BY FS_Singleton
      <4>2. Cardinality({n} \cup {m}) = IF m \in {n} THEN Cardinality({n}) ELSE Cardinality({n}) + 1
        BY <4>1, FS_AddElement
      <4> QED
        BY <3>2, <4>1, <4>2
    <3>4. IsFiniteSet(names[p]) /\ {n} \cup {m} \subseteq names[p]
      BY DEF Types, PageTypes
    <3>5. Cardinality({n} \cup {m}) <= Cardinality(names[p])
      BY <3>4, FS_Subset
    <3>6. Cardinality(names[p]) \in Nat
      BY <3>4, FS_CardinalityType
    <3>7. Cardinality(names[p]) > 1
      BY <3>3, <3>5, <3>6
    <3> QED
      BY <3>7
  <2>2. CASE Gone(x)
    BY <2>2 DEF Gone, IdsOf, Logged
  <2> QED
    BY <2>1, <2>2 DEF Echoes, Explained, Unowned
<1> QED
  BY <1>1, TypesAlways, EchoesAlways, PTL
=============================================================================
