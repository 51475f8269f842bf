---------------------------- MODULE ColabProofs -----------------------------
(***************************************************************************)
(* What stays true of the documents of module Colab for any number of      *)
(* guests, edits and heartbeats.                                           *)
(***************************************************************************)
EXTENDS Colab, PpsProofs

-----------------------------------------------------------------------------
(***************************************************************************)
(* The inductive invariants.                                               *)
(***************************************************************************)
Calls == Guests \X {"login", "send", "heartbeat"}

(* The server's part: ids are 1..size, own ids are ids.                    *)
LogTypes ==
  /\ DOMAIN own = DOMAIN members /\ DOMAIN members \subseteq Guests
  /\ Cardinality(DOMAIN log) \in Nat
  /\ DOMAIN log = 1..Cardinality(DOMAIN log)
  /\ \A n \in DOMAIN own : own[n] \subseteq DOMAIN log
  /\ answer = [c \in Calls |-> answer[c]]

(* The pages' part.                                                        *)
PageTypes ==
  /\ stage = [g \in Guests |-> stage[g]]
  /\ doc = [g \in Guests |-> doc[g]] /\ \A g \in Guests : Mapped(doc[g])
  /\ clip = [g \in Guests |-> clip[g]]
  /\ pending = [g \in Guests |-> pending[g]]
  /\ sent = [g \in Guests |-> sent[g]]

Types == LogTypes /\ PageTypes

(* Only guests that are registered get as far as to edit.                  *)
Joining ==
  \A g \in Guests :
    /\ answer[<<g, "login">>] # Server!NoAnswer => g \in DOMAIN own
    /\ stage[g] = "in" => g \in DOMAIN own
    /\ clip[g] # NoPaste => g \in DOMAIN own
    /\ answer[<<g, "heartbeat">>] # Server!NoAnswer => g \in DOMAIN own

(* Where the newest change of tag t made on page g is, and that v is its   *)
(* character.                                                              *)
NewestLogged(g, t, i) ==
  /\ i \in own[g] /\ t \in DOMAIN log[i]
  /\ \A j \in own[g] : t \in DOMAIN log[j] => j <= i
Booked(g, t, v) ==
  /\ g \in DOMAIN own
  /\ IF t \in DOMAIN pending[g] THEN v = pending[g][t]
     ELSE IF t \in DOMAIN sent[g] THEN v = sent[g][t]
     ELSE \E i \in own[g] : NewestLogged(g, t, i) /\ v = log[i][t]

(* A request that has been answered is the last of the page's own in the   *)
(* log.                                                                    *)
SentLast ==
  \A g \in Guests : answer[<<g, "send">>] # Server!NoAnswer =>
    /\ g \in DOMAIN own /\ sent[g] # NoChange
    /\ \E i \in own[g] : log[i] = sent[g] /\ \A j \in own[g] : j <= i

Booking ==
  \A g \in Guests : \A t \in DOMAIN doc[g].ack \ {NullTag} :
    ~ doc[g].ack[t] => Booked(g, t, doc[g].ch[t])

(* A request has finitely many changes, and so has an answer.              *)
Finite ==
  /\ \A g \in Guests : IsFiniteSet(DOMAIN pending[g]) /\ IsFiniteSet(DOMAIN sent[g])
  /\ \A i \in DOMAIN log : IsFiniteSet(DOMAIN log[i])
  /\ \A g \in Guests : answer[<<g, "heartbeat">>] # Server!NoAnswer =>
       /\ IsFiniteSet(answer[<<g, "heartbeat">>].transactions)
       /\ \A tr \in answer[<<g, "heartbeat">>].transactions : IsFiniteSet(DOMAIN tr[2])

-----------------------------------------------------------------------------
(***************************************************************************)
(* Requests and answers.                                                   *)
(***************************************************************************)
LEMMA SameSize ==
  \A S : Server!Cardinality(S) = Cardinality(S)
BY Zenon DEF Server!Cardinality, Cardinality

(* An answer is given to one request and leaves the others alone, ...      *)
LEMMA Gives ==
  ASSUME LogTypes, NEW c \in Calls, NEW a, Server!Give(c, a)
  PROVE  /\ answer[c] = Server!NoAnswer /\ answer'[c] = a
         /\ answer' = [d \in Calls |-> answer'[d]]
         /\ \A d \in Calls : d # c => answer'[d] = answer[d]
BY DEF LogTypes, Server!Give

(* ... and is collected once.                                              *)
LEMMA Collects ==
  ASSUME LogTypes, NEW c \in Calls, Server!Collect(c)
  PROVE  /\ answer[c] # Server!NoAnswer /\ answer'[c] = Server!NoAnswer
         /\ answer' = [d \in Calls |-> answer'[d]]
         /\ \A d \in Calls : d # c => answer'[d] = answer[d]
         /\ UNCHANGED <<members, log, own>>
BY DEF LogTypes, Server!Collect

(* A guest registers: nobody else's lists change.                          *)
LEMMA LoginStep ==
  ASSUME Types, NEW g \in Guests, Login(g)
  PROVE  /\ LogTypes' /\ UNCHANGED <<log, stage, doc, text, clip, pending, sent, last, told, history>>
         /\ g \notin DOMAIN own /\ DOMAIN own' = DOMAIN own \cup {g}
         /\ \A h \in DOMAIN own : own'[h] = own[h]
         /\ \A d \in Calls : d # <<g, "login">> => answer'[d] = answer[d]
<1> DEFINE c == <<g, "login">>
<1>1. c \in Calls /\ \E a : Server!Give(c, a)
  BY DEF Login, Server!Register, Calls
<1>2. /\ answer' = [d \in Calls |-> answer'[d]]
      /\ \A d \in Calls : d # c => answer'[d] = answer[d]
  BY <1>1, Gives DEF Types
<1>3. /\ UNCHANGED <<log, stage, doc, text, clip, pending, sent, last, told, history>>
      /\ g \notin DOMAIN members
      /\ DOMAIN members' = DOMAIN members \cup {g}
      /\ DOMAIN own' = DOMAIN own \cup {g}
      /\ \A h \in DOMAIN own' : own'[h] = IF h = g THEN {} ELSE own[h]
  BY DEF Login, Server!Register, Server!With
<1>4. LogTypes'
  BY <1>2, <1>3 DEF Types, LogTypes
<1> QED
  BY <1>2, <1>3, <1>4 DEF Types, LogTypes

(* The changes in a request are logged under the next id.                  *)
LEMMA LoggedStep ==
  ASSUME Types, NEW g \in Guests, Logged(g)
  PROVE  /\ LogTypes' /\ UNCHANGED <<stage, doc, text, clip, pending, sent, last, told, history>>
         /\ g \in DOMAIN own /\ DOMAIN own' = DOMAIN own
         /\ answer[<<g, "send">>] = Server!NoAnswer
         /\ \A d \in Calls : d # <<g, "send">> => answer'[d] = answer[d]
         /\ \E i \in Nat :
              /\ i \notin DOMAIN log /\ \A j \in DOMAIN log : j <= i
              /\ DOMAIN log' = DOMAIN log \cup {i} /\ log'[i] = sent[g]
              /\ \A j \in DOMAIN log : log'[j] = log[j]
              /\ \A h \in DOMAIN own : own'[h] = IF h = g THEN own[h] \cup {i} ELSE own[h]
<1> DEFINE c == <<g, "send">>   size == Cardinality(DOMAIN log)   i == size + 1
<1>1. /\ c \in Calls /\ Server!Publish(c, g, sent[g])
      /\ UNCHANGED <<stage, doc, text, clip, pending, sent, last, told, history>>
  BY DEF Logged, Calls
<1>2. \E a : Server!Give(c, a)
  BY <1>1 DEF Server!Publish
<1>3. /\ answer[c] = Server!NoAnswer
      /\ answer' = [d \in Calls |-> answer'[d]]
      /\ \A d \in Calls : d # c => answer'[d] = answer[d]
  BY <1>1, <1>2, Gives DEF Types
<1>4. /\ g \in DOMAIN members /\ UNCHANGED members
      /\ log' = Server!With(log, i, sent[g])
      /\ own' = [own EXCEPT ![g] = @ \cup {i}]
  BY <1>1, SameSize DEF Server!Publish
<1>5. size \in Nat /\ DOMAIN log = 1..size
  BY DEF Types, LogTypes
<1>6. /\ DOMAIN log' = DOMAIN log \cup {i} /\ log'[i] = sent[g]
      /\ \A j \in DOMAIN log : log'[j] = log[j]
  BY <1>4, <1>5 DEF Server!With
<1>7. DOMAIN log' = 1..i /\ Cardinality(1..i) = i
  <2>1. DOMAIN log' = 1..i
    BY <1>5, <1>6
  <2>2. i \in Int /\ i >= 1 /\ i - 1 + 1 = i
    BY <1>5
  <2> HIDE DEF i
  <2>3. Cardinality(1..i) = i
    BY <2>2, FS_Interval
  <2> QED
    BY <2>1, <2>3
<1>8. /\ g \in DOMAIN own /\ DOMAIN own' = DOMAIN own
      /\ \A h \in DOMAIN own : own'[h] = IF h = g THEN own[h] \cup {i} ELSE own[h]
  BY <1>4 DEF Types, LogTypes
<1>9. i \in Nat /\ i \notin DOMAIN log /\ \A j \in DOMAIN log : j <= i
  BY <1>5
<1>10. LogTypes'
  <2>1. DOMAIN own' = DOMAIN members' /\ DOMAIN members' \subseteq Guests
    BY <1>4, <1>8 DEF Types, LogTypes
  <2>2. Cardinality(DOMAIN log') \in Nat /\ DOMAIN log' = 1..Cardinality(DOMAIN log')
    BY <1>5, <1>7
  <2>3. \A n \in DOMAIN own' : own'[n] \subseteq DOMAIN log'
    BY <1>6, <1>8 DEF Types, LogTypes
  <2> QED
    BY <1>3, <2>1, <2>2, <2>3 DEF LogTypes
<1> HIDE DEF size, i
<1> QED
  BY <1>1, <1>3, <1>6, <1>8, <1>9, <1>10

(* All other steps leave the registry and the log alone.                   *)
LEMMA OtherStep ==
  ASSUME Types, NEW g \in Guests,
         \/ PasteText(g) \/ Load(g) \/ Joined(g)
         \/ Type(g) \/ Paste(g) \/ Erase(g) \/ DeleteKey(g)
         \/ Send(g) \/ Acknowledged(g) \/ Heartbeat(g) \/ News(g)
  PROVE  /\ LogTypes' /\ UNCHANGED <<members, log, own>>
         /\ \A d \in Calls : \/ answer'[d] = answer[d]
                             \/ answer'[d] = Server!NoAnswer
                             \/ (d = <<g, "heartbeat">> /\ Heartbeat(g))
<1>1. ASSUME UNCHANGED server
      PROVE  /\ LogTypes' /\ UNCHANGED <<members, log, own>>
             /\ \A d \in Calls : answer'[d] = answer[d]
  BY <1>1 DEF server, Types, LogTypes
<1>2. ASSUME NEW c \in Calls, Server!Collect(c)
      PROVE  /\ LogTypes' /\ UNCHANGED <<members, log, own>>
             /\ \A d \in Calls : answer'[d] = answer[d] \/ answer'[d] = Server!NoAnswer
  <2>1. /\ UNCHANGED <<members, log, own>>
        /\ answer' = [d \in Calls |-> answer'[d]]
        /\ answer'[c] = Server!NoAnswer
        /\ \A d \in Calls : d # c => answer'[d] = answer[d]
    BY <1>2, Collects DEF Types
  <2> QED
    BY <2>1 DEF Types, LogTypes
<1>3. CASE PasteText(g) \/ Load(g) \/ Type(g) \/ Paste(g) \/ Erase(g) \/ DeleteKey(g) \/ Send(g)
  <2>1. UNCHANGED server
    BY <1>3 DEF PasteText, Load, Type, Paste, Erase, DeleteKey, Send
  <2> QED
    BY <1>1, <2>1
<1>4. CASE Joined(g)
  BY <1>2, <1>4 DEF Joined, Calls
<1>5. CASE Acknowledged(g)
  BY <1>2, <1>5 DEF Acknowledged, Calls
<1>6. CASE News(g)
  BY <1>2, <1>6 DEF News, Calls
<1>7. CASE Heartbeat(g)
  <2>1. /\ <<g, "heartbeat">> \in Calls /\ UNCHANGED <<members, log, own>>
        /\ \E a : Server!Give(<<g, "heartbeat">>, a)
    BY <1>7 DEF Heartbeat, Server!Poll, Calls
  <2>2. /\ answer' = [d \in Calls |-> answer'[d]]
        /\ \A d \in Calls : d # <<g, "heartbeat">> => answer'[d] = answer[d]
    BY <2>1, Gives DEF Types
  <2> QED
    BY <1>7, <2>1, <2>2 DEF Types, LogTypes
<1> QED
  BY <1>3, <1>4, <1>5, <1>6, <1>7

-----------------------------------------------------------------------------
(***************************************************************************)
(* The steps of a page.                                                    *)
(***************************************************************************)
(* The other pages stay as they are.                                       *)
Alone(g) ==
  /\ doc' = [h \in Guests |-> doc'[h]] /\ pending' = [h \in Guests |-> pending'[h]]
  /\ \A h \in Guests \ {g} : doc'[h] = doc[h] /\ pending'[h] = pending[h]

(* A step that notes what it changes.                                      *)
Notes(g) ==
  /\ Alone(g) /\ Mapped(doc'[g]) /\ IsFiniteSet(DOMAIN pending'[g])
  /\ Noted(doc[g], doc'[g], pending[g], pending'[g])

(* A map stays finite when it is set at one more place.                    *)
LEMMA SetFinite ==
  ASSUME NEW m, IsFiniteSet(DOMAIN m), NEW t, NEW v
  PROVE  IsFiniteSet(DOMAIN MapSet(m, t, v))
<1>1. DOMAIN MapSet(m, t, v) = DOMAIN m \cup {t}
  BY DEF MapSet
<1> QED
  BY <1>1, FS_AddElement

(* insertText and pasteText.                                               *)
LEMMA MintNotes ==
  ASSUME Types, Finite, NEW g \in Guests, NEW pos, NEW c, NEW also,
         Mint(g, pos, c, also) \/ NoteNull(g, pos, c, also) \/ NoteNothing(g, pos, also)
  PROVE  Notes(g)
<1>1. /\ doc = [h \in Guests |-> doc[h]] /\ pending = [h \in Guests |-> pending[h]]
      /\ Mapped(doc[g]) /\ IsFiniteSet(DOMAIN pending[g])
  BY DEF Types, PageTypes, Finite
<1>2. CASE Mint(g, pos, c, also)
  <2>1. PICK t : /\ doc' = [doc EXCEPT ![g] = Add(doc[g], t, c)]
                 /\ pending' = [pending EXCEPT ![g] = MapSet(pending[g], t, c)]
    BY <1>2 DEF Mint
  <2>2. Alone(g) /\ doc'[g] = Add(doc[g], t, c) /\ pending'[g] = MapSet(pending[g], t, c)
    BY <1>1, <2>1 DEF Alone
  <2> QED
    BY <1>1, <2>2, AddNotes, SetFinite DEF Notes
<1>3. CASE NoteNull(g, pos, c, also)
  <2>1. Alone(g) /\ doc'[g] = doc[g] /\ pending'[g] = MapSet(pending[g], NullTag, c)
    BY <1>1, <1>3 DEF NoteNull, Alone
  <2> QED
    BY <1>1, <2>1, NullNotes, SetFinite DEF Notes
<1>4. CASE NoteNothing(g, pos, also)
  <2>1. Alone(g) /\ doc'[g] = doc[g] /\ pending'[g] = pending[g]
    BY <1>1, <1>4 DEF NoteNothing, Alone
  <2>2. Overtaken(doc[g], doc[g])
    BY DEF Overtaken
  <2> QED
    BY <1>1, <2>1, <2>2, OvertakenNotes DEF Notes
<1> QED
  BY <1>2, <1>3, <1>4

(* deleteText.                                                             *)
LEMMA EraseNotes ==
  ASSUME Types, Finite, NEW g \in Guests, Erase(g)
  PROVE  Notes(g)
<1>1. /\ doc = [h \in Guests |-> doc[h]] /\ pending = [h \in Guests |-> pending[h]]
      /\ Mapped(doc[g]) /\ IsFiniteSet(DOMAIN pending[g])
  BY DEF Types, PageTypes, Finite
<1> DEFINE Gone(from, to) ==
      {DeleteTag(doc[g], p) : p \in {q \in (from + 1)..to : Deletable(doc[g], q)}}
<1>2. PICK from, to \in 0..Len(text[g]) :
        /\ doc' = [doc EXCEPT ![g] = Hide(doc[g], Gone(from, to))]
        /\ pending' = [pending EXCEPT ![g] =
             [t \in DOMAIN pending[g] \cup Gone(from, to) |->
                IF t \in Gone(from, to) THEN Nul ELSE pending[g][t]]]
  BY DEF Erase
<1>3. IsFiniteSet(Gone(from, to))
  <2> DEFINE Q == {q \in (from + 1)..to : Deletable(doc[g], q)}
  <2>0. from + 1 \in Int /\ to \in Int
    OBVIOUS
  <2>1. IsFiniteSet((from + 1)..to) /\ Q \subseteq (from + 1)..to
    BY <2>0, FS_Interval
  <2>2. IsFiniteSet(Q)
    BY <2>1, FS_Subset
  <2> DEFINE f == [p \in Q |-> DeleteTag(doc[g], p)]
  <2>3. f = [p \in Q |-> f[p]] /\ {f[p] : p \in Q} = Gone(from, to)
    OBVIOUS
  <2> HIDE DEF Q, f, Gone
  <2> QED
    BY <2>2, <2>3, ImageFinite
<1> HIDE DEF Gone
<1>4. PICK gone : gone = Gone(from, to)
  OBVIOUS
<1>5. /\ Alone(g) /\ doc'[g] = Hide(doc[g], gone)
      /\ pending'[g] = [t \in DOMAIN pending[g] \cup gone |->
                          IF t \in gone THEN Nul ELSE pending[g][t]]
  BY <1>1, <1>2, <1>4 DEF Alone
<1>6. DOMAIN pending'[g] = DOMAIN pending[g] \cup gone
  BY <1>5
<1>7. IsFiniteSet(DOMAIN pending[g] \cup gone)
  <2>1. IsFiniteSet(gone)
    BY <1>3, <1>4
  <2> QED
    BY <1>1, <2>1, FS_Union
<1>8. /\ Mapped(Hide(doc[g], gone))
      /\ Noted(doc[g], Hide(doc[g], gone), pending[g],
               [t \in DOMAIN pending[g] \cup gone |->
                  IF t \in gone THEN Nul ELSE pending[g][t]])
  <2>1. PICK d : d = doc[g]
    OBVIOUS
  <2>2. PICK p : p = pending[g]
    OBVIOUS
  <2>3. Mapped(d)
    BY <1>1, <2>1
  <2> QED
    BY <2>1, <2>2, <2>3, HideNotes
<1> QED
  BY <1>5, <1>6, <1>7, <1>8 DEF Notes

(* The changes of an answer come as a sequence of them.                    *)
Changes(transactions) ==
  UNION {{[id |-> tr[1], tag |-> t, ch |-> tr[2][t]] : t \in DOMAIN tr[2]} :
           tr \in transactions}
(* They are finitely many, ...                                             *)
LEMMA ChangesFinite ==
  ASSUME NEW transactions, IsFiniteSet(transactions),
         \A tr \in transactions : IsFiniteSet(DOMAIN tr[2])
  PROVE  IsFiniteSet(Changes(transactions))
<1> DEFINE Of(tr) == {[id |-> tr[1], tag |-> t, ch |-> tr[2][t]] : t \in DOMAIN tr[2]}
           S == UNION {Of(tr) : tr \in transactions}
<1>1. ASSUME NEW tr \in transactions PROVE IsFiniteSet(Of(tr))
  <2> DEFINE f == [t \in DOMAIN tr[2] |-> [id |-> tr[1], tag |-> t, ch |-> tr[2][t]]]
  <2>1. IsFiniteSet(DOMAIN tr[2])
    OBVIOUS
  <2>2. f = [t \in DOMAIN tr[2] |-> f[t]] /\ Of(tr) = {f[t] : t \in DOMAIN tr[2]}
    OBVIOUS
  <2> HIDE DEF f, Of
  <2> QED
    BY <2>1, <2>2, ImageFinite
<1>2. IsFiniteSet({Of(tr) : tr \in transactions})
  <2> DEFINE f == [tr \in transactions |-> Of(tr)]
  <2> HIDE DEF Of
  <2>1. f = [tr \in transactions |-> f[tr]]
    OBVIOUS
  <2>2. {Of(tr) : tr \in transactions} = {f[tr] : tr \in transactions}
    OBVIOUS
  <2> HIDE DEF f
  <2> QED
    BY <2>1, <2>2, ImageFinite
<1>3. IsFiniteSet(S)
  <2> HIDE DEF Of
  <2> QED
    BY <1>1, <1>2, FS_UNION
<1>4. S = Changes(transactions)
  BY DEF Changes
<1> HIDE DEF S
<1> QED
  BY <1>3, <1>4

(* ... so that there is a sequence of them, with each of them once ...     *)
LEMMA DeliveriesAre ==
  ASSUME NEW transactions, IsFiniteSet(transactions),
         \A tr \in transactions : IsFiniteSet(DOMAIN tr[2]),
         NEW changes \in Deliveries(transactions)
  PROVE  /\ changes \in Seq(Changes(transactions))
         /\ \A i, j \in 1..Len(changes) : changes[i] = changes[j] => i = j
<1>1. PICK S : S = Changes(transactions)
  OBVIOUS
<1>2. IsFiniteSet(S) /\ Cardinality(S) \in Nat
  BY <1>1, ChangesFinite, FS_CardinalityType
<1>3. changes \in Ext!SetToSeqs(S)
  BY <1>1 DEF Deliveries, Changes
<1>4. Ext!Cardinality(S) = Cardinality(S)
  BY Zenon DEF Ext!Cardinality, Cardinality
<1>5. /\ changes \in [1..Cardinality(S) -> S]
      /\ \A i, j \in 1..Cardinality(S) : i # j => changes[i] # changes[j]
  BY <1>3, <1>4 DEF Ext!SetToSeqs
<1>6. changes \in Seq(S)
  BY <1>2, <1>5, SeqDef
<1>7. 1..Len(changes) = 1..Cardinality(S)
  <2>1. DOMAIN changes = 1..Len(changes)
    BY <1>6
  <2> QED
    BY <1>5, <2>1
<1> QED
  BY <1>1, <1>5, <1>6, <1>7

(* ... and none left out, in the order of their ids.                       *)
LEMMA DeliveriesAll ==
  ASSUME NEW transactions, IsFiniteSet(transactions),
         \A tr \in transactions : IsFiniteSet(DOMAIN tr[2]),
         NEW changes \in Deliveries(transactions)
  PROVE  /\ \A x \in Changes(transactions) : \E k \in 1..Len(changes) : changes[k] = x
         /\ \A i, j \in 1..Len(changes) : i < j => changes[i].id <= changes[j].id
<1>1. PICK S : S = Changes(transactions)
  OBVIOUS
<1> DEFINE n == Cardinality(S)
<1>2. IsFiniteSet(S) /\ n \in Nat
  BY <1>1, ChangesFinite, FS_CardinalityType
<1>3. /\ changes \in Ext!SetToSeqs(S)
      /\ \A i, j \in DOMAIN changes : i < j => changes[i].id <= changes[j].id
  BY <1>1 DEF Deliveries, Changes
<1>4. Ext!Cardinality(S) = n
  BY Zenon DEF Ext!Cardinality, Cardinality
<1>5. /\ changes \in [1..n -> S]
      /\ \A i, j \in 1..n : i # j => changes[i] # changes[j]
  BY <1>3, <1>4 DEF Ext!SetToSeqs
<1>6. DOMAIN changes = 1..Len(changes) /\ DOMAIN changes = 1..n
  <2>1. changes \in Seq(S)
    BY <1>2, <1>5, SeqDef
  <2> QED
    BY <1>5, <2>1
<1>7. \A x \in S : \E k \in 1..n : changes[k] = x
  <2>1. changes \in Injection(1..n, S)
    BY <1>5 DEF Injection, IsInjective
  <2>2. Cardinality(1..n) = n
    <3> HIDE DEF n
    <3>1. n \in Int /\ 1 \in Int /\ n - 1 + 1 = n
      BY <1>2
    <3>2. IF 1 > n THEN n = 0 ELSE TRUE
      BY <1>2
    <3> QED
      BY <3>1, <3>2, FS_Interval
  <2>3. changes \in Surjection(1..n, S)
    <3>1. Cardinality(1..n) = Cardinality(S)
      BY <2>2
    <3> HIDE DEF n
    <3> QED
      BY <1>2, <2>1, <3>1, FS_Injection
  <2> HIDE DEF n
  <2> QED
    BY <2>3 DEF Surjection
<1> QED
  BY <1>1, <1>3, <1>6, <1>7

(* The answer of a heartbeat.                                              *)
LEMMA NewsNotes ==
  ASSUME Types, Finite, NEW g \in Guests, News(g)
  PROVE  Notes(g)
<1>1. /\ doc = [h \in Guests |-> doc[h]] /\ pending = [h \in Guests |-> pending[h]]
      /\ Mapped(doc[g]) /\ IsFiniteSet(DOMAIN pending[g])
  BY DEF Types, PageTypes, Finite
<1> DEFINE a == answer[<<g, "heartbeat">>]
           p == [doc |-> doc[g], text |-> text[g]]
<1>2. PICK changes \in Deliveries(a.transactions), clamps \in BOOLEAN :
        doc' = [doc EXCEPT ![g] = AttachAll(p, changes, clamps).doc]
  BY DEF News
<1>3. UNCHANGED pending /\ a # Server!NoAnswer
  BY DEF News, Server!Collect
<1>4. \E S : changes \in Seq(S)
  <2>1. IsFiniteSet(a.transactions) /\ \A tr \in a.transactions : IsFiniteSet(DOMAIN tr[2])
    BY <1>3 DEF Finite
  <2> HIDE DEF a
  <2> QED
    BY <1>2, <2>1, DeliveriesAre
<1>5. PICK S : changes \in Seq(S)
  BY <1>4
<1>6. PICK e : e = AttachAll(p, changes, clamps).doc
  OBVIOUS
<1>7. Mapped(e) /\ Overtaken(doc[g], e)
  <2>1. Mapped(p.doc) /\ p.doc = doc[g]
    BY <1>1
  <2> HIDE DEF p
  <2> QED
    BY <1>5, <1>6, <2>1, AttachAllOvertakes
<1>8. Alone(g) /\ doc'[g] = e
  BY <1>1, <1>2, <1>3, <1>6 DEF Alone
<1> QED
  BY <1>1, <1>3, <1>7, <1>8, OvertakenNotes DEF Notes

(* Steps that leave documents and notes alone.                             *)
LEMMA NothingNotes ==
  ASSUME Types, Finite, NEW g \in Guests, UNCHANGED <<doc, pending>>
  PROVE  Notes(g)
<1>1. /\ doc = [h \in Guests |-> doc[h]] /\ pending = [h \in Guests |-> pending[h]]
      /\ Mapped(doc[g]) /\ IsFiniteSet(DOMAIN pending[g])
  BY DEF Types, PageTypes, Finite
<1>2. Overtaken(doc[g], doc[g])
  BY DEF Overtaken
<1>3. Alone(g) /\ doc'[g] = doc[g] /\ pending'[g] = pending[g]
  BY <1>1 DEF Alone
<1> QED
  BY <1>1, <1>2, <1>3, OvertakenNotes DEF Notes

(* The answer of a heartbeat is a part of the log.                         *)
LEMMA HeartbeatFinite ==
  ASSUME Types, Finite, NEW g \in Guests, Heartbeat(g)
  PROVE  LET a == answer'[<<g, "heartbeat">>]
         IN  IsFiniteSet(a.transactions) /\ \A tr \in a.transactions : IsFiniteSet(DOMAIN tr[2])
<1> DEFINE c == <<g, "heartbeat">>
           fresh == {i \in DOMAIN log : i > last[g]} \ own[g]
           f == [i \in fresh |-> <<i, log[i]>>]
           a == Server!News(g, last[g], Server!Cardinality(DOMAIN members), members[g],
                            {<<i, log[i]>> : i \in fresh})
<1>1. c \in Calls /\ Server!Give(c, a)
  BY DEF Heartbeat, Server!Poll, Calls
<1>2. answer'[c] = a
  BY <1>1, Gives DEF Types
<1>3. a.transactions = {f[i] : i \in fresh} /\ f = [i \in fresh |-> f[i]]
  BY DEF Server!News
<1>4. IsFiniteSet(fresh)
  <2>1. Cardinality(DOMAIN log) \in Nat /\ DOMAIN log = 1..Cardinality(DOMAIN log)
    BY DEF Types, LogTypes
  <2>2. IsFiniteSet(DOMAIN log)
    <3> DEFINE n == Cardinality(DOMAIN log)
    <3>1. n \in Int /\ 1 \in Int
      BY <2>1
    <3> HIDE DEF n
    <3>2. IsFiniteSet(1..n)
      BY <3>1, FS_Interval
    <3> QED
      BY <2>1, <3>2 DEF n
  <2>3. fresh \subseteq DOMAIN log
    OBVIOUS
  <2> HIDE DEF fresh
  <2> QED
    BY <2>2, <2>3, FS_Subset
<1>5. \A i \in fresh : f[i][2] = log[i] /\ IsFiniteSet(DOMAIN log[i])
  BY DEF Finite
<1> HIDE DEF a, f, fresh
<1>6. IsFiniteSet(a.transactions)
  BY <1>3, <1>4, ImageFinite
<1>7. \A tr \in a.transactions : IsFiniteSet(DOMAIN tr[2])
  BY <1>3, <1>5
<1> QED
  BY <1>2, <1>6, <1>7

-----------------------------------------------------------------------------
(***************************************************************************)
(* The invariants are kept.                                                *)
(***************************************************************************)
Kept == Types /\ SentLast /\ Booking /\ Finite

(* By a page that keeps what it has sent.                                  *)
LEMMA NotingKeeps ==
  ASSUME Kept, NEW g \in Guests, Notes(g), LogTypes', UNCHANGED <<log, own, sent>>,
         stage' = [h \in Guests |-> stage'[h]], clip' = [h \in Guests |-> clip'[h]],
         g \in DOMAIN own \/ UNCHANGED <<doc, pending>>,
         \A d \in Calls : \/ answer'[d] = answer[d]
                          \/ answer'[d] = Server!NoAnswer
                          \/ (d = <<g, "heartbeat">> /\ Heartbeat(g))
  PROVE  Kept'
<1>1. Types'
  BY DEF Kept, Types, PageTypes, Notes, Alone
<1>2. SentLast'
  <2>1. \A h \in Guests : \/ answer'[<<h, "send">>] = answer[<<h, "send">>]
                          \/ answer'[<<h, "send">>] = Server!NoAnswer
    <3>1. \A h \in Guests : <<h, "send">> \in Calls /\ <<h, "send">> # <<g, "heartbeat">>
      BY DEF Calls
    <3> QED
      BY <3>1
  <2> QED
    BY <2>1 DEF Kept, SentLast
<1>3. Booking'
  <2> SUFFICES ASSUME NEW h \in Guests, NEW t \in DOMAIN doc'[h].ack \ {NullTag},
                      ~ doc'[h].ack[t]
               PROVE  Booked(h, t, doc[h].ch[t])'
    BY DEF Booking
  <2>1. CASE doc'[h] = doc[h] /\ pending'[h] = pending[h]
    <3>1. Booked(h, t, doc[h].ch[t])
      BY <2>1 DEF Kept, Booking
    <3> QED
      BY <2>1, <3>1 DEF Booked, NewestLogged
  <2>2. CASE h = g /\ g \in DOMAIN own
    <3>1. CASE t \in DOMAIN pending'[g] /\ doc'[g].ch[t] = pending'[g][t]
      BY <2>2, <3>1 DEF Booked
    <3>2. CASE /\ t \in DOMAIN doc[g].ack /\ ~ doc[g].ack[t] /\ doc'[g].ch[t] = doc[g].ch[t]
               /\ t \in DOMAIN pending'[g] <=> t \in DOMAIN pending[g]
               /\ t \in DOMAIN pending[g] => pending'[g][t] = pending[g][t]
      <4>1. Booked(g, t, doc[g].ch[t])
        BY <3>2 DEF Kept, Booking
      <4> QED
        BY <2>2, <3>2, <4>1 DEF Booked, NewestLogged
    <3> QED
      BY <2>2, <3>1, <3>2 DEF Notes, Noted
  <2> QED
    BY <2>1, <2>2 DEF Notes, Alone
<1>4. Finite'
  <2>1. \A h \in Guests : IsFiniteSet(DOMAIN pending'[h]) /\ IsFiniteSet(DOMAIN sent'[h])
    BY DEF Kept, Finite, Notes, Alone
  <2>2. \A i \in DOMAIN log' : IsFiniteSet(DOMAIN log'[i])
    BY DEF Kept, Finite
  <2>3. ASSUME NEW h \in Guests, answer'[<<h, "heartbeat">>] # Server!NoAnswer
        PROVE  /\ IsFiniteSet(answer'[<<h, "heartbeat">>].transactions)
               /\ \A tr \in answer'[<<h, "heartbeat">>].transactions : IsFiniteSet(DOMAIN tr[2])
    <3>1. <<h, "heartbeat">> \in Calls
      BY DEF Calls
    <3>2. CASE answer'[<<h, "heartbeat">>] = answer[<<h, "heartbeat">>]
      BY <2>3, <3>2 DEF Kept, Finite
    <3>3. CASE h = g /\ Heartbeat(g)
      BY <3>3, HeartbeatFinite DEF Kept
    <3> QED
      BY <2>3, <3>1, <3>2, <3>3
  <2> QED
    BY <2>1, <2>2, <2>3 DEF Finite
<1> QED
  BY <1>1, <1>2, <1>3, <1>4 DEF Kept

(* By a page's steps that are about neither the log nor its requests.      *)
LEMMA PageKeeps ==
  ASSUME Kept, Joining, NEW g \in Guests,
         \/ PasteText(g) \/ Load(g) \/ Joined(g)
         \/ Type(g) \/ Paste(g) \/ Erase(g) \/ DeleteKey(g)
         \/ Heartbeat(g) \/ News(g)
  PROVE  Kept' /\ Joining'
<1>1. /\ LogTypes' /\ UNCHANGED <<members, log, own>>
      /\ \A d \in Calls : \/ answer'[d] = answer[d]
                          \/ answer'[d] = Server!NoAnswer
                          \/ (d = <<g, "heartbeat">> /\ Heartbeat(g))
  BY OtherStep DEF Kept
<1>2. stage = [h \in Guests |-> stage[h]] /\ clip = [h \in Guests |-> clip[h]]
  BY DEF Kept, Types, PageTypes
<1>3. /\ UNCHANGED sent
      /\ stage' = [h \in Guests |-> stage'[h]] /\ clip' = [h \in Guests |-> clip'[h]]
  BY <1>2 DEF PasteText, Load, Joined, Type, Paste, Erase, DeleteKey, Heartbeat, News
<1>4. /\ \A h \in Guests \ {g} : stage'[h] = stage[h] /\ clip'[h] = clip[h]
      /\ \/ stage'[g] = stage[g]
         \/ stage'[g] = "open"
         \/ Joined(g)
      /\ clip'[g] = clip[g] \/ PasteText(g) \/ Paste(g)
  BY <1>2 DEF PasteText, Load, Joined, Type, Paste, Erase, DeleteKey, Heartbeat, News
<1>5. /\ Joined(g) => g \in DOMAIN own
      /\ PasteText(g) \/ Paste(g) \/ Type(g) \/ Erase(g) => g \in DOMAIN own
  BY DEF Joining, Joined, Server!Collect, PasteText, Paste, Type, Erase, Edits
<1>6. Joining'
  <2>1. \A h \in Guests : \/ answer'[<<h, "login">>] = answer[<<h, "login">>]
                          \/ answer'[<<h, "login">>] = Server!NoAnswer
    <3>1. \A h \in Guests : <<h, "login">> \in Calls /\ <<h, "login">> # <<g, "heartbeat">>
      BY DEF Calls
    <3> QED
      BY <1>1, <3>1
  <2>2. \A h \in Guests \ {g} : /\ stage'[h] = "in" => h \in DOMAIN own
                                /\ clip'[h] # NoPaste => h \in DOMAIN own
    BY <1>4 DEF Joining
  <2>3. stage'[g] = "in" => g \in DOMAIN own
    BY <1>4, <1>5 DEF Joining
  <2>4. clip'[g] # NoPaste => g \in DOMAIN own
    BY <1>4, <1>5 DEF Joining
  <2>5. ASSUME NEW h \in Guests, answer'[<<h, "heartbeat">>] # Server!NoAnswer
        PROVE  h \in DOMAIN own
    <3>1. <<h, "heartbeat">> \in Calls
      BY DEF Calls
    <3>2. CASE answer'[<<h, "heartbeat">>] = answer[<<h, "heartbeat">>]
      BY <2>5, <3>2 DEF Joining
    <3>3. CASE h = g /\ Heartbeat(g)
      BY <3>3 DEF Heartbeat, Server!Poll, Kept, Types, LogTypes
    <3> QED
      BY <1>1, <2>5, <3>1, <3>2, <3>3
  <2> QED
    BY <1>1, <2>1, <2>2, <2>3, <2>4, <2>5 DEF Joining
<1>7. CASE PasteText(g) \/ Type(g)
  <2>1. \E pos, c, also : Mint(g, pos, c, also) \/ NoteNull(g, pos, c, also) \/ NoteNothing(g, pos, also)
    BY <1>7 DEF PasteText, Type
  <2>2. Notes(g)
    BY <2>1, MintNotes DEF Kept
  <2> QED
    BY <1>1, <1>3, <1>5, <1>6, <1>7, <2>2, NotingKeeps
<1>8. CASE Erase(g)
  BY <1>1, <1>3, <1>5, <1>6, <1>8, EraseNotes, NotingKeeps DEF Kept
<1>9. CASE Load(g) \/ Joined(g) \/ Paste(g) \/ DeleteKey(g) \/ Heartbeat(g)
  <2>1. UNCHANGED <<doc, pending>>
    BY <1>9 DEF Load, Joined, Paste, DeleteKey, Heartbeat
  <2>2. Notes(g)
    BY <2>1, NothingNotes DEF Kept
  <2> QED
    BY <1>1, <1>3, <1>6, <2>1, <2>2, NotingKeeps
<1>10. CASE News(g)
  <2>1. Notes(g)
    BY <1>10, NewsNotes DEF Kept
  <2>2. g \in DOMAIN own
    BY <1>10 DEF News, Server!Collect, Joining
  <2> QED
    BY <1>1, <1>3, <1>6, <2>1, <2>2, NotingKeeps
<1> QED
  BY <1>7, <1>8, <1>9, <1>10

(* By a login.                                                             *)
LEMMA LoginKeeps ==
  ASSUME Kept, Joining, NEW g \in Guests, Login(g)
  PROVE  Kept' /\ Joining'
<1>1. /\ LogTypes' /\ UNCHANGED <<log, stage, doc, text, clip, pending, sent, last, told, history>>
      /\ g \notin DOMAIN own /\ DOMAIN own' = DOMAIN own \cup {g}
      /\ \A h \in DOMAIN own : own'[h] = own[h]
      /\ \A d \in Calls : d # <<g, "login">> => answer'[d] = answer[d]
  BY LoginStep DEF Kept
<1>2. \A h \in Guests : /\ answer'[<<h, "send">>] = answer[<<h, "send">>]
                        /\ answer'[<<h, "heartbeat">>] = answer[<<h, "heartbeat">>]
                        /\ h # g => answer'[<<h, "login">>] = answer[<<h, "login">>]
  <2>1. \A h \in Guests : /\ <<h, "send">> \in Calls /\ <<h, "send">> # <<g, "login">>
                          /\ <<h, "heartbeat">> \in Calls /\ <<h, "heartbeat">> # <<g, "login">>
                          /\ <<h, "login">> \in Calls /\ (h # g => <<h, "login">> # <<g, "login">>)
    BY DEF Calls
  <2> QED
    BY <1>1, <2>1
<1>3. Types'
  BY <1>1 DEF Kept, Types, PageTypes
<1>4. SentLast'
  BY <1>1, <1>2 DEF Kept, SentLast
<1>5. Booking'
  <2>1. ASSUME NEW h \in Guests, NEW t \in DOMAIN doc[h].ack \ {NullTag}, ~ doc[h].ack[t]
        PROVE  Booked(h, t, doc[h].ch[t])'
    <3>1. Booked(h, t, doc[h].ch[t])
      BY <2>1 DEF Kept, Booking
    <3> QED
      BY <1>1, <3>1 DEF Booked, NewestLogged
  <2> QED
    BY <1>1, <2>1 DEF Booking
<1>6. Finite'
  BY <1>1, <1>2 DEF Kept, Finite
<1>7. Joining'
  BY <1>1, <1>2 DEF Joining
<1> QED
  BY <1>3, <1>4, <1>5, <1>6, <1>7 DEF Kept

(* By the taking up of a request.                                          *)
LEMMA SendKeeps ==
  ASSUME Kept, Joining, NEW g \in Guests, Send(g)
  PROVE  Kept' /\ Joining'
<1>1. /\ LogTypes' /\ UNCHANGED <<server, stage, doc, clip>>
      /\ sent[g] = NoChange /\ pending[g] # NoChange
      /\ sent' = [sent EXCEPT ![g] = pending[g]]
      /\ pending' = [pending EXCEPT ![g] = NoChange]
  BY OtherStep DEF Kept, Send
<1>2. UNCHANGED <<members, log, own, answer>>
  BY <1>1 DEF server
<1>3. /\ sent' = [h \in Guests |-> sent'[h]] /\ pending' = [h \in Guests |-> pending'[h]]
      /\ \A h \in Guests \ {g} : sent'[h] = sent[h] /\ pending'[h] = pending[h]
      /\ sent'[g] = pending[g] /\ pending'[g] = NoChange
  BY <1>1 DEF Kept, Types, PageTypes
<1>4. DOMAIN NoChange = {}
  BY DEF NoChange
<1>5. Types'
  BY <1>1, <1>3 DEF Kept, Types, PageTypes
<1>6. SentLast'
  <2>1. answer[<<g, "send">>] = Server!NoAnswer
    BY <1>1 DEF Kept, SentLast
  <2> QED
    BY <1>2, <1>3, <2>1 DEF Kept, SentLast
<1>7. Booking'
  <2>1. ASSUME NEW h \in Guests, NEW t \in DOMAIN doc[h].ack \ {NullTag}, ~ doc[h].ack[t]
        PROVE  Booked(h, t, doc[h].ch[t])'
    <3>1. Booked(h, t, doc[h].ch[t])
      BY <2>1 DEF Kept, Booking
    <3>2. CASE h = g
      BY <1>1, <1>2, <1>3, <1>4, <3>1, <3>2 DEF Booked, NewestLogged
    <3>3. CASE h # g
      BY <1>1, <1>2, <1>3, <3>1, <3>3 DEF Booked, NewestLogged
    <3> QED
      BY <3>2, <3>3
  <2> QED
    BY <1>1, <2>1 DEF Booking
<1>8. Finite'
  BY <1>2, <1>3, <1>4, FS_EmptySet DEF Kept, Finite
<1>9. Joining'
  BY <1>1, <1>2 DEF Joining
<1> QED
  BY <1>5, <1>6, <1>7, <1>8, <1>9 DEF Kept

(* By the logging of a request.                                            *)
LEMMA LoggedKeeps ==
  ASSUME Kept, Joining, NEW g \in Guests, Logged(g)
  PROVE  Kept' /\ Joining'
<1>1. /\ LogTypes' /\ UNCHANGED <<stage, doc, text, clip, pending, sent, last, told, history>>
      /\ g \in DOMAIN own /\ DOMAIN own' = DOMAIN own
      /\ \A d \in Calls : d # <<g, "send">> => answer'[d] = answer[d]
  BY LoggedStep DEF Kept
<1>2. PICK i \in Nat :
        /\ i \notin DOMAIN log /\ \A j \in DOMAIN log : j <= i
        /\ DOMAIN log' = DOMAIN log \cup {i} /\ log'[i] = sent[g]
        /\ \A j \in DOMAIN log : log'[j] = log[j]
        /\ \A h \in DOMAIN own : own'[h] = IF h = g THEN own[h] \cup {i} ELSE own[h]
  BY LoggedStep DEF Kept
<1>3. \A h \in Guests : /\ h # g => answer'[<<h, "send">>] = answer[<<h, "send">>]
                        /\ answer'[<<h, "heartbeat">>] = answer[<<h, "heartbeat">>]
                        /\ answer'[<<h, "login">>] = answer[<<h, "login">>]
  <2>1. \A h \in Guests : /\ <<h, "send">> \in Calls /\ (h # g => <<h, "send">> # <<g, "send">>)
                          /\ <<h, "heartbeat">> \in Calls /\ <<h, "heartbeat">> # <<g, "send">>
                          /\ <<h, "login">> \in Calls /\ <<h, "login">> # <<g, "send">>
    BY DEF Calls
  <2> QED
    BY <1>1, <2>1
<1>4. /\ \A h \in DOMAIN own : own[h] \subseteq DOMAIN log
      /\ sent[g] # NoChange
  BY DEF Kept, Types, LogTypes, Logged
<1>5. Types'
  BY <1>1 DEF Kept, Types, PageTypes
<1>6. SentLast'
  <2>1. ASSUME NEW h \in Guests, answer'[<<h, "send">>] # Server!NoAnswer
        PROVE  /\ h \in DOMAIN own' /\ sent'[h] # NoChange
               /\ \E k \in own'[h] : log'[k] = sent'[h] /\ \A j \in own'[h] : j <= k
    <3>1. CASE h = g
      <4>1. i \in own'[g] /\ \A j \in own'[g] : j <= i
        BY <1>1, <1>2, <1>4
      <4> QED
        BY <1>1, <1>2, <1>4, <3>1, <4>1
    <3>2. CASE h # g
      <4>1. /\ h \in DOMAIN own /\ sent[h] # NoChange
            /\ \E k \in own[h] : log[k] = sent[h] /\ \A j \in own[h] : j <= k
        BY <1>3, <2>1, <3>2 DEF Kept, SentLast
      <4> QED
        BY <1>1, <1>2, <1>4, <3>2, <4>1
    <3> QED
      BY <3>1, <3>2
  <2> QED
    BY <2>1 DEF SentLast
<1>7. Booking'
  <2>1. ASSUME NEW h \in Guests, NEW t \in DOMAIN doc[h].ack \ {NullTag}, ~ doc[h].ack[t]
        PROVE  Booked(h, t, doc[h].ch[t])'
    <3>1. Booked(h, t, doc[h].ch[t])
      BY <2>1 DEF Kept, Booking
    <3>2. CASE t \in DOMAIN pending[h] \/ t \in DOMAIN sent[h]
      BY <1>1, <3>1, <3>2 DEF Booked
    <3>3. CASE t \notin DOMAIN pending[h] /\ t \notin DOMAIN sent[h]
      <4>1. PICK k \in own[h] : NewestLogged(h, t, k) /\ doc[h].ch[t] = log[k][t]
        BY <3>1, <3>3 DEF Booked
      <4>2. h \in DOMAIN own /\ k \in DOMAIN log
        BY <1>4, <3>1 DEF Booked
      <4>3. k \in own'[h] /\ t \in DOMAIN log'[k] /\ log'[k] = log[k]
        BY <1>2, <4>1, <4>2 DEF NewestLogged
      <4>4. ASSUME NEW j \in own'[h], t \in DOMAIN log'[j] PROVE j <= k
        <5>1. j \in own[h]
          BY <1>2, <3>3, <4>2, <4>4
        <5>2. j \in DOMAIN log
          BY <1>4, <4>2, <5>1
        <5> QED
          BY <1>2, <4>1, <4>4, <5>1, <5>2 DEF NewestLogged
      <4> QED
        BY <1>1, <3>3, <4>1, <4>2, <4>3, <4>4 DEF Booked, NewestLogged
    <3> QED
      BY <3>2, <3>3
  <2> QED
    BY <1>1, <2>1 DEF Booking
<1>8. Finite'
  <2>1. \A j \in DOMAIN log' : IsFiniteSet(DOMAIN log'[j])
    BY <1>2 DEF Kept, Finite
  <2> QED
    BY <1>1, <1>3, <2>1 DEF Kept, Finite
<1>9. Joining'
  BY <1>1, <1>3 DEF Joining
<1> QED
  BY <1>5, <1>6, <1>7, <1>8, <1>9 DEF Kept

(* By the answer to a request.                                             *)
LEMMA AcknowledgedKeeps ==
  ASSUME Kept, Joining, NEW g \in Guests, Acknowledged(g)
  PROVE  Kept' /\ Joining'
<1>1. /\ LogTypes' /\ UNCHANGED <<members, log, own, stage, doc, clip, pending>>
      /\ sent' = [sent EXCEPT ![g] = NoChange]
      /\ answer[<<g, "send">>] # Server!NoAnswer
  BY OtherStep DEF Kept, Acknowledged, Server!Collect
<1>2. <<g, "send">> \in Calls /\ Server!Collect(<<g, "send">>)
  BY DEF Acknowledged, Calls
<1>3. /\ answer'[<<g, "send">>] = Server!NoAnswer
      /\ \A d \in Calls : d # <<g, "send">> => answer'[d] = answer[d]
  BY <1>2, Collects DEF Kept, Types
<1>4. \A h \in Guests : /\ h # g => answer'[<<h, "send">>] = answer[<<h, "send">>]
                        /\ answer'[<<h, "heartbeat">>] = answer[<<h, "heartbeat">>]
                        /\ answer'[<<h, "login">>] = answer[<<h, "login">>]
  <2>1. \A h \in Guests : /\ <<h, "send">> \in Calls /\ (h # g => <<h, "send">> # <<g, "send">>)
                          /\ <<h, "heartbeat">> \in Calls /\ <<h, "heartbeat">> # <<g, "send">>
                          /\ <<h, "login">> \in Calls /\ <<h, "login">> # <<g, "send">>
    BY DEF Calls
  <2> QED
    BY <1>3, <2>1
<1>5. /\ sent' = [h \in Guests |-> sent'[h]] /\ \A h \in Guests \ {g} : sent'[h] = sent[h]
      /\ sent'[g] = NoChange /\ DOMAIN NoChange = {}
  BY <1>1 DEF Kept, Types, PageTypes, NoChange
<1>6. Types'
  BY <1>1, <1>5 DEF Kept, Types, PageTypes
<1>7. SentLast'
  BY <1>1, <1>3, <1>4, <1>5 DEF Kept, SentLast
<1>8. Booking'
  <2>1. PICK i \in own[g] : log[i] = sent[g] /\ \A j \in own[g] : j <= i
    BY <1>1 DEF Kept, SentLast
  <2>2. ASSUME NEW h \in Guests, NEW t \in DOMAIN doc[h].ack \ {NullTag}, ~ doc[h].ack[t]
        PROVE  Booked(h, t, doc[h].ch[t])'
    <3>1. Booked(h, t, doc[h].ch[t])
      BY <2>2 DEF Kept, Booking
    <3>2. CASE h = g
      <4>1. t \in DOMAIN sent[g] => NewestLogged(g, t, i)
        BY <2>1 DEF NewestLogged
      <4> QED
        BY <1>1, <1>5, <2>1, <3>1, <3>2, <4>1 DEF Booked, NewestLogged
    <3>3. CASE h # g
      BY <1>1, <1>5, <3>1, <3>3 DEF Booked, NewestLogged
    <3> QED
      BY <3>2, <3>3
  <2> QED
    BY <1>1, <2>2 DEF Booking
<1>9. Finite'
  BY <1>1, <1>4, <1>5, FS_EmptySet DEF Kept, Finite
<1>10. Joining'
  BY <1>1, <1>4 DEF Joining
<1> QED
  BY <1>6, <1>7, <1>8, <1>9, <1>10 DEF Kept

-----------------------------------------------------------------------------
(***************************************************************************)
(* At the start everything is acknowledged.                                *)
(***************************************************************************)
LEMMA KeptInitially ==
  ASSUME Init
  PROVE  Kept /\ Joining
<1>1. /\ DOMAIN members = {} /\ DOMAIN log = {} /\ DOMAIN own = {}
      /\ answer = [c \in Calls |-> Server!NoAnswer]
  BY DEF Init, Server!Init, Calls
<1>2. DOMAIN NoChange = {}
  BY DEF NoChange
<1>3. /\ EmptyDoc = [tags |-> EmptyDoc.tags, ch |-> EmptyDoc.ch, ack |-> EmptyDoc.ack]
      /\ EmptyDoc.ch = [t \in {0, One} |-> Nul] /\ EmptyDoc.ack = [t \in {0, One} |-> TRUE]
  BY DEF EmptyDoc
<1>4. Mapped(EmptyDoc) /\ \A t \in DOMAIN EmptyDoc.ack : EmptyDoc.ack[t]
  BY <1>3 DEF Mapped
<1>5. \A g \in Guests : /\ <<g, "login">> \in Calls /\ <<g, "send">> \in Calls
                        /\ <<g, "heartbeat">> \in Calls
  BY DEF Calls
<1>6. LogTypes
  <2>1. Cardinality({}) = 0 /\ 1..0 = {}
    BY FS_EmptySet
  <2> QED
    BY <1>1, <2>1 DEF LogTypes
<1>7. PageTypes
  BY <1>4 DEF Init, PageTypes
<1>8. Joining
  BY <1>1, <1>5 DEF Init, Joining
<1>9. SentLast
  BY <1>1, <1>5 DEF SentLast
<1>10. Booking
  BY <1>4 DEF Init, Booking
<1>11. Finite
  BY <1>1, <1>2, <1>5, FS_EmptySet DEF Init, Finite
<1> QED
  BY <1>6, <1>7, <1>8, <1>9, <1>10, <1>11 DEF Kept, Types

(* What is booked is the newest that is on its way.                        *)
LEMMA BookedNewest ==
  ASSUME Types, NEW g \in Guests, NEW t, NEW v, Booked(g, t, v)
  PROVE  /\ \/ t \in DOMAIN pending[g] \cup DOMAIN sent[g]
            \/ \E i \in own[g] : t \in DOMAIN log[i]
         /\ v = Newest(g, t)
<1>1. CASE t \in DOMAIN pending[g] \/ t \in DOMAIN sent[g]
  BY <1>1 DEF Booked, Newest
<1>2. CASE t \notin DOMAIN pending[g] /\ t \notin DOMAIN sent[g]
  <2> DEFINE ids == {i \in own[g] : t \in DOMAIN log[i]}
             newest == CHOOSE i \in ids : \A j \in ids : j <= i
  <2>1. PICK i \in own[g] : NewestLogged(g, t, i) /\ v = log[i][t]
    BY <1>2 DEF Booked
  <2>2. ids \subseteq Int
    BY DEF Booked, Types, LogTypes
  <2>3. i \in ids /\ \A j \in ids : j <= i
    BY <2>1 DEF NewestLogged
  <2>4. newest \in ids /\ \A j \in ids : j <= newest
    <3> HIDE DEF ids
    <3> QED
      BY <2>3
  <2>5. newest = i
    <3> HIDE DEF ids, newest
    <3> QED
      BY <2>2, <2>3, <2>4
  <2>6. Newest(g, t) = log[newest][t]
    BY <1>2 DEF Newest
  <2> QED
    BY <2>1, <2>3, <2>5, <2>6
<1> QED
  BY <1>1, <1>2

(* Every step keeps all of it.                                             *)
LEMMA StepKeeps ==
  ASSUME Kept, Joining, [Next]_vars
  PROVE  Kept' /\ Joining'
<1>1. CASE Next
  <2>1. PICK g \in Guests :
          \/ PasteText(g) \/ Load(g) \/ Joined(g)
          \/ Type(g) \/ Paste(g) \/ Erase(g) \/ DeleteKey(g)
          \/ Heartbeat(g) \/ News(g)
          \/ Login(g) \/ Send(g) \/ Logged(g) \/ Acknowledged(g)
    BY <1>1 DEF Next
  <2> QED
    BY <2>1, PageKeeps, LoginKeeps, SendKeeps, LoggedKeeps, AcknowledgedKeeps
<1>2. CASE UNCHANGED vars
  <2>1. UNCHANGED <<members, log, own, answer, stage, doc, clip, pending, sent>>
    BY <1>2 DEF vars, server
  <2>2. Types'
    BY <2>1 DEF Kept, Types, LogTypes, PageTypes
  <2>3. SentLast'
    BY <2>1 DEF Kept, SentLast
  <2>4. Booking'
    BY <2>1 DEF Kept, Booking, Booked, NewestLogged
  <2>5. Finite'
    BY <2>1 DEF Kept, Finite
  <2>6. Joining'
    BY <2>1 DEF Joining
  <2> QED
    BY <2>2, <2>3, <2>4, <2>5, <2>6 DEF Kept
<1> QED
  BY <1>1, <1>2

(* Every change made on a page and not overruled is on its way, whatever   *)
(* the guests do: the callbacks that send (startSendChanges), attach       *)
(* (startHeartbeat) and note changes (insertText, pasteText, deleteText)   *)
(* lose none, in any order.                                                *)
THEOREM ChangesOnTheirWay == Spec => []Accounted
<1>1. Init => Kept /\ Joining
  BY KeptInitially
<1>2. Kept /\ Joining /\ [Next]_vars => (Kept /\ Joining)'
  BY StepKeeps
<1>3. Kept => Accounted
  BY BookedNewest DEF Kept, Booking, Accounted
<1> QED
  BY <1>1, <1>2, <1>3, PTL DEF Spec

-----------------------------------------------------------------------------
(***************************************************************************)
(* What guests know of their number and places.                            *)
(***************************************************************************)
GuestCount == Cardinality(Guests)

(* An answer gives a guest its place among those that are registered.      *)
Placing(a) == a.count \in 1..GuestCount /\ a.position \in 0..(a.count - 1)

Places ==
  /\ \A n \in DOMAIN members : members[n] \in 0..(Cardinality(DOMAIN members) - 1)
  /\ \A g \in Guests :
       /\ answer[<<g, "login">>] # Server!NoAnswer => Placing(answer[<<g, "login">>])
       /\ answer[<<g, "heartbeat">>] # Server!NoAnswer => Placing(answer[<<g, "heartbeat">>])
  /\ told = [b \in Browsers |-> told[b]]
  /\ \A b \in Browsers :
       \/ told[b] = Unknown
       \/ told[b].count \in 1..GuestCount /\ told[b].index \in 0..(told[b].count - 1)

(* No more guests are registered than there are.                            *)
LEMMA SizeIs ==
  ASSUME Types
  PROVE  /\ GuestCount \in Nat /\ IsFiniteSet(DOMAIN members)
         /\ Cardinality(DOMAIN members) \in 0..GuestCount
         /\ \A S : S \subseteq Guests => IsFiniteSet(S) /\ Cardinality(S) \in 0..GuestCount
<1>1. IsFiniteSet(Guests)
  BY ColabAssumption
<1>2. \A S : S \subseteq Guests =>
        IsFiniteSet(S) /\ Cardinality(S) <= GuestCount
  <2>1. ASSUME NEW S \in SUBSET Guests PROVE IsFiniteSet(S) /\ Cardinality(S) <= Cardinality(Guests)
    BY <1>1, FS_Subset
  <2> QED
    BY <2>1 DEF GuestCount
<1>3. GuestCount \in Nat /\ \A S : S \subseteq Guests => Cardinality(S) \in Nat
  BY <1>1, <1>2, FS_CardinalityType DEF GuestCount
<1>4. \A S : S \subseteq Guests => IsFiniteSet(S) /\ Cardinality(S) \in 0..GuestCount
  BY <1>2, <1>3
<1>5. DOMAIN members \subseteq Guests
  BY DEF Types, LogTypes
<1> QED
  BY <1>3, <1>4, <1>5

(* A new guest gets the next place.                                        *)
LEMMA LoginPlaces ==
  ASSUME Types, Places, NEW g \in Guests, Login(g)
  PROVE  Places'
<1> DEFINE size == Cardinality(DOMAIN members)   c == <<g, "login">>
           a == Server!Welcome(g, size + 1, size)
<1>1. /\ c \in Calls /\ Server!Give(c, a)
      /\ g \notin DOMAIN members /\ members' = Server!With(members, g, size)
      /\ UNCHANGED told
  <2>1. Server!Cardinality(DOMAIN members) = size
    BY SameSize
  <2> QED
    BY <2>1 DEF Login, Server!Register, Calls
<1>2. answer'[c] = a /\ \A d \in Calls : d # c => answer'[d] = answer[d]
  BY <1>1, Gives DEF Types
<1>3. /\ DOMAIN members' = DOMAIN members \cup {g}
      /\ \A n \in DOMAIN members' : members'[n] = IF n = g THEN size ELSE members[n]
  BY <1>1 DEF Server!With
<1>4. size \in Nat /\ Cardinality(DOMAIN members') = size + 1 /\ size + 1 <= GuestCount
  <2>1. IsFiniteSet(DOMAIN members) /\ size \in Nat /\ GuestCount \in Nat
    BY SizeIs
  <2>2. Cardinality(DOMAIN members \cup {g}) = size + 1
    BY <1>1, <2>1, FS_AddElement
  <2>3. DOMAIN members \cup {g} \subseteq Guests
    BY DEF Types, LogTypes
  <2>4. Cardinality(DOMAIN members \cup {g}) \in 0..GuestCount
    BY <2>3, SizeIs
  <2> QED
    BY <1>3, <2>1, <2>2, <2>4
<1>5. a.count = size + 1 /\ a.position = size
  BY DEF Server!Welcome
<1> HIDE DEF a, size
<1>6. GuestCount \in Nat /\ GuestCount' = GuestCount
  BY SizeIs DEF GuestCount
<1>7. Placing(a)
  BY <1>4, <1>5, <1>6 DEF Placing
<1>8. \A n \in DOMAIN members' : members'[n] \in 0..(Cardinality(DOMAIN members') - 1)
  <2>1. \A n \in DOMAIN members : members[n] \in 0..(size - 1)
    BY DEF Places, size
  <2> QED
    BY <1>3, <1>4, <2>1
<1>9. ASSUME NEW h \in Guests
      PROVE  /\ answer'[<<h, "login">>] # Server!NoAnswer => Placing(answer'[<<h, "login">>])
             /\ answer'[<<h, "heartbeat">>] # Server!NoAnswer => Placing(answer'[<<h, "heartbeat">>])
  <2>1. /\ <<h, "login">> \in Calls /\ <<h, "heartbeat">> \in Calls
        /\ <<h, "heartbeat">> # c
    BY DEF Calls
  <2>2. answer'[<<h, "heartbeat">>] = answer[<<h, "heartbeat">>]
    BY <1>2, <2>1
  <2>3. answer'[<<h, "login">>] = answer[<<h, "login">>] \/ answer'[<<h, "login">>] = a
    BY <1>2, <2>1
  <2> QED
    BY <1>7, <2>2, <2>3 DEF Places
<1> QED
  BY <1>1, <1>6, <1>8, <1>9 DEF Places, Placing

(* A heartbeat is told of all that are registered.                         *)
LEMMA HeartbeatPlacing ==
  ASSUME Types, Places, NEW g \in Guests, Heartbeat(g)
  PROVE  /\ Placing(answer'[<<g, "heartbeat">>])
         /\ answer'[<<g, "heartbeat">>].count = Cardinality(DOMAIN members)
         /\ answer'[<<g, "heartbeat">>].position = members[g]
         /\ answer'[<<g, "heartbeat">>].transactions =
              {<<i, log[i]>> : i \in {j \in DOMAIN log : j > last[g]} \ own[g]}
         /\ g \in DOMAIN members
<1> DEFINE c == <<g, "heartbeat">>   size == Server!Cardinality(DOMAIN members)
           new == {<<i, log[i]>> : i \in {j \in DOMAIN log : j > last[g]} \ own[g]}
           a == Server!News(g, last[g], size, members[g], new)
<1>1. c \in Calls /\ Server!Give(c, a) /\ g \in DOMAIN members
  BY DEF Heartbeat, Server!Poll, Calls
<1>2. answer'[c] = a
  BY <1>1, Gives DEF Types
<1>3. a.count = size /\ a.position = members[g] /\ a.transactions = new
  BY DEF Server!News
<1>4. size = Cardinality(DOMAIN members)
  BY SameSize
<1> HIDE DEF a, size, new
<1>5. Placing(a)
  <2>1. members[g] \in 0..(size - 1) /\ size \in 0..GuestCount
    BY <1>1, <1>4, SizeIs DEF Places
  <2>2. GuestCount \in Nat
    BY SizeIs
  <2> QED
    BY <1>3, <2>1, <2>2 DEF Placing
<1> QED
  BY <1>1, <1>2, <1>3, <1>4, <1>5 DEF new

(* What a page learns.                                                     *)
LEMMA LearnPlaces ==
  ASSUME Places, NEW g \in Guests, NEW a, Placing(a), Learn(g, a)
  PROVE  /\ told' = [b \in Browsers |-> told'[b]]
         /\ \A b \in Browsers :
              \/ told'[b] = Unknown
              \/ told'[b].count \in 1..GuestCount /\ told'[b].index \in 0..(told'[b].count - 1)
<1>1. told' = [told EXCEPT ![BrowserOf[g]] = [index |-> a.position, count |-> a.count]]
  BY DEF Learn
<1>2. /\ told' = [b \in Browsers |-> told'[b]]
      /\ \A b \in Browsers : \/ told'[b] = told[b]
                             \/ told'[b] = [index |-> a.position, count |-> a.count]
  BY <1>1 DEF Places
<1> QED
  BY <1>2 DEF Places, Placing

(* Steps that register nobody.                                             *)
LEMMA OtherPlaces ==
  ASSUME Types, Places, NEW g \in Guests,
         \/ PasteText(g) \/ Load(g) \/ Joined(g)
         \/ Type(g) \/ Paste(g) \/ Erase(g) \/ DeleteKey(g)
         \/ Send(g) \/ Acknowledged(g) \/ Heartbeat(g) \/ News(g)
  PROVE  Places'
<1>1. /\ UNCHANGED <<members, log, own>>
      /\ \A d \in Calls : \/ answer'[d] = answer[d]
                          \/ answer'[d] = Server!NoAnswer
                          \/ (d = <<g, "heartbeat">> /\ Heartbeat(g))
  BY OtherStep
<1>2. ASSUME NEW h \in Guests
      PROVE  /\ answer'[<<h, "login">>] # Server!NoAnswer => Placing(answer'[<<h, "login">>])
             /\ answer'[<<h, "heartbeat">>] # Server!NoAnswer => Placing(answer'[<<h, "heartbeat">>])
  <2>1. /\ <<h, "login">> \in Calls /\ <<h, "heartbeat">> \in Calls
        /\ <<h, "login">> # <<g, "heartbeat">>
    BY DEF Calls
  <2>2. \/ answer'[<<h, "login">>] = answer[<<h, "login">>]
        \/ answer'[<<h, "login">>] = Server!NoAnswer
    BY <1>1, <2>1
  <2>3. \/ answer'[<<h, "heartbeat">>] = answer[<<h, "heartbeat">>]
        \/ answer'[<<h, "heartbeat">>] = Server!NoAnswer
        \/ h = g /\ Heartbeat(g)
    BY <1>1, <2>1
  <2>4. Heartbeat(g) => Placing(answer'[<<g, "heartbeat">>])
    BY HeartbeatPlacing
  <2> QED
    BY <2>2, <2>3, <2>4 DEF Places
<1>3. /\ told' = [b \in Browsers |-> told'[b]]
      /\ \A b \in Browsers :
           \/ told'[b] = Unknown
           \/ told'[b].count \in 1..GuestCount /\ told'[b].index \in 0..(told'[b].count - 1)
  <2>1. CASE UNCHANGED told
    BY <2>1 DEF Places
  <2>2. CASE Load(g)
    <3>1. told' = [told EXCEPT ![BrowserOf[g]] = Unknown]
      BY <2>2 DEF Load
    <3> QED
      BY <3>1 DEF Places
  <2>3. CASE Joined(g)
    <3>1. /\ Learn(g, answer[<<g, "login">>]) /\ answer[<<g, "login">>] # Server!NoAnswer
      BY <2>3 DEF Joined, Server!Collect
    <3>2. Placing(answer[<<g, "login">>])
      BY <3>1 DEF Places
    <3> QED
      BY <3>1, <3>2, LearnPlaces
  <2>4. CASE News(g)
    <3>1. /\ Learn(g, answer[<<g, "heartbeat">>]) /\ answer[<<g, "heartbeat">>] # Server!NoAnswer
      BY <2>4 DEF News, Server!Collect
    <3>2. Placing(answer[<<g, "heartbeat">>])
      BY <3>1 DEF Places
    <3> QED
      BY <3>1, <3>2, LearnPlaces
  <2>5. CASE \/ PasteText(g) \/ Type(g) \/ Paste(g) \/ Erase(g) \/ DeleteKey(g)
             \/ Send(g) \/ Acknowledged(g) \/ Heartbeat(g)
    <3>1. UNCHANGED told
      BY <2>5 DEF PasteText, Type, Paste, Erase, DeleteKey, Send, Acknowledged, Heartbeat
    <3> QED
      BY <2>1, <3>1
  <2> QED
    BY <2>2, <2>3, <2>4, <2>5
<1> QED
  BY <1>1, <1>2, <1>3 DEF Places, Placing, GuestCount

-----------------------------------------------------------------------------
(***************************************************************************)
(* What is written: texts, documents and changes.                          *)
(***************************************************************************)
(* Changes are of tags after 0, the tag 1 is only ever deleted, and the    *)
(* characters are among the first n that were typed.                       *)
Sane(m, n) ==
  \A t \in DOMAIN m : t \in 1..NullTag /\ m[t] \in 0..n /\ (t = One => m[t] = Nul)
Clipped(c, n) ==
  /\ c = [from |-> c.from, chars |-> c.chars, text |-> c.text, running |-> c.running]
  /\ c.from \in Nat /\ c.chars \in Seq(1..n) /\ (c # NoPaste => c.chars # <<>>)
Written(d, s, c, p, n) ==
  Proper(d) /\ s \in Seq(1..n) /\ Clipped(c, n) /\ Sane(p, n)

Writing ==
  /\ text = [g \in Guests |-> text[g]]
  /\ \A g \in Guests : Written(doc[g], text[g], clip[g], pending[g], typed)
Notices ==
  /\ \A g \in Guests : Sane(sent[g], typed)
  /\ \A i \in DOMAIN log : Sane(log[i], typed)
  /\ \A g \in Guests : answer[<<g, "heartbeat">>] # Server!NoAnswer =>
       \A tr \in answer[<<g, "heartbeat">>].transactions :
         tr[1] \in DOMAIN log /\ Sane(tr[2], typed)
Counters ==
  /\ typed \in 0..MaxTyped /\ erased \in 0..MaxErase
  /\ minted \subseteq Tags /\ odd \subseteq Oddities
  /\ stage \in [Guests -> {"closed", "open", "in"}]
  /\ last = [g \in Guests |-> last[g]]
  /\ \A g \in Guests : last[g] \in {-1} \cup DOMAIN log
Contents == Writing /\ Notices /\ Counters

(* With more characters typed it is all still right.                       *)
LEMMA MoreTyped ==
  ASSUME NEW n \in Nat, NEW m \in Nat, n <= m
  PROVE  /\ \A s : s \in Seq(1..n) => s \in Seq(1..m)
         /\ \A p : Sane(p, n) => Sane(p, m)
         /\ \A c : Clipped(c, n) => Clipped(c, m)
         /\ \A d, s, c, p : Written(d, s, c, p, n) => Written(d, s, c, p, m)
<1>1. \A s : s \in Seq(1..n) => s \in Seq(1..m)
  <2>1. 1..n \subseteq 1..m
    OBVIOUS
  <2>2. ASSUME NEW s \in Seq(1..n) PROVE s \in Seq(1..m)
    BY <2>1, SeqMonotonic
  <2> QED
    BY <2>2
<1>2. \A p : Sane(p, n) => Sane(p, m)
  BY DEF Sane
<1>3. \A c : Clipped(c, n) => Clipped(c, m)
  BY <1>1 DEF Clipped
<1> QED
  BY <1>1, <1>2, <1>3 DEF Written

(* A step of one page.                                                     *)
LEMMA WritingBy ==
  ASSUME Writing, typed \in Nat, typed' \in Nat, typed <= typed', NEW g \in Guests,
         text' = [h \in Guests |-> text'[h]],
         \A h \in Guests \ {g} : /\ doc'[h] = doc[h] /\ text'[h] = text[h]
                                 /\ clip'[h] = clip[h] /\ pending'[h] = pending[h],
         Written(doc'[g], text'[g], clip'[g], pending'[g], typed')
  PROVE  Writing'
<1>1. ASSUME NEW h \in Guests PROVE Written(doc'[h], text'[h], clip'[h], pending'[h], typed')
  <2>1. CASE h = g
    BY <2>1
  <2>2. CASE h # g
    <3>1. Written(doc[h], text[h], clip[h], pending[h], typed)
      BY DEF Writing
    <3>2. Written(doc[h], text[h], clip[h], pending[h], typed')
      BY <3>1, MoreTyped
    <3> QED
      BY <2>2, <3>2
  <2> QED
    BY <2>1, <2>2
<1> QED
  BY <1>1 DEF Writing

(* PPS.insert and the noting of its change.                                *)
LEMMA MintWrites ==
  ASSUME Types, Finite, Places, NEW n \in Nat, n > 0, NEW g \in Guests,
         Proper(doc[g]), Sane(pending[g], n), minted \subseteq Tags, odd \subseteq Oddities,
         NEW pos \in Nat, NEW c \in 1..n, NEW also \in SUBSET Oddities,
         Mint(g, pos, c, also) \/ NoteNull(g, pos, c, also) \/ NoteNothing(g, pos, also)
  PROVE  /\ Alone(g) /\ Proper(doc'[g]) /\ Sane(pending'[g], n)
         /\ minted' \subseteq Tags /\ odd' \subseteq Oddities
<1>1. Alone(g)
  BY MintNotes DEF Notes
<1>2. doc = [h \in Guests |-> doc[h]] /\ pending = [h \in Guests |-> pending[h]]
  BY DEF Types, PageTypes
<1>3. odd' \subseteq Oddities
  <2>1. odd' \subseteq odd \cup also \cup {"unplaced", "twice", "astray"}
    BY DEF Mint, NoteNull, NoteNothing
  <2> QED
    BY <2>1 DEF Oddities
<1>4. CASE Mint(g, pos, c, also)
  <2> DEFINE b == Told(g)   t == NewTag(doc[g], pos, b.index, b.count)
  <2>1. /\ ~ Fails(g, pos) /\ Whole(doc[g], pos, b.index, b.count)
        /\ doc' = [doc EXCEPT ![g] = Add(doc[g], t, c)]
        /\ pending' = [pending EXCEPT ![g] = MapSet(pending[g], t, c)]
        /\ minted' = minted \cup {t}
    BY <1>4 DEF Mint
  <2>2. b.count # 0 /\ ~ Throws(doc[g], pos)
    BY <2>1 DEF Fails
  <2>3. b.count \in Nat /\ b.index \in 0..(b.count - 1)
    <3>1. BrowserOf[g] \in Browsers
      BY DEF Browsers
    <3>2. Unknown.count = 0 /\ GuestCount \in Nat
      BY SizeIs DEF Unknown
    <3> QED
      BY <2>2, <3>1, <3>2 DEF Places, Told
  <2>4. t \in 1..(One - 1)
    <3> HIDE DEF b
    <3> QED
      BY <2>1, <2>2, <2>3, NewTagBetween
  <2> HIDE DEF t, b
  <2>5. t \in Tags /\ t \in 1..NullTag /\ t # One
    BY <2>4, OneAssumption, SMT DEF Tags, NullTag
  <2>6. doc'[g] = Add(doc[g], t, c) /\ pending'[g] = MapSet(pending[g], t, c)
    BY <1>2, <2>1
  <2>7. Proper(doc'[g])
    <3>1. c \in Nat
      OBVIOUS
    <3> QED
      BY <2>4, <2>6, <3>1, AddProper
  <2>8. Sane(pending'[g], n)
    BY <2>5, <2>6 DEF Sane, MapSet
  <2> QED
    BY <1>1, <1>3, <2>1, <2>5, <2>7, <2>8
<1>5. CASE NoteNull(g, pos, c, also)
  <2>1. /\ doc' = doc /\ minted' = minted
        /\ pending'[g] = MapSet(pending[g], NullTag, c)
    BY <1>2, <1>5 DEF NoteNull
  <2>2. NullTag \in 1..NullTag /\ NullTag # One
    BY OneAssumption, SMT DEF NullTag
  <2>3. Sane(pending'[g], n)
    BY <2>1, <2>2 DEF Sane, MapSet
  <2> QED
    BY <1>1, <1>3, <2>1, <2>3
<1>6. CASE NoteNothing(g, pos, also)
  BY <1>1, <1>3, <1>6 DEF NoteNothing
<1> QED
  BY <1>4, <1>5, <1>6

(* What is typed over a selection.                                         *)
LEMMA OverIs ==
  ASSUME NEW g \in Guests, NEW n \in Nat, text[g] \in Seq(1..n), NEW chars \in Seq(1..n),
         NEW from \in 0..Len(text[g]), NEW to \in 0..Len(text[g])
  PROVE  Over(g, from, to, chars) \in Seq(1..n)
<1>1. PICK s \in Seq(1..n) : s = text[g]
  OBVIOUS
<1> DEFINE a == SubSeq(s, 1, from)   b == SubSeq(s, to + 1, Len(s))
<1>2. a \in Seq(1..n) /\ b \in Seq(1..n)
  <2>1. from \in 0..Len(s) /\ to \in 0..Len(s)
    BY <1>1
  <2>2. \A i \in Int, j \in 0..Len(s) : i >= 1 => SubSeq(s, i, j) \in Seq(1..n)
    BY SubSeqProperties
  <2>3. to + 1 \in Int /\ to + 1 >= 1 /\ Len(s) \in 0..Len(s) /\ 1 \in Int
    BY <2>1
  <2> QED
    BY SMTT(30), <2>1, <2>2, <2>3
<1> HIDE DEF a, b
<1>3. a \o chars \in Seq(1..n)
  BY <1>2, ConcatProperties
<1>4. (a \o chars) \o b \in Seq(1..n)
  BY <1>2, <1>3, ConcatProperties
<1>5. Over(g, from, to, chars) = (a \o chars) \o b
  BY <1>1 DEF Over, a, b
<1> QED
  BY <1>4, <1>5

(* The characters that are typed next.                                      *)
LEMMA NextCharsAre ==
  ASSUME typed \in Nat, NEW k \in Nat
  PROVE  NextChars(k) \in Seq(1..(typed + k)) /\ Len(NextChars(k)) = k
<1>1. NextChars(k) = [i \in 1..k |-> typed + i]
  BY DEF NextChars
<1>2. \A i \in 1..k : typed + i \in 1..(typed + k)
  OBVIOUS
<1>3. NextChars(k) \in [1..k -> 1..(typed + k)]
  BY <1>1, <1>2
<1>4. NextChars(k) \in Seq(1..(typed + k))
  BY <1>3, SeqDef
<1>5. Len(NextChars(k)) = k
  <2>1. DOMAIN NextChars(k) = 1..k
    BY <1>1
  <2>2. DOMAIN NextChars(k) = 1..Len(NextChars(k)) /\ Len(NextChars(k)) \in Nat
    BY <1>4
  <2> QED
    BY <2>1, <2>2
<1> QED
  BY <1>4, <1>5

(* Nothing pasted is a paste of the right form.                             *)
LEMMA NoPasteClipped ==
  ASSUME NEW n \in Nat
  PROVE  Clipped(NoPaste, n)
<1>1. <<>> \in Seq(1..n)
  BY EmptySeq
<1> QED
  BY <1>1 DEF Clipped, NoPaste

(* The steps that take up, log or attach nothing.                          *)
LEMMA NoticesBy ==
  ASSUME Types, Places, Notices, typed \in Nat, typed' \in Nat, typed <= typed', NEW g \in Guests,
         \/ PasteText(g) \/ Load(g) \/ Joined(g)
         \/ Type(g) \/ Paste(g) \/ Erase(g) \/ DeleteKey(g)
         \/ Acknowledged(g) \/ Heartbeat(g) \/ News(g),
         \A h \in Guests : sent'[h] = sent[h] \/ sent'[h] = NoChange
  PROVE  Notices'
<1>1. /\ UNCHANGED <<members, log, own>>
      /\ \A d \in Calls : \/ answer'[d] = answer[d]
                          \/ answer'[d] = Server!NoAnswer
                          \/ (d = <<g, "heartbeat">> /\ Heartbeat(g))
  BY OtherStep
<1>2. \A h \in Guests : Sane(sent'[h], typed')
  <2>1. Sane(NoChange, typed')
    BY DEF Sane, NoChange
  <2>2. \A h \in Guests : Sane(sent[h], typed')
    BY MoreTyped DEF Notices
  <2> QED
    BY <2>1, <2>2
<1>3. \A i \in DOMAIN log : Sane(log[i], typed')
  BY MoreTyped DEF Notices
<1>4. ASSUME NEW h \in Guests, answer'[<<h, "heartbeat">>] # Server!NoAnswer,
             NEW tr \in answer'[<<h, "heartbeat">>].transactions
      PROVE  tr[1] \in DOMAIN log /\ Sane(tr[2], typed')
  <2>1. <<h, "heartbeat">> \in Calls
    BY DEF Calls
  <2>2. CASE answer'[<<h, "heartbeat">>] = answer[<<h, "heartbeat">>]
    <3>1. tr[1] \in DOMAIN log /\ Sane(tr[2], typed)
      BY <1>4, <2>2 DEF Notices
    <3> QED
      BY <3>1, MoreTyped
  <2>3. CASE h = g /\ Heartbeat(g)
    <3>1. tr \in {<<i, log[i]>> : i \in {j \in DOMAIN log : j > last[g]} \ own[g]}
      BY <1>4, <2>3, HeartbeatPlacing
    <3>2. PICK i \in DOMAIN log : tr = <<i, log[i]>>
      BY <3>1
    <3> QED
      BY <1>3, <3>2
  <2> QED
    BY <1>1, <1>4, <2>1, <2>2, <2>3
<1> QED
  BY <1>1, <1>2, <1>3, <1>4 DEF Notices

(* The bounds are naturals.                                                 *)
LEMMA BoundsAre ==
  MaxTyped \in Nat /\ MaxErase \in Nat /\ BrowserOf \in [Guests -> Browsers]
BY ColabAssumption

(* Typing.                                                                 *)
LEMMA TypeContents ==
  ASSUME Types, Finite, Places, Contents, NEW g \in Guests, Type(g)
  PROVE  Contents'
<1> DEFINE n == typed + 1
<1>1. typed \in Nat /\ n \in Nat /\ n > 0 /\ typed <= n /\ typed' = n /\ n \in 0..MaxTyped
  <2>1. typed \in 0..MaxTyped /\ typed < MaxTyped /\ typed' = n
    BY DEF Contents, Counters, Type
  <2> QED
    BY <2>1, BoundsAre
<1>2. Written(doc[g], text[g], clip[g], pending[g], n)
  <2>1. Written(doc[g], text[g], clip[g], pending[g], typed)
    BY DEF Contents, Writing
  <2> HIDE DEF n
  <2> QED
    BY <1>1, <2>1, MoreTyped
<1>3. PICK from \in 0..Len(text[g]), to \in 0..Len(text[g]) :
        /\ text' = [text EXCEPT ![g] = Over(g, from, to, NextChars(1))]
        /\ \/ Mint(g, from, n, {})
           \/ NoteNull(g, from, n, {})
           \/ NoteNothing(g, from, {})
  BY DEF Type
<1>4. /\ Alone(g) /\ Proper(doc'[g]) /\ Sane(pending'[g], n)
      /\ minted' \subseteq Tags /\ odd' \subseteq Oddities
  <2>1. from \in Nat /\ n \in 1..n /\ {} \in SUBSET Oddities
    BY <1>1
  <2>2. Proper(doc[g]) /\ Sane(pending[g], n) /\ minted \subseteq Tags /\ odd \subseteq Oddities
    BY <1>2 DEF Written, Contents, Counters
  <2> HIDE DEF n
  <2> QED
    BY <1>1, <1>3, <2>1, <2>2, MintWrites
<1>5. Over(g, from, to, NextChars(1)) \in Seq(1..n)
  <2>1. NextChars(1) \in Seq(1..n) /\ text[g] \in Seq(1..n)
    BY <1>1, <1>2, NextCharsAre DEF Written
  <2> HIDE DEF n
  <2> QED
    BY <1>1, <2>1, OverIs
<1> HIDE DEF n
<1>6. UNCHANGED <<server, stage, clip, sent, last, told, erased>>
  BY DEF Type
<1>7. /\ text' = [h \in Guests |-> text'[h]] /\ text'[g] \in Seq(1..n)
      /\ \A h \in Guests \ {g} : text'[h] = text[h]
  BY <1>3, <1>5 DEF Contents, Writing
<1>8. Writing'
  <2>1. Written(doc'[g], text'[g], clip'[g], pending'[g], typed')
    BY <1>1, <1>2, <1>4, <1>6, <1>7 DEF Written
  <2> QED
    BY <1>1, <1>4, <1>6, <1>7, <2>1, WritingBy DEF Alone, Contents
<1>9. Notices'
  BY <1>1, <1>6, NoticesBy DEF Contents
<1>10. Counters'
  BY <1>1, <1>4, <1>6 DEF Contents, Counters, server
<1> QED
  BY <1>8, <1>9, <1>10 DEF Contents

(* A paste, which comes before its text is in the document.                *)
LEMMA PasteContents ==
  ASSUME Types, Finite, Places, Contents, NEW g \in Guests, Paste(g)
  PROVE  Contents'
<1> DEFINE n == typed + 2
<1>1. typed \in Nat /\ n \in Nat /\ typed <= n /\ typed' = n /\ n \in 0..MaxTyped
  <2>1. typed \in 0..MaxTyped /\ n <= MaxTyped /\ typed' = n
    BY DEF Contents, Counters, Paste
  <2> QED
    BY <2>1, BoundsAre
<1>2. Written(doc[g], text[g], clip[g], pending[g], n)
  <2>1. Written(doc[g], text[g], clip[g], pending[g], typed)
    BY DEF Contents, Writing
  <2> HIDE DEF n
  <2> QED
    BY <1>1, <2>1, MoreTyped
<1>3. PICK from \in 0..Len(text[g]), to \in 0..Len(text[g]) :
        /\ text' = [text EXCEPT ![g] = Over(g, from, to, NextChars(2))]
        /\ clip' = [clip EXCEPT ![g] =
             [from |-> from, chars |-> NextChars(2), text |-> text'[g], running |-> FALSE]]
  BY DEF Paste
<1>4. NextChars(2) \in Seq(1..n) /\ NextChars(2) # <<>> /\ text[g] \in Seq(1..n)
  <2>1. NextChars(2) \in Seq(1..n) /\ Len(NextChars(2)) = 2 /\ text[g] \in Seq(1..n)
    BY <1>1, <1>2, NextCharsAre DEF Written
  <2>2. Len(<<>>) = 0
    BY EmptySeq
  <2> QED
    BY <2>1, <2>2
<1>5. Over(g, from, to, NextChars(2)) \in Seq(1..n)
  <2> HIDE DEF n
  <2> QED
    BY <1>1, <1>4, OverIs
<1> HIDE DEF n
<1>6. UNCHANGED <<server, stage, doc, pending, sent, last, told, erased, minted, odd>>
  BY DEF Paste
<1>7. clip = [h \in Guests |-> clip[h]]
  BY DEF Types, PageTypes
<1>8. /\ text' = [h \in Guests |-> text'[h]] /\ text'[g] \in Seq(1..n)
      /\ \A h \in Guests \ {g} : text'[h] = text[h] /\ clip'[h] = clip[h]
      /\ clip'[g] = [from |-> from, chars |-> NextChars(2), text |-> text'[g], running |-> FALSE]
  BY <1>3, <1>5, <1>7 DEF Contents, Writing
<1>9. Clipped(clip'[g], n)
  BY <1>4, <1>8 DEF Clipped
<1>10. Writing'
  <2>1. Written(doc'[g], text'[g], clip'[g], pending'[g], typed')
    BY <1>1, <1>2, <1>6, <1>8, <1>9 DEF Written
  <2> QED
    BY <1>1, <1>6, <1>8, <2>1, WritingBy DEF Contents
<1>11. Notices'
  BY <1>1, <1>6, NoticesBy DEF Contents
<1>12. Counters'
  BY <1>1, <1>6 DEF Contents, Counters, server
<1> QED
  BY <1>10, <1>11, <1>12 DEF Contents

(* pasteText, one character of it.                                         *)
LEMMA PasteTextContents ==
  ASSUME Types, Finite, Places, Contents, NEW g \in Guests, PasteText(g)
  PROVE  Contents'
<1>1. typed \in Nat /\ typed' = typed /\ MaxTyped \in Nat
  <2>1. typed \in 0..MaxTyped /\ typed' = typed
    BY DEF Contents, Counters, PasteText
  <2> QED
    BY <2>1, BoundsAre
<1> DEFINE k == clip[g]   chars == k.chars   pos == k.from   c == Head(chars)
<1>2. Written(doc[g], text[g], k, pending[g], typed)
  BY DEF Contents, Writing
<1>3. k # NoPaste /\ chars \in Seq(1..typed) /\ chars # <<>> /\ pos \in Nat
  BY <1>2 DEF Written, Clipped, PasteText
<1>4. c \in 1..typed /\ Tail(chars) \in Seq(1..typed) /\ Len(Tail(chars)) = Len(chars) - 1
  <2> HIDE DEF chars
  <2> QED
    BY <1>3, HeadTailProperties
<1>5. /\ UNCHANGED <<server, stage, text, sent, last, told, typed, erased>>
      /\ \E also \in SUBSET Oddities :
           Mint(g, pos, c, also) \/ NoteNull(g, pos, c, also) \/ NoteNothing(g, pos, also)
      /\ \/ clip' = [clip EXCEPT ![g] = NoPaste]
         \/ Len(chars) # 1 /\ clip' = [clip EXCEPT ![g] = PasteRest(g)]
  <2> DEFINE shifted == IF text[g] = clip[g].text THEN {} ELSE {"shifted"}
  <2>1. shifted \in SUBSET Oddities
    BY DEF Oddities
  <2>2. \/ /\ Mint(g, pos, c, shifted) \/ NoteNull(g, pos, c, shifted)
           /\ clip' = [clip EXCEPT ![g] = IF Len(chars) = 1 THEN NoPaste ELSE PasteRest(g)]
        \/ /\ NoteNothing(g, pos, shifted)
           /\ clip' = [clip EXCEPT ![g] = NoPaste]
    BY DEF PasteText
  <2>3. UNCHANGED <<server, stage, text, sent, last, told, typed, erased>>
    BY DEF PasteText
  <2> HIDE DEF shifted, pos, c, chars
  <2> QED
    BY <2>1, <2>2, <2>3
<1>6. /\ Alone(g) /\ Proper(doc'[g]) /\ Sane(pending'[g], typed)
      /\ minted' \subseteq Tags /\ odd' \subseteq Oddities
  <2>1. Proper(doc[g]) /\ Sane(pending[g], typed) /\ minted \subseteq Tags /\ odd \subseteq Oddities
    BY <1>2 DEF Written, Contents, Counters
  <2>2. typed > 0
    BY <1>1, <1>4
  <2>3. PICK also \in SUBSET Oddities :
          Mint(g, pos, c, also) \/ NoteNull(g, pos, c, also) \/ NoteNothing(g, pos, also)
    BY <1>5
  <2> HIDE DEF pos, c
  <2> QED
    BY <1>1, <1>3, <1>4, <2>1, <2>2, <2>3, MintWrites
<1>7. Clipped(clip'[g], typed) /\ \A h \in Guests \ {g} : clip'[h] = clip[h]
  <2>1. clip = [h \in Guests |-> clip[h]]
    BY DEF Types, PageTypes
  <2>2. CASE clip' = [clip EXCEPT ![g] = NoPaste]
    <3>1. clip'[g] = NoPaste /\ \A h \in Guests \ {g} : clip'[h] = clip[h]
      BY <2>1, <2>2
    <3> QED
      BY <1>1, <3>1, NoPasteClipped
  <2>3. CASE Len(chars) # 1 /\ clip' = [clip EXCEPT ![g] = PasteRest(g)]
    <3> DEFINE q == PasteRest(g)
    <3>1. clip'[g] = q /\ \A h \in Guests \ {g} : clip'[h] = clip[h]
      <4> HIDE DEF q
      <4>1. clip' = [clip EXCEPT ![g] = q]
        BY <2>3 DEF q
      <4> QED
        BY <2>1, <4>1
    <3>2. k = [from |-> k.from, chars |-> k.chars, text |-> k.text, running |-> k.running]
      BY <1>2 DEF Written, Clipped
    <3>3. q = [from |-> pos + 1, chars |-> Tail(chars), text |-> k.text, running |-> TRUE]
      <4> DEFINE r == [k EXCEPT !.from = pos + 1, !.chars = Tail(chars), !.running = TRUE]
      <4>1. q = r
        BY DEF PasteRest
      <4> HIDE DEF k
      <4>2. r = [from |-> pos + 1, chars |-> Tail(chars), text |-> k.text, running |-> TRUE]
        <5>1. PICK f : f = pos + 1
          OBVIOUS
        <5>2. PICK w : w = Tail(chars)
          OBVIOUS
        <5>3. PICK m : m = k
          OBVIOUS
        <5>4. m = [from |-> m.from, chars |-> m.chars, text |-> m.text, running |-> m.running]
          BY <3>2, <5>3
        <5>5. [m EXCEPT !.from = f, !.chars = w, !.running = TRUE]
                = [from |-> f, chars |-> w, text |-> m.text, running |-> TRUE]
          <6>1. PICK m1 : m1 = [m EXCEPT !.from = f]
            OBVIOUS
          <6>2. PICK m2 : m2 = [m1 EXCEPT !.chars = w]
            OBVIOUS
          <6>3. PICK m3 : m3 = [m2 EXCEPT !.running = TRUE]
            OBVIOUS
          <6>4. m1 = [from |-> f, chars |-> m.chars, text |-> m.text, running |-> m.running]
            BY <5>4, <6>1
          <6>5. m2 = [from |-> f, chars |-> w, text |-> m.text, running |-> m.running]
            BY <6>2, <6>4
          <6>6. m3 = [from |-> f, chars |-> w, text |-> m.text, running |-> TRUE]
            BY <6>3, <6>5
          <6>7. m3 = [m EXCEPT !.from = f, !.chars = w, !.running = TRUE]
            BY <6>1, <6>2, <6>3, Zenon
          <6> QED
            BY <6>6, <6>7, Zenon
        <5> HIDE DEF pos, chars
        <5> QED
          BY <5>1, <5>2, <5>3, <5>5
      <4> QED
        BY <4>1, <4>2
    <3>4. Tail(chars) # <<>>
      <4>1. Len(chars) \in Nat \ {0} /\ Len(<<>>) = 0
        <5> HIDE DEF chars
        <5> QED
          BY <1>3, EmptySeq
      <4>2. Len(chars) # 1
        BY <2>3
      <4>3. PICK n \in Nat \ {0} : n = Len(chars)
        BY <4>1
      <4> HIDE DEF chars
      <4>4. Len(Tail(chars)) # 0
        BY <1>4, <4>2, <4>3
      <4> QED
        BY <4>1, <4>4
    <3> HIDE DEF q, chars, pos
    <3>5. Clipped(q, typed)
      BY <1>3, <1>4, <3>3, <3>4 DEF Clipped
    <3> QED
      BY <3>1, <3>5
  <2> QED
    BY <1>5, <2>2, <2>3
<1> HIDE DEF k, chars, pos, c
<1>8. Writing'
  <2>1. Written(doc'[g], text'[g], clip'[g], pending'[g], typed')
    BY <1>1, <1>2, <1>5, <1>6, <1>7 DEF Written
  <2>2. text' = [h \in Guests |-> text'[h]] /\ typed <= typed'
    BY <1>1, <1>5 DEF Contents, Writing
  <2> QED
    BY <1>1, <1>5, <1>6, <1>7, <2>1, <2>2, WritingBy DEF Alone, Contents
<1>9. Notices'
  <2>1. typed <= typed'
    BY <1>1
  <2> QED
    BY <1>1, <1>5, <2>1, NoticesBy DEF Contents
<1>10. Counters'
  BY <1>1, <1>5, <1>6 DEF Contents, Counters, server
<1> QED
  BY <1>8, <1>9, <1>10 DEF Contents

(* The tags that are to be hidden come after the first of the list.        *)
LEMMA GoneIs ==
  ASSUME NEW d, Proper(d), NEW from \in Nat, NEW to \in Nat
  PROVE  \A t \in {DeleteTag(d, p) : p \in {q \in (from + 1)..to : Deletable(d, q)}} :
           t \in 1..NullTag
<1> SUFFICES ASSUME NEW p \in (from + 1)..to, Deletable(d, p)
             PROVE  DeleteTag(d, p) \in 1..NullTag
  OBVIOUS
<1> DEFINE n == Len(d.tags)
<1>1. n \in Nat /\ n >= 2 /\ d.tags \in Seq(Tags) /\ \A k \in 2..n : d.tags[k] # 0
  BY DEF Proper, Listed, Ended
<1>2. p \in Nat /\ p >= 1 /\ p <= n - 2
  <2>1. CountShown(d) \in 0..(n - 2) /\ p <= CountShown(d)
    BY CountShownBound DEF Deletable
  <2> HIDE DEF n
  <2> QED
    BY <1>1, <2>1
<1>3. p + 1 \in 2..n
  BY <1>1, <1>2
<1>4. d.tags[p + 1] \in Tags /\ d.tags[p + 1] # 0
  BY <1>1, <1>3
<1>5. \A t \in Tags : t # 0 => t \in 1..NullTag
  BY OneAssumption, SMT DEF Tags, NullTag
<1> QED
  BY <1>4, <1>5 DEF DeleteTag

(* Backspace.                                                              *)
LEMMA EraseContents ==
  ASSUME Types, Finite, Places, Contents, NEW g \in Guests, Erase(g)
  PROVE  Contents'
<1>1. typed \in Nat /\ typed' = typed /\ erased' \in 0..MaxErase
  <2>1. typed \in 0..MaxTyped /\ typed' = typed /\ erased \in 0..MaxErase
        /\ erased < MaxErase /\ erased' = erased + 1
    BY DEF Contents, Counters, Erase
  <2> QED
    BY <2>1, BoundsAre
<1>2. Written(doc[g], text[g], clip[g], pending[g], typed)
  BY DEF Contents, Writing
<1> DEFINE d == doc[g]
           Gone(i, j) == {DeleteTag(d, p) : p \in {q \in (i + 1)..j : Deletable(d, q)}}
           Without(gone) == [t \in DOMAIN pending[g] \cup gone |->
                               IF t \in gone THEN Nul ELSE pending[g][t]]
<1>3. PICK from \in 0..Len(text[g]), to \in 0..Len(text[g]) :
        /\ from < to
        /\ doc' = [doc EXCEPT ![g] = Hide(d, Gone(from, to))]
        /\ text' = [text EXCEPT ![g] = TextRemove(text[g], from, to)]
        /\ pending' = [pending EXCEPT ![g] = Without(Gone(from, to))]
  BY DEF Erase
<1>4. UNCHANGED <<server, stage, clip, sent, last, told, typed, minted, odd>>
  BY DEF Erase
<1>5. /\ doc = [h \in Guests |-> doc[h]] /\ pending = [h \in Guests |-> pending[h]]
      /\ text = [h \in Guests |-> text[h]]
  BY DEF Types, PageTypes, Contents, Writing
<1>6. Len(text[g]) \in Nat /\ text[g] \in Seq(1..typed) /\ Proper(d) /\ Sane(pending[g], typed)
  BY <1>2 DEF Written
<1>7. PICK gone : gone = Gone(from, to)
  OBVIOUS
<1>8. \A t \in gone : t \in 1..NullTag
  <2>1. from \in Nat /\ to \in Nat
    BY <1>6
  <2> HIDE DEF d
  <2> QED
    BY <1>6, <1>7, <2>1, GoneIs
<1>9. /\ Proper(doc'[g]) /\ \A h \in Guests \ {g} : doc'[h] = doc[h]
  <2>1. doc' = [doc EXCEPT ![g] = Hide(d, gone)]
    BY <1>3, <1>7
  <2>2. doc'[g] = Hide(d, gone) /\ \A h \in Guests \ {g} : doc'[h] = doc[h]
    BY <1>5, <2>1
  <2>3. 0 \notin gone
    BY <1>8
  <2> QED
    BY <1>6, <2>2, <2>3, HideProper
<1>10. /\ Sane(pending'[g], typed) /\ \A h \in Guests \ {g} : pending'[h] = pending[h]
  <2>1. pending' = [pending EXCEPT ![g] = Without(gone)]
    BY <1>3, <1>7
  <2>2. pending'[g] = Without(gone) /\ \A h \in Guests \ {g} : pending'[h] = pending[h]
    BY <1>5, <2>1
  <2>3. Sane(Without(gone), typed)
    BY <1>1, <1>6, <1>8 DEF Sane, Nul
  <2> QED
    BY <2>2, <2>3
<1>11. /\ text' = [h \in Guests |-> text'[h]] /\ text'[g] \in Seq(1..typed)
       /\ \A h \in Guests \ {g} : text'[h] = text[h]
  <2>1. PICK s \in Seq(1..typed) : s = text[g]
    BY <1>6
  <2>2. PICK i \in 0..Len(s) : i = from
    BY <2>1
  <2>3. PICK j \in i..Len(s) : j = to
    BY <1>3, <1>6, <2>1, <2>2
  <2>4. TextRemove(s, i, j) \in Seq(1..typed)
    BY TextRemoveIs
  <2> QED
    BY <1>3, <1>5, <2>1, <2>2, <2>3, <2>4
<1> HIDE DEF d, Gone, Without
<1>12. Writing'
  <2>1. Written(doc'[g], text'[g], clip'[g], pending'[g], typed')
    BY <1>1, <1>2, <1>4, <1>9, <1>10, <1>11 DEF Written
  <2>2. typed <= typed'
    BY <1>1
  <2> QED
    BY <1>1, <1>4, <1>9, <1>10, <1>11, <2>1, <2>2, WritingBy DEF Contents
<1>13. Notices'
  <2>1. typed <= typed'
    BY <1>1
  <2> QED
    BY <1>1, <1>4, <2>1, NoticesBy DEF Contents
<1>14. Counters'
  BY <1>1, <1>4 DEF Contents, Counters, server
<1> QED
  BY <1>12, <1>13, <1>14 DEF Contents

(* The Delete key.                                                         *)
LEMMA DeleteKeyContents ==
  ASSUME Types, Finite, Places, Contents, NEW g \in Guests, DeleteKey(g)
  PROVE  Contents'
<1>1. typed \in Nat /\ typed' = typed /\ erased' \in 0..MaxErase
  <2>1. typed \in 0..MaxTyped /\ typed' = typed /\ erased \in 0..MaxErase
        /\ erased < MaxErase /\ erased' = erased + 1
    BY DEF Contents, Counters, DeleteKey
  <2> QED
    BY <2>1, BoundsAre
<1>2. Written(doc[g], text[g], clip[g], pending[g], typed) /\ text = [h \in Guests |-> text[h]]
  BY DEF Contents, Writing
<1>3. PICK from \in 0..Len(text[g]), to \in 0..Len(text[g]) :
        from < to /\ text' = [text EXCEPT ![g] = TextRemove(text[g], from, to)]
  BY DEF DeleteKey
<1>4. UNCHANGED <<server, stage, doc, clip, pending, sent, last, told, typed, minted, odd>>
  BY DEF DeleteKey
<1>5. Len(text[g]) \in Nat /\ text[g] \in Seq(1..typed)
  BY <1>2 DEF Written
<1>6. /\ text' = [h \in Guests |-> text'[h]] /\ text'[g] \in Seq(1..typed)
      /\ \A h \in Guests \ {g} : text'[h] = text[h]
  <2>1. PICK s \in Seq(1..typed) : s = text[g]
    BY <1>5
  <2>2. PICK i \in 0..Len(s) : i = from
    BY <2>1
  <2>3. PICK j \in i..Len(s) : j = to
    BY <1>3, <1>5, <2>1, <2>2
  <2>4. TextRemove(s, i, j) \in Seq(1..typed)
    BY TextRemoveIs
  <2> QED
    BY <1>2, <1>3, <2>1, <2>2, <2>3, <2>4
<1>7. typed <= typed'
  BY <1>1
<1>8. Writing'
  <2>1. Written(doc'[g], text'[g], clip'[g], pending'[g], typed')
    BY <1>2, <1>4, <1>6 DEF Written
  <2> QED
    BY <1>1, <1>4, <1>6, <1>7, <2>1, WritingBy DEF Contents
<1>9. Notices'
  BY <1>1, <1>4, <1>7, NoticesBy DEF Contents
<1>10. Counters'
  BY <1>1, <1>4 DEF Contents, Counters, server
<1> QED
  BY <1>8, <1>9, <1>10 DEF Contents

(* The highest id that a page has received.                                *)
LEMMA NewestIs ==
  ASSUME NEW n \in Nat, NEW S, S \subseteq {-1} \cup 1..n, S # {}
  PROVE  \E k \in S : \A i \in S : i <= k
<1> DEFINE T == {i + 1 : i \in S}
<1>1. T \subseteq 0..(n + 1) /\ T # {}
  <2>1. \A i \in S : i + 1 \in 0..(n + 1)
    OBVIOUS
  <2> QED
    BY <2>1
<1>2. PICK m \in T : \A i \in T : i <= m
  <2> HIDE DEF T
  <2>1. n + 1 \in Nat
    OBVIOUS
  <2> QED
    BY <1>1, <2>1, Greatest
<1>3. PICK k \in S : m = k + 1
  BY <1>2
<1>4. \A i \in S : i + 1 <= k + 1 /\ i \in Int /\ k \in Int
  BY <1>2, <1>3
<1> QED
  BY <1>4

(* It grows, and no answer gets past it.                                   *)
LEMMA NewsLast ==
  ASSUME Types, Contents, NEW g \in Guests, News(g)
  PROVE  LET ids == {tr[1] : tr \in answer[<<g, "heartbeat">>].transactions}
         IN  /\ last' = [h \in Guests |-> last'[h]]
             /\ \A h \in Guests : last'[h] \in {-1} \cup DOMAIN log
             /\ \A h \in Guests \ {g} : last'[h] = last[h]
             /\ last[g] <= last'[g] /\ \A i \in ids : i <= last'[g]
             /\ last'[g] \in {last[g]} \cup ids
<1> DEFINE a == answer[<<g, "heartbeat">>]   ids == {tr[1] : tr \in a.transactions}
           S == {last[g]} \cup ids
<1>1. /\ a # Server!NoAnswer
      /\ last' = [last EXCEPT ![g] = CHOOSE k \in S : \A i \in S : i <= k]
  BY DEF News, Server!Collect
<1>2. \A tr \in a.transactions : tr[1] \in DOMAIN log
  BY <1>1 DEF Contents, Notices
<1>3. last = [h \in Guests |-> last[h]] /\ \A h \in Guests : last[h] \in {-1} \cup DOMAIN log
  BY DEF Contents, Counters
<1>4. S \subseteq {-1} \cup DOMAIN log /\ S # {}
  <2> HIDE DEF a
  <2> QED
    BY <1>2, <1>3
<1>5. last[g] \in S /\ \A i \in ids : i \in S
  OBVIOUS
<1> HIDE DEF S
<1>6. \E k \in S : \A i \in S : i <= k
  <2>1. PICK n \in Nat : DOMAIN log = 1..n
    BY DEF Types, LogTypes
  <2> QED
    BY <1>4, <2>1, NewestIs
<1>7. PICK k : k = CHOOSE x \in S : \A i \in S : i <= x
  OBVIOUS
<1>8. k \in S /\ \A i \in S : i <= k
  BY <1>6, <1>7
<1>9. /\ last'[g] = k /\ \A h \in Guests \ {g} : last'[h] = last[h]
      /\ last' = [h \in Guests |-> last'[h]]
  <2>1. last' = [last EXCEPT ![g] = k]
    BY <1>1, <1>7
  <2> QED
    BY <1>3, <2>1
<1>10. \A h \in Guests : last'[h] \in {-1} \cup DOMAIN log
  BY <1>3, <1>4, <1>8, <1>9
<1> HIDE DEF ids, a
<1>11. last[g] <= last'[g] /\ \A i \in ids : i <= last'[g]
  BY <1>5, <1>8, <1>9
<1>12. last'[g] \in {last[g]} \cup ids
  BY <1>8, <1>9 DEF S
<1> QED
  BY <1>9, <1>10, <1>11, <1>12 DEF ids, a

(* The answer of a heartbeat is attached.                                  *)
LEMMA NewsContents ==
  ASSUME Types, Finite, Places, Contents, NEW g \in Guests, News(g)
  PROVE  Contents'
<1> DEFINE a == answer[<<g, "heartbeat">>]
           p == [doc |-> doc[g], text |-> text[g]]
<1>1. typed \in Nat /\ typed' = typed /\ typed <= typed'
  <2>1. typed \in 0..MaxTyped /\ typed' = typed
    BY DEF Contents, Counters, News, history
  <2> QED
    BY <2>1, BoundsAre
<1>2. Written(doc[g], text[g], clip[g], pending[g], typed)
  BY DEF Contents, Writing
<1>3. PICK changes \in Deliveries(a.transactions), clamps \in BOOLEAN :
        /\ doc' = [doc EXCEPT ![g] = AttachAll(p, changes, clamps).doc]
        /\ text' = [text EXCEPT ![g] = AttachAll(p, changes, clamps).text]
  BY DEF News
<1>4. /\ UNCHANGED <<stage, clip, pending, sent, history>> /\ a # Server!NoAnswer
      /\ UNCHANGED <<members, log, own>>
  BY DEF News, Server!Collect
<1>5. /\ IsFiniteSet(a.transactions) /\ \A tr \in a.transactions : IsFiniteSet(DOMAIN tr[2])
      /\ \A tr \in a.transactions : tr[1] \in DOMAIN log /\ Sane(tr[2], typed)
  BY <1>4 DEF Finite, Contents, Notices
<1>6. changes \in Seq(Changes(a.transactions))
  <2> HIDE DEF a
  <2> QED
    BY <1>3, <1>5, DeliveriesAre
<1>7. \A x \in Changes(a.transactions) :
        /\ x.tag \in 1..NullTag /\ x.ch \in (1..typed) \cup {Nul}
        /\ x.tag = One => x.ch = Nul
  <2> HIDE DEF a
  <2>1. ASSUME NEW x \in Changes(a.transactions)
        PROVE  \E tr \in a.transactions : \E t \in DOMAIN tr[2] : x.tag = t /\ x.ch = tr[2][t]
    BY DEF Changes
  <2>2. \A v : v \in 0..typed => v \in (1..typed) \cup {Nul}
    BY <1>1 DEF Nul
  <2> QED
    BY <1>5, <2>1, <2>2 DEF Sane
<1>8. PICK q : q = AttachAll(p, changes, clamps)
  OBVIOUS
<1>9. Proper(q.doc) /\ q.text \in Seq(1..typed)
  <2>1. Proper(p.doc) /\ p.text \in Seq(1..typed)
    BY <1>2 DEF Written
  <2>2. \A k \in 1..Len(changes) :
          /\ changes[k].tag \in 1..NullTag /\ changes[k].ch \in (1..typed) \cup {Nul}
          /\ changes[k].tag = One => changes[k].ch = Nul
    <3> HIDE DEF a
    <3>1. \A k \in 1..Len(changes) : changes[k] \in Changes(a.transactions)
      BY <1>6
    <3> QED
      BY <1>7, <3>1
  <2>3. (1..typed) \in SUBSET Nat
    BY <1>1
  <2> HIDE DEF p, a
  <2>4. /\ Proper(AttachAll(p, changes, clamps).doc)
        /\ AttachAll(p, changes, clamps).text \in Seq(1..typed)
    BY <1>6, <2>1, <2>2, <2>3, AttachAllProper
  <2> QED
    BY <1>8, <2>4
<1>10. /\ doc'[g] = q.doc /\ text'[g] = q.text /\ text' = [h \in Guests |-> text'[h]]
       /\ \A h \in Guests \ {g} : doc'[h] = doc[h] /\ text'[h] = text[h]
  <2>1. doc = [h \in Guests |-> doc[h]] /\ text = [h \in Guests |-> text[h]]
    BY DEF Types, PageTypes, Contents, Writing
  <2>2. doc' = [doc EXCEPT ![g] = q.doc] /\ text' = [text EXCEPT ![g] = q.text]
    BY <1>3, <1>8
  <2> QED
    BY <2>1, <2>2
<1>11. /\ last' = [h \in Guests |-> last'[h]]
       /\ \A h \in Guests : last'[h] \in {-1} \cup DOMAIN log
  BY NewsLast
<1> HIDE DEF a, p
<1>13. Writing'
  <2>1. Written(doc'[g], text'[g], clip'[g], pending'[g], typed')
    BY <1>1, <1>2, <1>4, <1>9, <1>10 DEF Written
  <2> QED
    BY <1>1, <1>4, <1>10, <2>1, WritingBy DEF Contents
<1>14. Notices'
  BY <1>1, <1>4, NoticesBy DEF Contents
<1>15. Counters'
  BY <1>4, <1>11 DEF Contents, Counters, history
<1> QED
  BY <1>13, <1>14, <1>15 DEF Contents

(* The steps that write nothing.                                           *)
LEMMA OtherContents ==
  ASSUME Types, Finite, Places, Contents, NEW g \in Guests,
         Load(g) \/ Joined(g) \/ Heartbeat(g) \/ Acknowledged(g)
  PROVE  Contents'
<1>1. /\ UNCHANGED <<doc, text, clip, pending, last, history>>
      /\ typed \in Nat /\ typed' \in Nat /\ typed <= typed'
  <2>1. UNCHANGED <<doc, text, clip, pending, last, history>>
    BY DEF Load, Joined, Heartbeat, Acknowledged
  <2>2. typed \in Nat
    BY BoundsAre DEF Contents, Counters
  <2> QED
    BY <2>1, <2>2 DEF history
<1>2. UNCHANGED <<members, log, own>>
  BY OtherStep
<1>3. \A h \in Guests : sent'[h] = sent[h] \/ sent'[h] = NoChange
  <2>1. sent = [h \in Guests |-> sent[h]]
    BY DEF Types, PageTypes
  <2>2. sent' = sent \/ sent' = [sent EXCEPT ![g] = NoChange]
    BY DEF Load, Joined, Heartbeat, Acknowledged
  <2> QED
    BY <2>1, <2>2
<1>4. Writing'
  BY <1>1 DEF Contents, Writing, history
<1>5. Notices'
  BY <1>1, <1>3, NoticesBy DEF Contents
<1>6. stage' \in [Guests -> {"closed", "open", "in"}]
  BY DEF Load, Joined, Heartbeat, Acknowledged, Contents, Counters
<1>7. Counters'
  BY <1>1, <1>2, <1>6 DEF Contents, Counters, history
<1> QED
  BY <1>4, <1>5, <1>7 DEF Contents

(* A login.                                                                *)
LEMMA LoginContents ==
  ASSUME Types, Contents, NEW g \in Guests, Login(g)
  PROVE  Contents'
<1>1. /\ UNCHANGED <<log, stage, doc, text, clip, pending, sent, last, told, history>>
      /\ \A d \in Calls : d # <<g, "login">> => answer'[d] = answer[d]
  BY LoginStep
<1>2. \A h \in Guests : answer'[<<h, "heartbeat">>] = answer[<<h, "heartbeat">>]
  <2>1. \A h \in Guests : <<h, "heartbeat">> \in Calls /\ <<h, "heartbeat">> # <<g, "login">>
    BY DEF Calls
  <2> QED
    BY <1>1, <2>1
<1>3. Writing' /\ Counters'
  BY <1>1 DEF Contents, Writing, Counters, history
<1>4. Notices'
  BY <1>1, <1>2 DEF Contents, Notices, history
<1> QED
  BY <1>3, <1>4 DEF Contents

(* The pending changes become a request.                                   *)
LEMMA SendContents ==
  ASSUME Types, Contents, NEW g \in Guests, Send(g)
  PROVE  Contents'
<1>1. /\ UNCHANGED <<server, stage, doc, text, clip, last, told, history>>
      /\ sent' = [sent EXCEPT ![g] = pending[g]]
      /\ pending' = [pending EXCEPT ![g] = NoChange]
  BY DEF Send
<1>2. UNCHANGED <<members, log, own, answer, typed, erased, minted, odd>>
  BY <1>1 DEF server, history
<1>3. sent = [h \in Guests |-> sent[h]] /\ pending = [h \in Guests |-> pending[h]]
  BY DEF Types, PageTypes
<1>4. /\ sent'[g] = pending[g] /\ pending'[g] = NoChange
      /\ \A h \in Guests \ {g} : sent'[h] = sent[h] /\ pending'[h] = pending[h]
  BY <1>1, <1>3
<1>5. Sane(NoChange, typed)
  BY DEF Sane, NoChange
<1>6. Writing'
  <2>1. \A h \in Guests : Written(doc'[h], text'[h], clip'[h], pending'[h], typed')
    BY <1>1, <1>2, <1>4, <1>5 DEF Contents, Writing, Written
  <2> QED
    BY <1>1, <2>1 DEF Contents, Writing
<1>7. \A h \in Guests : Sane(sent'[h], typed)
  BY <1>4 DEF Contents, Writing, Written, Notices
<1>8. Notices'
  BY <1>2, <1>7 DEF Contents, Notices
<1>9. Counters'
  BY <1>1, <1>2 DEF Contents, Counters
<1> QED
  BY <1>6, <1>8, <1>9 DEF Contents

(* A request is logged.                                                    *)
LEMMA LoggedContents ==
  ASSUME Types, Places, Contents, NEW g \in Guests, Logged(g)
  PROVE  Contents' /\ Places'
<1>1. /\ UNCHANGED <<stage, doc, text, clip, pending, sent, last, told, history>>
      /\ \A d \in Calls : d # <<g, "send">> => answer'[d] = answer[d]
  BY LoggedStep
<1>2. PICK i \in Nat :
        /\ DOMAIN log' = DOMAIN log \cup {i} /\ log'[i] = sent[g]
        /\ \A j \in DOMAIN log : log'[j] = log[j]
  BY LoggedStep
<1>3. UNCHANGED members
  BY DEF Logged, Server!Publish
<1>4. \A h \in Guests : /\ answer'[<<h, "heartbeat">>] = answer[<<h, "heartbeat">>]
                        /\ answer'[<<h, "login">>] = answer[<<h, "login">>]
  <2>1. \A h \in Guests :
          /\ <<h, "heartbeat">> \in Calls /\ <<h, "heartbeat">> # <<g, "send">>
          /\ <<h, "login">> \in Calls /\ <<h, "login">> # <<g, "send">>
    BY DEF Calls
  <2> QED
    BY <1>1, <2>1
<1>5. Writing'
  BY <1>1 DEF Contents, Writing, history
<1>6. Notices'
  <2>1. Sane(sent[g], typed) /\ typed' = typed /\ sent' = sent
    BY <1>1 DEF Contents, Notices, history
  <2>2. \A j \in DOMAIN log' : Sane(log'[j], typed)
    BY <1>2, <2>1 DEF Contents, Notices
  <2> QED
    BY <1>2, <1>4, <2>1, <2>2 DEF Contents, Notices
<1>7. Counters'
  BY <1>1, <1>2 DEF Contents, Counters, history
<1>8. Places'
  BY <1>1, <1>3, <1>4 DEF Places, Placing, GuestCount
<1> QED
  BY <1>5, <1>6, <1>7, <1>8 DEF Contents

-----------------------------------------------------------------------------
(***************************************************************************)
(* An empty document between two sentinels is proper.                      *)
(***************************************************************************)
LEMMA EmptyProper == Proper(EmptyDoc)
<1> DEFINE tags == <<0, One>>
<1>1. /\ EmptyDoc.tags = tags /\ EmptyDoc.ch = [t \in {0, One} |-> Nul]
      /\ EmptyDoc.ack = [t \in {0, One} |-> TRUE]
      /\ EmptyDoc = [tags |-> EmptyDoc.tags, ch |-> EmptyDoc.ch, ack |-> EmptyDoc.ack]
  BY DEF EmptyDoc
<1>2. 0 \in Tags /\ One \in Tags /\ One # 0 /\ One \in Nat /\ One # NullTag
  BY OneAssumption, SMT DEF Tags, NullTag
<1>3. tags \in Seq(Tags) /\ Len(tags) = 2 /\ tags[1] = 0 /\ tags[2] = One
  BY <1>2
<1>4. Rank(0) <= Rank(One)
  <2>1. ~ Tiny(0) /\ 0 # NullTag
    BY OneAssumption, SMT DEF Tiny, NullTag
  <2>2. Rank(0) = 0 /\ Rank(One) \in Nat
    BY <1>2, <2>1, SMT DEF Rank
  <2> QED
    BY <2>2
<1> HIDE DEF tags
<1>5. Ranked(tags)
  <2> SUFFICES ASSUME NEW i \in DOMAIN tags, NEW j \in DOMAIN tags, i < j
               PROVE  Rank(tags[i]) <= Rank(tags[j])
    BY DEF Ranked
  <2>1. i = 1 /\ j = 2
    BY <1>3
  <2> QED
    BY <1>3, <1>4, <2>1
<1>6. Mapped(EmptyDoc)
  BY <1>1 DEF Mapped
<1>7. Listed(EmptyDoc)
  <2>1. \A k \in DOMAIN tags : tags[k] \in {0, One}
    BY <1>3
  <2> QED
    BY <1>1, <1>3, <1>5, <2>1 DEF Listed
<1>8. Charred(EmptyDoc)
  BY <1>1, <1>2 DEF Charred, Nul
<1>9. Ended(EmptyDoc)
  <2>1. \A k \in 2..2 : tags[k] # 0
    BY <1>2, <1>3
  <2>2. \A k \in 1..2 : tags[k] = One <=> k = 2
    BY <1>2, <1>3
  <2>3. 2 \in 2..2
    OBVIOUS
  <2> QED
    BY <1>1, <1>3, <2>1, <2>2, <2>3 DEF Ended
<1> QED
  BY <1>6, <1>7, <1>8, <1>9 DEF Proper

(* Nothing is written initially.                                            *)
LEMMA ContentsInitially ==
  ASSUME Init
  PROVE  Places /\ Contents
<1>1. /\ DOMAIN members = {} /\ DOMAIN log = {}
      /\ answer = [c \in Calls |-> Server!NoAnswer]
  BY DEF Init, Server!Init, Calls
<1>2. \A g \in Guests : /\ answer[<<g, "login">>] = Server!NoAnswer
                        /\ answer[<<g, "heartbeat">>] = Server!NoAnswer
  BY <1>1 DEF Calls
<1>3. Places
  BY <1>1, <1>2 DEF Init, Places
<1>4. /\ <<>> \in Seq(1..0) /\ Sane(NoChange, 0) /\ Clipped(NoPaste, 0)
  BY EmptySeq, NoPasteClipped DEF Sane, NoChange
<1>5. Writing
  BY <1>4, EmptyProper DEF Init, Writing, Written
<1>6. Notices
  BY <1>1, <1>2, <1>4 DEF Init, Notices
<1>7. Counters
  BY BoundsAre DEF Init, Counters
<1> QED
  BY <1>3, <1>5, <1>6, <1>7 DEF Contents

(* Every step keeps it.                                                    *)
LEMMA StepContents ==
  ASSUME Types, Finite, Places, Contents, [Next]_vars
  PROVE  Places' /\ Contents'
<1>1. CASE Next
  <2>1. PICK g \in Guests :
          \/ PasteText(g) \/ Load(g) \/ Joined(g)
          \/ Type(g) \/ Paste(g) \/ Erase(g) \/ DeleteKey(g)
          \/ Heartbeat(g) \/ News(g)
          \/ Login(g) \/ Send(g) \/ Logged(g) \/ Acknowledged(g)
    BY <1>1 DEF Next
  <2>2. Places'
    BY <2>1, OtherPlaces, LoginPlaces, LoggedContents
  <2>3. Contents'
    BY <2>1, PasteTextContents, TypeContents, PasteContents, EraseContents,
       DeleteKeyContents, NewsContents, OtherContents, LoginContents, SendContents,
       LoggedContents
  <2> QED
    BY <2>2, <2>3
<1>2. CASE UNCHANGED vars
  <2>1. UNCHANGED <<members, log, answer, told, stage, doc, text, clip, pending, sent, last,
                    typed, erased, minted, odd>>
    BY <1>2 DEF vars, server, history
  <2>2. Places'
    BY <2>1 DEF Places, Placing, GuestCount
  <2>3. Contents'
    BY <2>1 DEF Contents, Writing, Notices, Counters
  <2> QED
    BY <2>2, <2>3
<1> QED
  BY <1>1, <1>2

(* What TypeOK asks for.                                                   *)
LEMMA TypesGiven ==
  ASSUME Types, Places, Contents
  PROVE  TypeOK
<1>1. ASSUME NEW g \in Guests
      PROVE  /\ DocOK(doc[g])
             /\ text[g] \in Seq(1..typed) /\ clip[g].chars \in Seq(1..typed)
             /\ Told(g).index \in 0..(Cardinality(Guests) - 1)
             /\ Told(g).count \in 0..Cardinality(Guests)
             /\ last[g] \in {-1} \cup DOMAIN log
  <2>1. Written(doc[g], text[g], clip[g], pending[g], typed)
    BY DEF Contents, Writing
  <2>2. DocOK(doc[g])
    <3>1. PICK d : d = doc[g]
      OBVIOUS
    <3>2. /\ d = [tags |-> d.tags, ch |-> d.ch, ack |-> d.ack]
          /\ DOMAIN d.ch = DOMAIN d.ack /\ d.ack \in [DOMAIN d.ack -> BOOLEAN]
          /\ d.tags \in Seq(Tags) /\ \A k \in DOMAIN d.tags : d.tags[k] \in DOMAIN d.ch
          /\ DOMAIN d.ch \subseteq Tags /\ \A t \in DOMAIN d.ch : d.ch[t] \in Nat
          /\ d.ch = [t \in DOMAIN d.ch |-> d.ch[t]]
      BY <2>1, <3>1 DEF Written, Proper, Mapped, Listed, Charred
    <3>3. DOMAIN d = {"tags", "ch", "ack"}
      BY <3>2
    <3>4. d.ch \in [DOMAIN d.ch -> Nat]
      BY <3>2
    <3>5. DocOK(d)
      BY <3>2, <3>3, <3>4 DEF DocOK
    <3> QED
      BY <3>1, <3>5
  <2>3. text[g] \in Seq(1..typed) /\ clip[g].chars \in Seq(1..typed)
    BY <2>1 DEF Written, Clipped
  <2>4. Told(g).index \in 0..(GuestCount - 1) /\ Told(g).count \in 0..GuestCount
    <3>1. BrowserOf[g] \in Browsers
      BY DEF Browsers
    <3>2. GuestCount \in Nat /\ GuestCount # 0
      <4>1. Cardinality({g}) \in 0..GuestCount /\ GuestCount \in Nat
        BY SizeIs
      <4>2. Cardinality({g}) = 1
        BY FS_Singleton
      <4> QED
        BY <4>1, <4>2
    <3>3. \/ Told(g) = Unknown
          \/ Told(g).count \in 1..GuestCount /\ Told(g).index \in 0..(Told(g).count - 1)
      BY <3>1 DEF Places, Told
    <3>4. CASE Told(g) = Unknown
      BY <3>2, <3>4 DEF Unknown
    <3>5. CASE Told(g).count \in 1..GuestCount /\ Told(g).index \in 0..(Told(g).count - 1)
      BY <3>2, <3>5
    <3> QED
      BY <3>3, <3>4, <3>5
  <2>5. last[g] \in {-1} \cup DOMAIN log
    BY DEF Contents, Counters
  <2> QED
    BY <2>2, <2>3, <2>4, <2>5 DEF GuestCount
<1> QED
  BY <1>1 DEF TypeOK, Contents, Counters

(* Whatever tags the guests' pages make, and in whatever order answers     *)
(* arrive, the maps of every page (pps, ppsAck) cover its list of tags,    *)
(* every tag is one that the pages can make, every text is of characters   *)
(* that were typed, and a guest's place is below the number of guests.     *)
THEOREM TypesCorrect == Spec => []TypeOK
<1> DEFINE Inv == Kept /\ Joining /\ Places /\ Contents
<1>1. Init => Inv
  BY KeptInitially, ContentsInitially
<1>2. Inv /\ [Next]_vars => Inv'
  BY StepKeeps, StepContents DEF Kept
<1>3. Inv => TypeOK
  BY TypesGiven DEF Kept
<1> HIDE DEF Inv
<1> QED
  BY <1>1, <1>2, <1>3, PTL DEF Spec

-----------------------------------------------------------------------------
(***************************************************************************)
(* As long as no tag is made twice and every character finds a place, each *)
(* insertion is in one place on its way, and a page that has still to hear *)
(* of it does not list its tag.                                            *)
(***************************************************************************)
Smooth == odd \cap {"twice", "unplaced"} = {}
Inserts(m) == {t \in DOMAIN m : m[t] # Nul}
Unlogged(g) == answer[<<g, "send">>] = Server!NoAnswer
Unheard(g) == {i \in DOMAIN log : i > last[g] /\ ~ (g \in DOMAIN own /\ i \in own[g])}

Made ==
  /\ \A g \in Guests : /\ ListedTags(doc[g]) \subseteq minted \cup {0, One}
                       /\ Inserts(pending[g]) \subseteq minted
                       /\ Inserts(sent[g]) \subseteq minted
  /\ \A i \in DOMAIN log : Inserts(log[i]) \subseteq minted
OneSource ==
  /\ \A g, h \in Guests :
       /\ Inserts(pending[g]) \cap Inserts(sent[h]) = {}
       /\ g # h => /\ Inserts(pending[g]) \cap Inserts(pending[h]) = {}
                   /\ Inserts(sent[g]) \cap Inserts(sent[h]) = {}
  /\ \A g \in Guests : \A i \in DOMAIN log :
       /\ Inserts(pending[g]) \cap Inserts(log[i]) = {}
       /\ Unlogged(g) => Inserts(sent[g]) \cap Inserts(log[i]) = {}
  /\ \A i, j \in DOMAIN log : i # j => Inserts(log[i]) \cap Inserts(log[j]) = {}
Unlisted ==
  /\ \A g, h \in Guests : g # h =>
       /\ ListedTags(doc[g]) \cap Inserts(pending[h]) = {}
       /\ Unlogged(h) => ListedTags(doc[g]) \cap Inserts(sent[h]) = {}
  /\ \A g \in Guests : \A i \in Unheard(g) : ListedTags(doc[g]) \cap Inserts(log[i]) = {}
Carried == Made /\ OneSource /\ Unlisted

(* What a heartbeat brings has not been heard before.                      *)
Fetched ==
  \A g \in Guests : answer[<<g, "heartbeat">>] # Server!NoAnswer =>
    \A tr \in answer[<<g, "heartbeat">>].transactions :
      tr[1] \in Unheard(g) /\ tr[2] = log[tr[1]]

Fits(d, s, c) == OnceListed(d) /\ Len(s) <= CountShown(d) + Len(c.chars)
Fitting == \A g \in Guests : Fits(doc[g], text[g], clip[g])

Tidy == Smooth => Carried /\ Fitting

(* Nothing is inserted by no change.                                       *)
LEMMA NoInserts == Inserts(NoChange) = {}
BY DEF Inserts, NoChange

(* A step that inserts nothing.                                            *)
LEMMA LessCarried ==
  ASSUME Carried, UNCHANGED <<log, minted>>,
         \A h \in Guests : /\ ListedTags(doc'[h]) = ListedTags(doc[h])
                           /\ Inserts(pending'[h]) \subseteq Inserts(pending[h])
                           /\ Unheard(h)' = Unheard(h)
                           /\ \/ sent'[h] = sent[h] /\ (Unlogged(h)' => Unlogged(h))
                              \/ sent'[h] = NoChange
  PROVE  Carried'
<1>1. \A h \in Guests : /\ Inserts(sent'[h]) \subseteq Inserts(sent[h])
                        /\ Unlogged(h)' => Unlogged(h) \/ Inserts(sent'[h]) = {}
  BY NoInserts
<1>2. Made'
  <2>1. \A h \in Guests : /\ ListedTags(doc'[h]) \subseteq minted \cup {0, One}
                          /\ Inserts(pending'[h]) \subseteq minted
                          /\ Inserts(sent'[h]) \subseteq minted
    BY <1>1 DEF Carried, Made
  <2>2. \A i \in DOMAIN log : Inserts(log[i]) \subseteq minted
    BY DEF Carried, Made
  <2> QED
    BY <2>1, <2>2 DEF Made
<1>3. OneSource'
  <2>1. ASSUME NEW g \in Guests, NEW h \in Guests
        PROVE  /\ Inserts(pending'[g]) \cap Inserts(sent'[h]) = {}
               /\ g # h => /\ Inserts(pending'[g]) \cap Inserts(pending'[h]) = {}
                           /\ Inserts(sent'[g]) \cap Inserts(sent'[h]) = {}
    <3>1. /\ Inserts(pending[g]) \cap Inserts(sent[h]) = {}
          /\ g # h => /\ Inserts(pending[g]) \cap Inserts(pending[h]) = {}
                      /\ Inserts(sent[g]) \cap Inserts(sent[h]) = {}
      BY DEF Carried, OneSource
    <3>2. /\ Inserts(pending'[g]) \subseteq Inserts(pending[g])
          /\ Inserts(pending'[h]) \subseteq Inserts(pending[h])
          /\ Inserts(sent'[g]) \subseteq Inserts(sent[g])
          /\ Inserts(sent'[h]) \subseteq Inserts(sent[h])
      BY <1>1
    <3> QED
      BY <3>1, <3>2
  <2>2. ASSUME NEW g \in Guests, NEW i \in DOMAIN log
        PROVE  /\ Inserts(pending'[g]) \cap Inserts(log[i]) = {}
               /\ Unlogged(g)' => Inserts(sent'[g]) \cap Inserts(log[i]) = {}
    <3>1. /\ Inserts(pending[g]) \cap Inserts(log[i]) = {}
          /\ Unlogged(g) => Inserts(sent[g]) \cap Inserts(log[i]) = {}
      BY DEF Carried, OneSource
    <3>2. /\ Inserts(pending'[g]) \subseteq Inserts(pending[g])
          /\ Inserts(sent'[g]) \subseteq Inserts(sent[g])
          /\ Unlogged(g)' => Unlogged(g) \/ Inserts(sent'[g]) = {}
      BY <1>1
    <3> QED
      BY <3>1, <3>2
  <2>3. \A i, j \in DOMAIN log : i # j => Inserts(log[i]) \cap Inserts(log[j]) = {}
    BY DEF Carried, OneSource
  <2> QED
    BY <2>1, <2>2, <2>3 DEF OneSource
<1>4. Unlisted'
  <2>1. ASSUME NEW g \in Guests, NEW h \in Guests, g # h
        PROVE  /\ ListedTags(doc'[g]) \cap Inserts(pending'[h]) = {}
               /\ Unlogged(h)' => ListedTags(doc'[g]) \cap Inserts(sent'[h]) = {}
    <3>1. /\ ListedTags(doc[g]) \cap Inserts(pending[h]) = {}
          /\ Unlogged(h) => ListedTags(doc[g]) \cap Inserts(sent[h]) = {}
      BY <2>1 DEF Carried, Unlisted
    <3>2. /\ ListedTags(doc'[g]) = ListedTags(doc[g])
          /\ Inserts(pending'[h]) \subseteq Inserts(pending[h])
          /\ Inserts(sent'[h]) \subseteq Inserts(sent[h])
          /\ Unlogged(h)' => Unlogged(h) \/ Inserts(sent'[h]) = {}
      BY <1>1
    <3> QED
      BY <3>1, <3>2
  <2>2. ASSUME NEW g \in Guests, NEW i \in Unheard(g)'
        PROVE  ListedTags(doc'[g]) \cap Inserts(log[i]) = {}
    BY <2>2 DEF Carried, Unlisted
  <2> QED
    BY <2>1, <2>2 DEF Unlisted
<1> QED
  BY <1>2, <1>3, <1>4 DEF Carried

(* A character that is noted, smoothly.                                    *)
LEMMA MintCarried ==
  ASSUME Types, Finite, Places, Contents, Carried, Smooth',
         NEW g \in Guests, OnceListed(doc[g]), NEW pos \in Nat, NEW c \in Nat, c # Nul, NEW also,
         Mint(g, pos, c, also) \/ NoteNull(g, pos, c, also) \/ NoteNothing(g, pos, also),
         UNCHANGED <<log, own, answer, sent, last>>
  PROVE  /\ Carried' /\ OnceListed(doc'[g])
         /\ CountShown(doc'[g]) = CountShown(doc[g]) + 1
         /\ \A h \in Guests \ {g} : doc'[h] = doc[h]
<1> DEFINE t == NewTag(doc[g], pos, Told(g).index, Told(g).count)
<1>1. /\ Mint(g, pos, c, also)
      /\ t \notin minted \cup {0, One}
  BY DEF Mint, NoteNull, NoteNothing, Smooth
<1>2. /\ ~ Fails(g, pos) /\ Whole(doc[g], pos, Told(g).index, Told(g).count)
      /\ doc' = [doc EXCEPT ![g] = Add(doc[g], t, c)]
      /\ pending' = [pending EXCEPT ![g] = MapSet(pending[g], t, c)]
      /\ minted' = minted \cup {t}
  BY <1>1 DEF Mint
<1>3. t \in Tags
  <2>1. Told(g).count # 0 /\ ~ Throws(doc[g], pos)
    BY <1>2 DEF Fails
  <2>2. Told(g).count \in Nat /\ Told(g).index \in 0..(Told(g).count - 1)
    <3>1. BrowserOf[g] \in Browsers
      BY DEF Browsers
    <3>2. Unknown.count = 0 /\ GuestCount \in Nat
      BY SizeIs DEF Unknown
    <3> QED
      BY <2>1, <3>1, <3>2 DEF Places, Told
  <2>3. Proper(doc[g])
    BY DEF Contents, Writing, Written
  <2>4. PICK b : b = Told(g)
    OBVIOUS
  <2>5. NewTag(doc[g], pos, b.index, b.count) \in 1..(One - 1)
    BY <1>2, <2>1, <2>2, <2>3, <2>4, NewTagBetween
  <2>6. t \in 1..(One - 1)
    BY <2>4, <2>5
  <2> HIDE DEF t
  <2> QED
    BY <2>6, OneAssumption, SMT DEF Tags, NullTag
<1> HIDE DEF t
<1>4. /\ doc = [h \in Guests |-> doc[h]] /\ pending = [h \in Guests |-> pending[h]]
      /\ Proper(doc[g])
  BY DEF Types, PageTypes, Contents, Writing, Written
<1>5. /\ doc'[g] = Add(doc[g], t, c) /\ pending'[g] = MapSet(pending[g], t, c)
      /\ \A h \in Guests \ {g} : doc'[h] = doc[h] /\ pending'[h] = pending[h]
  BY <1>2, <1>4
<1>6. t \notin ListedTags(doc[g])
  BY <1>1 DEF Carried, Made
<1>7. /\ OnceListed(doc'[g]) /\ ListedTags(doc'[g]) = ListedTags(doc[g]) \cup {t}
      /\ CountShown(doc'[g]) = CountShown(doc[g]) + 1
  <2>1. PICK d : d = doc[g]
    OBVIOUS
  <2>2. /\ OnceListed(Add(d, t, c)) /\ ListedTags(Add(d, t, c)) = ListedTags(d) \cup {t}
        /\ CountShown(Add(d, t, c)) = CountShown(d) + 1
    BY <1>3, <1>4, <1>6, <2>1, AddCount
  <2> QED
    BY <1>5, <2>1, <2>2
<1>8. Inserts(pending'[g]) = Inserts(pending[g]) \cup {t}
  BY <1>5, <1>1 DEF Inserts, MapSet, Carried, Made
<1>9. \A h \in Guests : Unheard(h)' = Unheard(h) /\ Unlogged(h)' = Unlogged(h)
  BY DEF Unheard, Unlogged
<1> DEFINE L(h) == ListedTags(doc[h])   P(h) == Inserts(pending[h])   S(h) == Inserts(sent[h])
<1>10. \A h \in Guests : /\ ListedTags(doc'[h]) = L(h) \cup (IF h = g THEN {t} ELSE {})
                         /\ Inserts(pending'[h]) = P(h) \cup (IF h = g THEN {t} ELSE {})
                         /\ Inserts(sent'[h]) = S(h)
  BY <1>5, <1>7, <1>8
<1>11. /\ \A h \in Guests : t \notin L(h) /\ t \notin P(h) /\ t \notin S(h)
       /\ \A i \in DOMAIN log : t \notin Inserts(log[i])
  BY <1>1 DEF Carried, Made
<1>12. Made'
  <2>1. ASSUME NEW h \in Guests
        PROVE  /\ ListedTags(doc'[h]) \subseteq minted' \cup {0, One}
               /\ Inserts(pending'[h]) \subseteq minted'
               /\ Inserts(sent'[h]) \subseteq minted'
    <3>1. L(h) \subseteq minted \cup {0, One} /\ P(h) \subseteq minted /\ S(h) \subseteq minted
      BY DEF Carried, Made
    <3> HIDE DEF L, P, S
    <3> QED
      BY <1>2, <1>10, <3>1
  <2>2. \A i \in DOMAIN log : Inserts(log[i]) \subseteq minted'
    BY <1>2 DEF Carried, Made
  <2> QED
    BY <2>1, <2>2 DEF Made
<1>13. OneSource'
  <2>1. ASSUME NEW k \in Guests, NEW h \in Guests
        PROVE  /\ Inserts(pending'[k]) \cap Inserts(sent'[h]) = {}
               /\ k # h => /\ Inserts(pending'[k]) \cap Inserts(pending'[h]) = {}
                           /\ Inserts(sent'[k]) \cap Inserts(sent'[h]) = {}
    <3>1. /\ P(k) \cap S(h) = {}
          /\ k # h => P(k) \cap P(h) = {} /\ S(k) \cap S(h) = {}
      BY DEF Carried, OneSource
    <3> HIDE DEF L, P, S
    <3> QED
      BY <1>10, <1>11, <3>1
  <2>2. ASSUME NEW k \in Guests, NEW i \in DOMAIN log
        PROVE  /\ Inserts(pending'[k]) \cap Inserts(log[i]) = {}
               /\ Unlogged(k)' => Inserts(sent'[k]) \cap Inserts(log[i]) = {}
    <3>1. /\ P(k) \cap Inserts(log[i]) = {}
          /\ Unlogged(k) => S(k) \cap Inserts(log[i]) = {}
      BY DEF Carried, OneSource
    <3> HIDE DEF L, P, S
    <3> QED
      BY <1>9, <1>10, <1>11, <3>1
  <2>3. \A i, j \in DOMAIN log : i # j => Inserts(log[i]) \cap Inserts(log[j]) = {}
    BY DEF Carried, OneSource
  <2> QED
    BY <2>1, <2>2, <2>3 DEF OneSource
<1>14. Unlisted'
  <2>1. ASSUME NEW k \in Guests, NEW h \in Guests, k # h
        PROVE  /\ ListedTags(doc'[k]) \cap Inserts(pending'[h]) = {}
               /\ Unlogged(h)' => ListedTags(doc'[k]) \cap Inserts(sent'[h]) = {}
    <3>1. /\ L(k) \cap P(h) = {}
          /\ Unlogged(h) => L(k) \cap S(h) = {}
      BY <2>1 DEF Carried, Unlisted
    <3> HIDE DEF L, P, S
    <3> QED
      BY <1>9, <1>10, <1>11, <2>1, <3>1
  <2>2. ASSUME NEW k \in Guests, NEW i \in Unheard(k)
        PROVE  ListedTags(doc'[k]) \cap Inserts(log[i]) = {}
    <3>1. L(k) \cap Inserts(log[i]) = {} /\ i \in DOMAIN log
      BY DEF Carried, Unlisted, Unheard
    <3> HIDE DEF L, P, S
    <3> QED
      BY <1>10, <1>11, <3>1
  <2> QED
    BY <1>9, <2>1, <2>2 DEF Unlisted
<1> QED
  BY <1>5, <1>7, <1>12, <1>13, <1>14 DEF Carried

(* A request takes over the insertions that were pending.                  *)
LEMMA SendCarried ==
  ASSUME Types, Carried, NEW g \in Guests, Send(g)
  PROVE  Carried'
<1>1. /\ UNCHANGED <<log, own, answer, doc, last, minted>> /\ sent[g] = NoChange
      /\ sent' = [sent EXCEPT ![g] = pending[g]]
      /\ pending' = [pending EXCEPT ![g] = NoChange]
  BY DEF Send, server, history
<1>2. sent = [h \in Guests |-> sent[h]] /\ pending = [h \in Guests |-> pending[h]]
  BY DEF Types, PageTypes
<1>3. /\ sent'[g] = pending[g] /\ pending'[g] = NoChange
      /\ \A h \in Guests \ {g} : sent'[h] = sent[h] /\ pending'[h] = pending[h]
  BY <1>1, <1>2
<1>4. \A h \in Guests : Unheard(h)' = Unheard(h) /\ Unlogged(h)' = Unlogged(h)
  BY <1>1 DEF Unheard, Unlogged
<1> DEFINE P(h) == Inserts(pending[h])   S(h) == Inserts(sent[h])
<1>5. \A h \in Guests : /\ Inserts(pending'[h]) = IF h = g THEN {} ELSE P(h)
                        /\ Inserts(sent'[h]) = IF h = g THEN P(g) ELSE S(h)
  BY <1>3, NoInserts
<1>6. Made'
  <2>1. \A h \in Guests : ListedTags(doc[h]) \subseteq minted \cup {0, One} /\ P(h) \subseteq minted /\ S(h) \subseteq minted
    BY DEF Carried, Made
  <2>2. \A i \in DOMAIN log : Inserts(log[i]) \subseteq minted
    BY DEF Carried, Made
  <2> HIDE DEF P, S
  <2>3. \A h \in Guests : Inserts(pending'[h]) \subseteq minted /\ Inserts(sent'[h]) \subseteq minted
    BY <1>5, <2>1
  <2> QED
    BY <1>1, <2>1, <2>2, <2>3 DEF Made
<1>7. OneSource'
  <2>1. ASSUME NEW k \in Guests, NEW h \in Guests
        PROVE  /\ Inserts(pending'[k]) \cap Inserts(sent'[h]) = {}
               /\ k # h => /\ Inserts(pending'[k]) \cap Inserts(pending'[h]) = {}
                           /\ Inserts(sent'[k]) \cap Inserts(sent'[h]) = {}
    <3>1. \A x, y \in Guests : /\ P(x) \cap S(y) = {}
                               /\ x # y => P(x) \cap P(y) = {} /\ S(x) \cap S(y) = {}
      BY DEF Carried, OneSource
    <3> HIDE DEF P, S
    <3> QED
      BY <1>5, <3>1
  <2>2. ASSUME NEW k \in Guests, NEW i \in DOMAIN log
        PROVE  /\ Inserts(pending'[k]) \cap Inserts(log[i]) = {}
               /\ Unlogged(k)' => Inserts(sent'[k]) \cap Inserts(log[i]) = {}
    <3>1. \A x \in Guests : /\ P(x) \cap Inserts(log[i]) = {}
                            /\ Unlogged(x) => S(x) \cap Inserts(log[i]) = {}
      BY DEF Carried, OneSource
    <3> HIDE DEF P, S
    <3> QED
      BY <1>4, <1>5, <3>1
  <2>3. \A i, j \in DOMAIN log : i # j => Inserts(log[i]) \cap Inserts(log[j]) = {}
    BY DEF Carried, OneSource
  <2> QED
    BY <1>1, <2>1, <2>2, <2>3 DEF OneSource
<1>8. Unlisted'
  <2>1. ASSUME NEW k \in Guests, NEW h \in Guests, k # h
        PROVE  /\ ListedTags(doc[k]) \cap Inserts(pending'[h]) = {}
               /\ Unlogged(h)' => ListedTags(doc[k]) \cap Inserts(sent'[h]) = {}
    <3>1. /\ ListedTags(doc[k]) \cap P(h) = {}
          /\ Unlogged(h) => ListedTags(doc[k]) \cap S(h) = {}
      BY <2>1 DEF Carried, Unlisted
    <3> HIDE DEF P, S
    <3> QED
      BY <1>4, <1>5, <3>1
  <2>2. \A k \in Guests : \A i \in Unheard(k) : ListedTags(doc[k]) \cap Inserts(log[i]) = {}
    BY DEF Carried, Unlisted
  <2> QED
    BY <1>1, <1>4, <2>1, <2>2 DEF Unlisted
<1> QED
  BY <1>6, <1>7, <1>8 DEF Carried

(* The log takes them over from the request.                               *)
LEMMA LoggedCarried ==
  ASSUME Types, Carried, NEW g \in Guests, Logged(g)
  PROVE  Carried'
<1>1. /\ UNCHANGED <<doc, pending, sent, last, minted>>
      /\ g \in DOMAIN own /\ DOMAIN own' = DOMAIN own
      /\ answer[<<g, "send">>] = Server!NoAnswer
      /\ \A d \in Calls : d # <<g, "send">> => answer'[d] = answer[d]
  BY LoggedStep DEF history
<1>2. PICK i \in Nat :
        /\ i \notin DOMAIN log
        /\ DOMAIN log' = DOMAIN log \cup {i} /\ log'[i] = sent[g]
        /\ \A j \in DOMAIN log : log'[j] = log[j]
        /\ \A h \in DOMAIN own : own'[h] = IF h = g THEN own[h] \cup {i} ELSE own[h]
  BY LoggedStep
<1>3. Unlogged(g) /\ ~ Unlogged(g)' /\ \A h \in Guests \ {g} : Unlogged(h)' = Unlogged(h)
  <2>1. answer'[<<g, "send">>] # Server!NoAnswer
    <3>1. <<g, "send">> \in Calls /\ \E x : /\ Server!Give(<<g, "send">>, x)
                                            /\ x = Server!Logged(g, sent[g], Server!Cardinality(DOMAIN log) + 1)
      BY DEF Logged, Server!Publish, Calls
    <3>2. answer'[<<g, "send">>] = Server!Logged(g, sent[g], Server!Cardinality(DOMAIN log) + 1)
      BY <3>1, Gives DEF Types
    <3> QED
      BY <3>2 DEF Server!Logged, Server!NoAnswer
  <2>2. \A h \in Guests \ {g} : <<h, "send">> \in Calls /\ <<h, "send">> # <<g, "send">>
    BY DEF Calls
  <2> QED
    BY <1>1, <2>1, <2>2 DEF Unlogged
<1>4. /\ Unheard(g)' \subseteq Unheard(g)
      /\ \A h \in Guests \ {g} : Unheard(h)' \subseteq Unheard(h) \cup {i}
  BY <1>1, <1>2 DEF Unheard
<1>5. Made'
  <2>1. /\ \A h \in Guests : /\ ListedTags(doc[h]) \subseteq minted \cup {0, One}
                             /\ Inserts(pending[h]) \subseteq minted /\ Inserts(sent[h]) \subseteq minted
        /\ \A j \in DOMAIN log : Inserts(log[j]) \subseteq minted
    BY DEF Carried, Made
  <2> QED
    BY <1>1, <1>2, <2>1 DEF Made
<1>6. OneSource'
  <2>1. /\ \A h, k \in Guests :
             /\ Inserts(pending[h]) \cap Inserts(sent[k]) = {}
             /\ h # k => /\ Inserts(pending[h]) \cap Inserts(pending[k]) = {}
                         /\ Inserts(sent[h]) \cap Inserts(sent[k]) = {}
        /\ \A h \in Guests : \A j \in DOMAIN log :
             /\ Inserts(pending[h]) \cap Inserts(log[j]) = {}
             /\ Unlogged(h) => Inserts(sent[h]) \cap Inserts(log[j]) = {}
        /\ \A j, k \in DOMAIN log : j # k => Inserts(log[j]) \cap Inserts(log[k]) = {}
    BY DEF Carried, OneSource
  <2>2. ASSUME NEW h \in Guests, NEW j \in DOMAIN log'
        PROVE  /\ Inserts(pending[h]) \cap Inserts(log'[j]) = {}
               /\ Unlogged(h)' => Inserts(sent[h]) \cap Inserts(log'[j]) = {}
    <3>1. CASE j = i
      BY <1>2, <1>3, <2>1, <3>1
    <3>2. CASE j # i
      BY <1>2, <1>3, <2>1, <3>2
    <3> QED
      BY <3>1, <3>2
  <2>3. ASSUME NEW j \in DOMAIN log', NEW k \in DOMAIN log', j # k
        PROVE  Inserts(log'[j]) \cap Inserts(log'[k]) = {}
    <3>1. \A x \in DOMAIN log : Inserts(sent[g]) \cap Inserts(log[x]) = {}
      BY <1>3, <2>1
    <3>2. CASE j = i
      BY <1>2, <2>3, <3>1, <3>2
    <3>3. CASE k = i
      BY <1>2, <2>3, <3>1, <3>3
    <3>4. CASE j # i /\ k # i
      BY <1>2, <2>1, <2>3, <3>4
    <3> QED
      BY <3>2, <3>3, <3>4
  <2> QED
    BY <1>1, <2>1, <2>2, <2>3 DEF OneSource
<1>7. Unlisted'
  <2>1. /\ \A h, k \in Guests : h # k =>
             /\ ListedTags(doc[h]) \cap Inserts(pending[k]) = {}
             /\ Unlogged(k) => ListedTags(doc[h]) \cap Inserts(sent[k]) = {}
        /\ \A h \in Guests : \A j \in Unheard(h) : ListedTags(doc[h]) \cap Inserts(log[j]) = {}
    BY DEF Carried, Unlisted
  <2>2. ASSUME NEW h \in Guests, NEW j \in Unheard(h)'
        PROVE  ListedTags(doc[h]) \cap Inserts(log'[j]) = {}
    <3>1. CASE j \in Unheard(h)
      <4>1. j \in DOMAIN log
        BY <3>1 DEF Unheard
      <4> QED
        BY <1>2, <2>1, <3>1, <4>1
    <3>2. CASE j \notin Unheard(h)
      <4>1. h # g /\ j = i
        BY <1>4, <2>2, <3>2
      <4> QED
        BY <1>2, <1>3, <2>1, <4>1
    <3> QED
      BY <3>1, <3>2
  <2>3. \A h, k \in Guests : h # k =>
          (Unlogged(k)' => ListedTags(doc[h]) \cap Inserts(sent[k]) = {})
    BY <1>3, <2>1
  <2> QED
    BY <1>1, <2>1, <2>2, <2>3 DEF Unlisted
<1> QED
  BY <1>5, <1>6, <1>7 DEF Carried

(* The changes of an answer, to page p of g: their insertions are new to   *)
(* it, and different.                                                      *)
Ids(transactions) == {tr[1] : tr \in transactions}
Arriving(g, p, changes) ==
  /\ changes \in Seq(Changes(answer[<<g, "heartbeat">>].transactions))
  /\ NewTo(p, changes, 1..typed) /\ Differing(changes)
  /\ \A k \in 1..Len(changes) :
       /\ changes[k].id \in Unheard(g) /\ changes[k].id \in Ids(answer[<<g, "heartbeat">>].transactions)
       /\ changes[k].tag \in DOMAIN log[changes[k].id]
       /\ changes[k].ch = log[changes[k].id][changes[k].tag]
       /\ changes[k].ch # Nul => changes[k].tag \in Inserts(log[changes[k].id])

(* They are what the log has of its unheard batches.                       *)
LEMMA NewsArrives ==
  ASSUME Types, Finite, Contents, Carried, Fetched, NEW g \in Guests, News(g),
         NEW p, p = [doc |-> doc[g], text |-> text[g]]
  PROVE  \E changes, clamps :
           /\ Arriving(g, p, changes)
           /\ doc' = [doc EXCEPT ![g] = AttachAll(p, changes, clamps).doc]
           /\ text' = [text EXCEPT ![g] = AttachAll(p, changes, clamps).text]
<1> DEFINE a == answer[<<g, "heartbeat">>]
<1>1. typed \in Nat /\ p.doc = doc[g]
  <2>1. typed \in 0..MaxTyped
    BY DEF Contents, Counters
  <2> QED
    BY <2>1, BoundsAre
<1>2. PICK changes \in Deliveries(a.transactions), clamps \in BOOLEAN :
        /\ doc' = [doc EXCEPT ![g] = AttachAll(p, changes, clamps).doc]
        /\ text' = [text EXCEPT ![g] = AttachAll(p, changes, clamps).text]
  BY DEF News
<1>3. a # Server!NoAnswer
  BY DEF News, Server!Collect
<1>4. /\ IsFiniteSet(a.transactions) /\ \A tr \in a.transactions : IsFiniteSet(DOMAIN tr[2])
      /\ \A tr \in a.transactions : /\ tr[1] \in DOMAIN log /\ Sane(tr[2], typed)
                                    /\ tr[1] \in Unheard(g) /\ tr[2] = log[tr[1]]
  BY <1>3 DEF Finite, Contents, Notices, Fetched
<1>5. /\ changes \in Seq(Changes(a.transactions))
      /\ \A i, j \in 1..Len(changes) : changes[i] = changes[j] => i = j
  <2> HIDE DEF a
  <2> QED
    BY <1>2, <1>4, DeliveriesAre
<1>6. \A x \in Changes(a.transactions) :
        /\ x.tag \in 1..NullTag /\ x.ch \in (1..typed) \cup {Nul}
        /\ x.tag = One => x.ch = Nul
        /\ x = [id |-> x.id, tag |-> x.tag, ch |-> x.ch]
        /\ x.id \in Unheard(g) /\ x.ch = log[x.id][x.tag]
        /\ x.id \in Ids(a.transactions)
        /\ x.tag \in DOMAIN log[x.id]
        /\ x.ch # Nul => x.tag \in Inserts(log[x.id])
  <2> HIDE DEF a
  <2> SUFFICES ASSUME NEW x \in Changes(a.transactions)
               PROVE  /\ x.tag \in 1..NullTag /\ x.ch \in (1..typed) \cup {Nul}
                      /\ x.tag = One => x.ch = Nul
                      /\ x = [id |-> x.id, tag |-> x.tag, ch |-> x.ch]
                      /\ x.id \in Unheard(g) /\ x.ch = log[x.id][x.tag]
                      /\ x.id \in Ids(a.transactions)
                      /\ x.tag \in DOMAIN log[x.id]
                      /\ x.ch # Nul => x.tag \in Inserts(log[x.id])
    OBVIOUS
  <2>1. PICK tr \in a.transactions :
          \E t \in DOMAIN tr[2] : x = [id |-> tr[1], tag |-> t, ch |-> tr[2][t]]
    BY DEF Changes
  <2>2. PICK t \in DOMAIN tr[2] : x = [id |-> tr[1], tag |-> t, ch |-> tr[2][t]]
    BY <2>1
  <2>3. x.id = tr[1] /\ x.tag = t /\ x.ch = tr[2][t]
    BY <2>2
  <2>4. /\ t \in 1..NullTag /\ tr[2][t] \in 0..typed /\ (t = One => tr[2][t] = Nul)
        /\ tr[1] \in Unheard(g) /\ tr[2] = log[tr[1]]
    BY <1>4 DEF Sane
  <2>5. tr[2][t] \in (1..typed) \cup {Nul}
    BY <1>1, <2>4 DEF Nul
  <2>6. tr[2][t] # Nul => t \in Inserts(log[tr[1]])
    BY <2>4 DEF Inserts
  <2>7. tr[1] \in Ids(a.transactions)
    BY <2>1 DEF Ids
  <2> QED
    BY <2>1, <2>2, <2>3, <2>4, <2>5, <2>6, <2>7
<1>7. \A k \in 1..Len(changes) : changes[k] \in Changes(a.transactions)
  BY <1>5
<1>8. \A k \in 1..Len(changes) :
        /\ changes[k].tag \in 1..NullTag /\ changes[k].ch \in (1..typed) \cup {Nul}
        /\ changes[k].tag = One => changes[k].ch = Nul
        /\ changes[k].ch # Nul => changes[k].tag \notin ListedTags(p.doc)
  <2>1. \A i \in Unheard(g) : ListedTags(doc[g]) \cap Inserts(log[i]) = {}
    BY DEF Carried, Unlisted
  <2> QED
    BY <1>1, <1>6, <1>7, <2>1
<1>9. ASSUME NEW i \in 1..Len(changes), NEW j \in 1..Len(changes),
            changes[i].ch # Nul, changes[j].ch # Nul, changes[i].tag = changes[j].tag
     PROVE  i = j
  <2> DEFINE x == changes[i]   y == changes[j]
  <2>1. x \in Changes(a.transactions) /\ y \in Changes(a.transactions)
    BY <1>7
  <2>2. x.tag \in Inserts(log[x.id]) \cap Inserts(log[y.id]) /\ x.id \in DOMAIN log /\ y.id \in DOMAIN log
    BY <1>6, <1>9, <2>1 DEF Unheard
  <2>3. x.id = y.id
    BY <2>2 DEF Carried, OneSource
  <2>4. x = [id |-> x.id, tag |-> x.tag, ch |-> log[x.id][x.tag]]
    BY <1>6, <2>1
  <2>5. y = [id |-> y.id, tag |-> y.tag, ch |-> log[y.id][y.tag]]
    BY <1>6, <2>1
  <2>6. x = y
    BY <1>9, <2>3, <2>4, <2>5
  <2> QED
    BY <1>5, <2>6
<1>10. NewTo(p, changes, 1..typed) /\ Differing(changes)
  BY <1>8, <1>9 DEF NewTo, Differing
<1>11. Arriving(g, p, changes)
  <2>1. \A k \in 1..Len(changes) :
          /\ changes[k].id \in Unheard(g) /\ changes[k].id \in Ids(a.transactions)
          /\ changes[k].tag \in DOMAIN log[changes[k].id]
          /\ changes[k].ch = log[changes[k].id][changes[k].tag]
          /\ changes[k].ch # Nul => changes[k].tag \in Inserts(log[changes[k].id])
    BY <1>6, <1>7
  <2> QED
    BY <1>5, <1>10, <2>1 DEF Arriving
<1> QED
  BY <1>2, <1>11

(* Attaching them changes nothing else of a page.                          *)
LEMMA NewsCarried ==
  ASSUME Types, Finite, Contents, Carried, Fetched, NEW g \in Guests, News(g),
         Fits(doc[g], text[g], clip[g])
  PROVE  Carried' /\ Fits(doc'[g], text'[g], clip'[g])
<1> DEFINE a == answer[<<g, "heartbeat">>]
           p == [doc |-> doc[g], text |-> text[g]]
<1>1. typed \in Nat /\ Len(clip[g].chars) \in Nat
  <2>1. typed \in 0..MaxTyped /\ Clipped(clip[g], typed)
    BY DEF Contents, Counters, Writing, Written
  <2> QED
    BY <2>1, BoundsAre DEF Clipped
<1>2. Written(doc[g], text[g], clip[g], pending[g], typed)
  BY DEF Contents, Writing
<1>3. PICK changes, clamps :
        /\ Arriving(g, p, changes)
        /\ doc' = [doc EXCEPT ![g] = AttachAll(p, changes, clamps).doc]
        /\ text' = [text EXCEPT ![g] = AttachAll(p, changes, clamps).text]
  BY NewsArrives
<1>4. /\ UNCHANGED <<clip, pending, sent, minted, members, log, own>> /\ a # Server!NoAnswer
      /\ Server!Collect(<<g, "heartbeat">>)
  BY DEF News, Server!Collect, history
<1>5. PICK q : q = AttachAll(p, changes, clamps)
  OBVIOUS
<1> DEFINE ids == Ids(a.transactions)
<1> HIDE DEF a, ids
<1>6. /\ OnceListed(q.doc) /\ Len(q.text) <= CountShown(q.doc) + Len(clip[g].chars)
      /\ \A t \in ListedTags(q.doc) \ ListedTags(doc[g]) :
           \E i \in ids : i \in Unheard(g) /\ t \in Inserts(log[i])
  <2>1. /\ Proper(p.doc) /\ p.text \in Seq(1..typed) /\ OnceListed(p.doc)
        /\ Len(p.text) <= CountShown(p.doc) + Len(clip[g].chars) /\ p.doc = doc[g]
    BY <1>2 DEF Written, Fits
  <2> HIDE DEF p
  <2>2. NewTo(p, changes, 1..typed) /\ Differing(changes) /\ changes \in Seq(Changes(a.transactions))
    BY <1>3 DEF Arriving, a
  <2>3. (1..typed) \in SUBSET Nat
    BY <1>1
  <2>4. /\ OnceListed(AttachAll(p, changes, clamps).doc)
        /\ Len(AttachAll(p, changes, clamps).text)
             <= CountShown(AttachAll(p, changes, clamps).doc) + Len(clip[g].chars)
        /\ \A t \in ListedTags(AttachAll(p, changes, clamps).doc) \ ListedTags(p.doc) :
             \E k \in 1..Len(changes) : changes[k].ch # Nul /\ changes[k].tag = t
    <3>1. PICK S \in SUBSET Nat : S = 1..typed
      BY <2>3
    <3>2. PICK more \in Nat : more = Len(clip[g].chars)
      BY <1>1
    <3>3. Ahead(p, more, S)
      BY <2>1, <3>1, <3>2 DEF Ahead
    <3>4. StillAhead(p, AttachAll(p, changes, clamps), changes, more)
      BY <2>2, <3>1, <3>3, AttachAllCount
    <3> QED
      BY <3>2, <3>4 DEF StillAhead
  <2>5. \A k \in 1..Len(changes) : changes[k].ch # Nul =>
          /\ changes[k].id \in ids /\ changes[k].id \in Unheard(g)
          /\ changes[k].tag \in Inserts(log[changes[k].id])
    BY <1>3 DEF Arriving, ids, a
  <2> QED
    BY <1>5, <2>1, <2>4, <2>5
<1>7. /\ doc'[g] = q.doc /\ text'[g] = q.text /\ \A h \in Guests \ {g} : doc'[h] = doc[h]
  <2>1. doc = [h \in Guests |-> doc[h]] /\ text = [h \in Guests |-> text[h]]
    BY DEF Types, PageTypes, Contents, Writing
  <2>2. doc' = [doc EXCEPT ![g] = q.doc] /\ text' = [text EXCEPT ![g] = q.text]
    BY <1>3, <1>5
  <2> QED
    BY <2>1, <2>2
<1>8. /\ \A h \in Guests \ {g} : Unheard(h)' = Unheard(h)
      /\ Unheard(g)' \subseteq Unheard(g) \ ids
      /\ \A h \in Guests : Unlogged(h)' = Unlogged(h)
  <2>1. /\ \A h \in Guests \ {g} : last'[h] = last[h]
        /\ last[g] <= last'[g] /\ \A i \in ids : i <= last'[g]
        /\ last[g] \in {-1} \cup DOMAIN log /\ last'[g] \in {-1} \cup DOMAIN log
    BY NewsLast DEF Ids, ids, a, Contents, Counters
  <2>2. DOMAIN log \subseteq Int
    BY DEF Types, LogTypes
  <2>3. \A h \in Guests : <<h, "send">> \in Calls /\ <<h, "send">> # <<g, "heartbeat">>
    BY DEF Calls
  <2>4. <<g, "heartbeat">> \in Calls
    BY DEF Calls
  <2>5. \A h \in Guests : Unlogged(h)' = Unlogged(h)
    BY <1>4, <2>3, <2>4, Collects DEF Types, Unlogged
  <2>6. Unheard(g)' \subseteq Unheard(g) \ ids
    <3>1. ASSUME NEW i \in Unheard(g)' PROVE i \in Unheard(g) /\ i \notin ids
      <4>1. i \in DOMAIN log /\ i > last'[g] /\ ~ (g \in DOMAIN own /\ i \in own[g])
        BY <1>4, <3>1 DEF Unheard
      <4>2. i > last[g]
        BY <2>1, <2>2, <4>1
      <4>3. i \notin ids
        BY <2>1, <2>2, <4>1
      <4> QED
        BY <4>1, <4>2, <4>3 DEF Unheard
    <3> QED
      BY <3>1
  <2> QED
    BY <1>4, <2>1, <2>5, <2>6 DEF Unheard
<1>9. Made'
  <2>1. /\ \A h \in Guests : /\ ListedTags(doc[h]) \subseteq minted \cup {0, One}
                             /\ Inserts(pending[h]) \subseteq minted /\ Inserts(sent[h]) \subseteq minted
        /\ \A i \in DOMAIN log : Inserts(log[i]) \subseteq minted
    BY DEF Carried, Made
  <2>2. ListedTags(doc'[g]) \subseteq minted \cup {0, One}
    BY <1>6, <1>7, <2>1 DEF Unheard
  <2>3. \A h \in Guests : ListedTags(doc'[h]) \subseteq minted \cup {0, One}
    BY <1>7, <2>1, <2>2
  <2> QED
    BY <1>4, <2>1, <2>3 DEF Made
<1>10. OneSource'
  BY <1>4, <1>8 DEF Carried, OneSource
<1>11. Unlisted'
  <2>1. /\ \A h, k \in Guests : h # k =>
             /\ ListedTags(doc[h]) \cap Inserts(pending[k]) = {}
             /\ Unlogged(k) => ListedTags(doc[h]) \cap Inserts(sent[k]) = {}
        /\ \A h \in Guests : \A i \in Unheard(h) : ListedTags(doc[h]) \cap Inserts(log[i]) = {}
    BY DEF Carried, Unlisted
  <2>2. /\ \A k \in Guests : \A i \in DOMAIN log :
             /\ Inserts(pending[k]) \cap Inserts(log[i]) = {}
             /\ Unlogged(k) => Inserts(sent[k]) \cap Inserts(log[i]) = {}
        /\ \A i, j \in DOMAIN log : i # j => Inserts(log[i]) \cap Inserts(log[j]) = {}
    BY DEF Carried, OneSource
  <2>3. ASSUME NEW h \in Guests, NEW k \in Guests, h # k
        PROVE  /\ ListedTags(doc'[h]) \cap Inserts(pending[k]) = {}
               /\ Unlogged(k) => ListedTags(doc'[h]) \cap Inserts(sent[k]) = {}
    <3>1. CASE h # g
      BY <1>7, <2>1, <2>3, <3>1
    <3>2. CASE h = g
      <4> SUFFICES ASSUME NEW t \in ListedTags(q.doc)
                   PROVE  /\ t \notin Inserts(pending[k])
                          /\ Unlogged(k) => t \notin Inserts(sent[k])
        BY <1>7, <3>2
      <4>1. CASE t \in ListedTags(doc[g])
        BY <2>1, <2>3, <3>2, <4>1
      <4>2. CASE t \notin ListedTags(doc[g])
        <5>1. PICK i \in ids : i \in DOMAIN log /\ t \in Inserts(log[i])
          BY <1>6, <4>2 DEF Unheard
        <5> QED
          BY <2>2, <5>1
      <4> QED
        BY <4>1, <4>2
    <3> QED
      BY <3>1, <3>2
  <2>4. ASSUME NEW h \in Guests, NEW j \in Unheard(h)'
        PROVE  ListedTags(doc'[h]) \cap Inserts(log[j]) = {}
    <3>1. CASE h # g
      BY <1>7, <1>8, <2>1, <2>4, <3>1
    <3>2. CASE h = g
      <4> SUFFICES ASSUME NEW t \in ListedTags(q.doc) PROVE t \notin Inserts(log[j])
        BY <1>7, <3>2
      <4>1. j \in Unheard(g) /\ j \notin ids /\ j \in DOMAIN log
        BY <1>8, <2>4, <3>2 DEF Unheard
      <4>2. CASE t \in ListedTags(doc[g])
        BY <2>1, <4>1, <4>2
      <4>3. CASE t \notin ListedTags(doc[g])
        <5>1. PICK i \in ids : i \in DOMAIN log /\ t \in Inserts(log[i])
          BY <1>6, <4>3 DEF Unheard
        <5> QED
          BY <2>2, <4>1, <5>1
      <4> QED
        BY <4>2, <4>3
    <3> QED
      BY <3>1, <3>2
  <2> QED
    BY <1>4, <1>8, <2>3, <2>4 DEF Unlisted
<1> QED
  BY <1>4, <1>6, <1>7, <1>9, <1>10, <1>11 DEF Carried, Fits

(* Once a tag was made twice or a character found no place, that is so.    *)
LEMMA SmoothBefore ==
  ASSUME Tidy, odd \subseteq odd', Smooth'
  PROVE  Smooth /\ Carried /\ Fitting
BY DEF Smooth, Tidy

(* A step of one page.                                                     *)
LEMMA FittingBy ==
  ASSUME Fitting, NEW g \in Guests, Fits(doc'[g], text'[g], clip'[g]),
         \A h \in Guests \ {g} : doc'[h] = doc[h] /\ text'[h] = text[h] /\ clip'[h] = clip[h]
  PROVE  Fitting'
BY DEF Fitting

(* The length of what is typed over a selection.                           *)
LEMMA OverLen ==
  ASSUME NEW g \in Guests, NEW n \in Nat, text[g] \in Seq(1..n), NEW chars \in Seq(1..n),
         NEW from \in 0..Len(text[g]), NEW to \in 0..Len(text[g]), from <= to
  PROVE  Len(Over(g, from, to, chars)) <= Len(text[g]) + Len(chars)
<1>1. PICK s \in Seq(1..n) : s = text[g]
  OBVIOUS
<1> DEFINE a == SubSeq(s, 1, from)   b == SubSeq(s, to + 1, Len(s))
<1>2. from \in 0..Len(s) /\ to \in 0..Len(s) /\ Len(s) \in Nat
  BY <1>1
<1>3. a \in Seq(1..n) /\ Len(a) = from
  BY <1>2
<1>4. b \in Seq(1..n) /\ Len(b) = Len(s) - to
  BY <1>2
<1> HIDE DEF a, b
<1>5. a \o chars \in Seq(1..n) /\ Len(a \o chars) = from + Len(chars)
  BY <1>3, ConcatProperties
<1>6. Len((a \o chars) \o b) = from + Len(chars) + (Len(s) - to)
  <2>1. PICK l \in Seq(1..n) : l = a \o chars
    BY <1>5
  <2>2. Len(l \o b) = Len(l) + Len(b)
    BY <1>4, ConcatProperties
  <2> QED
    BY <1>4, <1>5, <2>1, <2>2
<1>7. Over(g, from, to, chars) = (a \o chars) \o b
  BY <1>1 DEF Over, a, b
<1>8. Len(chars) \in Nat
  OBVIOUS
<1> QED
  <2>1. PICK m \in Nat, l \in Nat : m = Len(s) /\ l = Len(chars)
    BY <1>2, <1>8
  <2>2. from + l + (m - to) <= m + l
    BY <1>2, <2>1
  <2> QED
    BY <1>1, <1>6, <1>7, <2>1, <2>2

(* What a heartbeat fetches.                                               *)
LEMMA HeartbeatFetched ==
  ASSUME Types, Places, NEW g \in Guests, Heartbeat(g)
  PROVE  \A tr \in answer'[<<g, "heartbeat">>].transactions :
           tr[1] \in Unheard(g)' /\ tr[2] = log'[tr[1]]
<1>1. /\ answer'[<<g, "heartbeat">>].transactions =
           {<<i, log[i]>> : i \in {j \in DOMAIN log : j > last[g]} \ own[g]}
      /\ UNCHANGED <<log, own, last>>
  BY HeartbeatPlacing, OtherStep DEF Heartbeat
<1> QED
  BY <1>1 DEF Unheard

(* It stays so until it is attached.                                       *)
LEMMA StepFetched ==
  ASSUME Types, Finite, Joining, Places, Contents, Fetched, [Next]_vars
  PROVE  Fetched'
<1>1. CASE UNCHANGED vars
  BY <1>1 DEF vars, server, Fetched, Unheard
<1>2. CASE Next
  <2>1. PICK g \in Guests :
          \/ PasteText(g) \/ Load(g) \/ Joined(g)
          \/ Type(g) \/ Paste(g) \/ Erase(g) \/ DeleteKey(g)
          \/ Heartbeat(g) \/ News(g)
          \/ Login(g) \/ Send(g) \/ Logged(g) \/ Acknowledged(g)
    BY <1>2 DEF Next
  <2> SUFFICES ASSUME NEW h \in Guests, answer'[<<h, "heartbeat">>] # Server!NoAnswer,
                      NEW tr \in answer'[<<h, "heartbeat">>].transactions
               PROVE  tr[1] \in Unheard(h)' /\ tr[2] = log'[tr[1]]
    BY DEF Fetched
  <2>2. <<h, "heartbeat">> \in Calls
    BY DEF Calls
  <2>3. ASSUME answer'[<<h, "heartbeat">>] = answer[<<h, "heartbeat">>]
        PROVE  /\ tr[1] \in Unheard(h) /\ tr[2] = log[tr[1]] /\ h \in DOMAIN own
               /\ tr[1] \in DOMAIN log
    BY <2>3 DEF Fetched, Joining, Unheard
  <2>4. CASE Login(g)
    <3>1. /\ UNCHANGED <<log, last>> /\ g \notin DOMAIN own
          /\ DOMAIN own' = DOMAIN own \cup {g}
          /\ \A n \in DOMAIN own : own'[n] = own[n]
          /\ \A d \in Calls : d # <<g, "login">> => answer'[d] = answer[d]
      BY <2>4, LoginStep
    <3>2. answer'[<<h, "heartbeat">>] = answer[<<h, "heartbeat">>]
      BY <2>2, <3>1
    <3> QED
      BY <2>3, <3>1, <3>2 DEF Unheard
  <2>5. CASE Logged(g)
    <3>1. /\ UNCHANGED last /\ DOMAIN own' = DOMAIN own
          /\ \A d \in Calls : d # <<g, "send">> => answer'[d] = answer[d]
      BY <2>5, LoggedStep
    <3>2. PICK i \in Nat :
            /\ i \notin DOMAIN log
            /\ DOMAIN log' = DOMAIN log \cup {i}
            /\ \A j \in DOMAIN log : log'[j] = log[j]
            /\ \A n \in DOMAIN own : own'[n] = IF n = g THEN own[n] \cup {i} ELSE own[n]
      BY <2>5, LoggedStep
    <3>3. answer'[<<h, "heartbeat">>] = answer[<<h, "heartbeat">>]
      BY <2>2, <3>1
    <3> QED
      BY <2>3, <3>1, <3>2, <3>3 DEF Unheard
  <2>6. CASE Heartbeat(g)
    <3>1. CASE h = g
      BY <2>6, <3>1, HeartbeatFetched
    <3>2. CASE h # g
      <4>1. /\ UNCHANGED <<log, own, last>>
            /\ answer'[<<h, "heartbeat">>] = answer[<<h, "heartbeat">>]
        BY <2>2, <2>6, <3>2, OtherStep DEF Heartbeat
      <4> QED
        BY <2>3, <4>1 DEF Unheard
    <3> QED
      BY <3>1, <3>2
  <2>7. CASE News(g)
    <3>1. /\ Server!Collect(<<g, "heartbeat">>) /\ <<g, "heartbeat">> \in Calls
      BY <2>7 DEF News, Calls
    <3>2. h # g /\ answer'[<<h, "heartbeat">>] = answer[<<h, "heartbeat">>]
      BY <2>2, <3>1, Collects DEF Types
    <3>3. UNCHANGED <<log, own>> /\ last'[h] = last[h]
      BY <2>7, <3>2, OtherStep, NewsLast DEF Contents, Counters
    <3> QED
      BY <2>3, <3>2, <3>3 DEF Unheard
  <2>8. CASE \/ PasteText(g) \/ Load(g) \/ Joined(g)
             \/ Type(g) \/ Paste(g) \/ Erase(g) \/ DeleteKey(g)
             \/ Send(g) \/ Acknowledged(g)
    <3>1. UNCHANGED last
      BY <2>8 DEF PasteText, Load, Joined, Type, Paste, Erase, DeleteKey, Send, Acknowledged
    <3>2. UNCHANGED <<log, own>>
      BY <2>8, OtherStep
    <3>3. answer'[<<h, "heartbeat">>] = answer[<<h, "heartbeat">>] \/ Heartbeat(g)
      BY <2>2, <2>8, OtherStep
    <3>4. CASE Heartbeat(g)
      BY <2>6, <3>4
    <3> QED
      BY <2>3, <3>1, <3>2, <3>3, <3>4 DEF Unheard
  <2> QED
    BY <2>1, <2>4, <2>5, <2>6, <2>7, <2>8
<1> QED
  BY <1>1, <1>2

(* Lengths and counts are naturals.                                        *)
LEMMA LengthsOf ==
  ASSUME NEW n \in Nat, NEW d, NEW s, NEW c, NEW p, Written(d, s, c, p, n)
  PROVE  Len(s) \in Nat /\ Len(c.chars) \in Nat /\ CountShown(d) \in Nat
<1>1. Proper(d) /\ s \in Seq(1..n) /\ c.chars \in Seq(1..n)
  BY DEF Written, Clipped
<1>2. CountShown(d) \in Nat
  BY <1>1, CountShownBound
<1> QED
  BY <1>1, <1>2

(* The lengths of a page are naturals ...                                   *)
LEMMA LengthsAre ==
  ASSUME Contents, NEW g \in Guests
  PROVE  Len(text[g]) \in Nat /\ Len(clip[g].chars) \in Nat /\ CountShown(doc[g]) \in Nat
<1>1. typed \in Nat
  BY BoundsAre DEF Contents, Counters
<1>2. Written(doc[g], text[g], clip[g], pending[g], typed)
  BY DEF Contents, Writing
<1> QED
  BY <1>1, <1>2, LengthsOf

(* ... and still are after a step.                                         *)
LEMMA LengthsWillBe ==
  ASSUME Contents', NEW g \in Guests
  PROVE  Len(text'[g]) \in Nat /\ Len(clip'[g].chars) \in Nat /\ CountShown(doc'[g]) \in Nat
<1>1. typed' \in Nat
  BY BoundsAre DEF Contents, Counters
<1>2. Written(doc'[g], text'[g], clip'[g], pending'[g], typed')
  BY DEF Contents, Writing
<1> QED
  BY <1>1, <1>2, LengthsOf

(* Typing.                                                                 *)
LEMMA TypeTidy ==
  ASSUME Types, Finite, Places, Contents, Tidy, Smooth', NEW g \in Guests, Type(g)
  PROVE  Carried' /\ Fitting'
<1> DEFINE n == typed + 1
<1>1. typed \in Nat /\ n \in Nat /\ n # Nul
  <2>1. typed \in 0..MaxTyped
    BY DEF Contents, Counters
  <2> QED
    BY <2>1, BoundsAre DEF Nul
<1>2. PICK from \in 0..Len(text[g]), to \in 0..Len(text[g]) :
        /\ from <= to
        /\ text' = [text EXCEPT ![g] = Over(g, from, to, NextChars(1))]
        /\ \/ Mint(g, from, n, {})
           \/ NoteNull(g, from, n, {})
           \/ NoteNothing(g, from, {})
  <2>1. PICK from \in 0..Len(text[g]), to \in 0..Len(text[g]) :
          /\ from = to \/ from < to
          /\ text' = [text EXCEPT ![g] = Over(g, from, to, NextChars(1))]
          /\ \/ Mint(g, from, n, {})
             \/ NoteNull(g, from, n, {})
             \/ NoteNothing(g, from, {})
    BY DEF Type
  <2>2. from <= to
    BY <2>1
  <2> QED
    BY <2>1, <2>2
<1>3. /\ UNCHANGED <<log, own, answer, clip, sent, last>>
      /\ odd \subseteq odd'
  BY <1>2 DEF Type, server, Mint, NoteNull, NoteNothing
<1>4. Carried /\ Fitting
  BY <1>3, SmoothBefore
<1>5. /\ Carried' /\ OnceListed(doc'[g])
      /\ CountShown(doc'[g]) = CountShown(doc[g]) + 1
      /\ \A h \in Guests \ {g} : doc'[h] = doc[h]
  <2>1. from \in Nat /\ OnceListed(doc[g])
    BY <1>4 DEF Fitting, Fits
  <2> HIDE DEF n
  <2> QED
    BY <1>1, <1>2, <1>3, <1>4, <2>1, MintCarried
<1>6. /\ Len(text'[g]) <= Len(text[g]) + 1
      /\ \A h \in Guests \ {g} : text'[h] = text[h]
  <2>1. /\ text = [h \in Guests |-> text[h]] /\ text[g] \in Seq(1..n)
    <3>1. text[g] \in Seq(1..typed) /\ typed <= n
      BY <1>1 DEF Contents, Writing, Written
    <3> HIDE DEF n
    <3> QED
      BY <1>1, <3>1, MoreTyped DEF Contents, Writing
  <2>2. NextChars(1) \in Seq(1..n) /\ Len(NextChars(1)) = 1
    BY <1>1, NextCharsAre
  <2> HIDE DEF n
  <2>3. Len(Over(g, from, to, NextChars(1))) <= Len(text[g]) + 1
    BY <1>1, <1>2, <2>1, <2>2, OverLen
  <2> QED
    BY <1>2, <2>1, <2>3
<1>7. Fits(doc'[g], text'[g], clip'[g])
  <2>1. Len(text[g]) <= CountShown(doc[g]) + Len(clip[g].chars)
    BY <1>4 DEF Fitting, Fits
  <2>2. /\ Len(text[g]) \in Nat /\ Len(clip[g].chars) \in Nat /\ CountShown(doc[g]) \in Nat
        /\ Len(text'[g]) \in Nat
    BY TypeContents, LengthsAre, LengthsWillBe
  <2> QED
    BY SMTT(30), <1>3, <1>5, <1>6, <2>1, <2>2 DEF Fits
<1> QED
  BY <1>3, <1>4, <1>5, <1>6, <1>7, FittingBy

(* A paste, of two characters.                                             *)
LEMMA PasteTidy ==
  ASSUME Types, Finite, Places, Contents, Tidy, Smooth', NEW g \in Guests, Paste(g)
  PROVE  Carried' /\ Fitting'
<1> DEFINE n == typed + 2
<1>1. typed \in Nat /\ n \in Nat
  <2>1. typed \in 0..MaxTyped
    BY DEF Contents, Counters
  <2> QED
    BY <2>1, BoundsAre
<1>2. PICK from \in 0..Len(text[g]), to \in 0..Len(text[g]) :
        /\ from = to \/ from < to
        /\ text' = [text EXCEPT ![g] = Over(g, from, to, NextChars(2))]
        /\ clip' = [clip EXCEPT ![g] =
             [from |-> from, chars |-> NextChars(2), text |-> text'[g], running |-> FALSE]]
  BY DEF Paste
<1>3. UNCHANGED <<log, own, answer, doc, pending, sent, last, minted, odd>> /\ clip[g] = NoPaste
  BY DEF Paste, server
<1>4. Carried /\ Fitting
  BY <1>3, SmoothBefore
<1>5. Carried'
  BY <1>3, <1>4, LessCarried DEF Unheard, Unlogged
<1>6. NextChars(2) \in Seq(1..n) /\ Len(NextChars(2)) = 2
  BY <1>1, NextCharsAre
<1>7. text[g] \in Seq(1..n) /\ text = [h \in Guests |-> text[h]]
  <2>1. text[g] \in Seq(1..typed) /\ typed <= n
    BY <1>1 DEF Contents, Writing, Written
  <2> HIDE DEF n
  <2> QED
    BY <1>1, <2>1, MoreTyped DEF Contents, Writing
<1> HIDE DEF n
<1>8. Len(Over(g, from, to, NextChars(2))) <= Len(text[g]) + 2
  <2>1. from <= to
    BY <1>2
  <2> QED
    BY <1>1, <1>6, <1>7, <2>1, OverLen
<1>9. /\ text'[g] = Over(g, from, to, NextChars(2)) /\ clip'[g].chars = NextChars(2)
      /\ \A h \in Guests \ {g} : text'[h] = text[h] /\ clip'[h] = clip[h]
  <2>1. clip = [h \in Guests |-> clip[h]]
    BY DEF Types, PageTypes
  <2> QED
    BY <1>2, <1>7, <2>1
<1>10. Fits(doc'[g], text'[g], clip'[g])
  <2>1. OnceListed(doc[g]) /\ Len(text[g]) <= CountShown(doc[g]) + Len(clip[g].chars)
    BY <1>4 DEF Fitting, Fits
  <2>2. Len(clip[g].chars) = 0
    BY <1>3, EmptySeq DEF NoPaste
  <2>3. Len(text[g]) \in Nat /\ CountShown(doc[g]) \in Nat /\ Len(text'[g]) \in Nat
    BY PasteContents, LengthsAre, LengthsWillBe
  <2>4. Len(text'[g]) <= Len(text[g]) + 2 /\ Len(clip'[g].chars) = 2 /\ doc'[g] = doc[g]
    BY <1>3, <1>6, <1>8, <1>9
  <2>5. Len(text'[g]) <= CountShown(doc[g]) + 2
    BY <2>1, <2>2, <2>3, <2>4
  <2> QED
    BY <2>1, <2>4, <2>5 DEF Fits
<1> QED
  BY <1>3, <1>4, <1>5, <1>9, <1>10, FittingBy

(* What remains of a paste.                                                *)
LEMMA PasteRestIs ==
  ASSUME NEW g, NEW n, Clipped(clip[g], n)
  PROVE  PasteRest(g) = [from |-> clip[g].from + 1, chars |-> Tail(clip[g].chars),
                         text |-> clip[g].text, running |-> TRUE]
<1>1. PICK m : m = clip[g]
  OBVIOUS
<1>2. m = [from |-> m.from, chars |-> m.chars, text |-> m.text, running |-> m.running]
  BY <1>1 DEF Clipped
<1>3. PICK f, w : f = m.from + 1 /\ w = Tail(m.chars)
  OBVIOUS
<1>4. PICK m1 : m1 = [m EXCEPT !.from = f]
  OBVIOUS
<1>5. PICK m2 : m2 = [m1 EXCEPT !.chars = w]
  OBVIOUS
<1>6. PICK m3 : m3 = [m2 EXCEPT !.running = TRUE]
  OBVIOUS
<1>7. m1 = [from |-> f, chars |-> m.chars, text |-> m.text, running |-> m.running]
  BY <1>2, <1>4
<1>8. m2 = [from |-> f, chars |-> w, text |-> m.text, running |-> m.running]
  BY <1>5, <1>7
<1>9. m3 = [from |-> f, chars |-> w, text |-> m.text, running |-> TRUE]
  BY <1>6, <1>8
<1>10. m3 = [m EXCEPT !.from = f, !.chars = w, !.running = TRUE]
  BY <1>4, <1>5, <1>6, Zenon
<1>11. PasteRest(g) = [m EXCEPT !.from = f, !.chars = w, !.running = TRUE]
  BY <1>1, <1>3 DEF PasteRest
<1> QED
  BY <1>1, <1>3, <1>9, <1>10, <1>11, Zenon

(* pasteText: a character moves from what was pasted to the document.      *)
LEMMA PasteTextTidy ==
  ASSUME Types, Finite, Places, Contents, Tidy, Smooth', NEW g \in Guests, PasteText(g)
  PROVE  Carried' /\ Fitting'
<1> DEFINE k == clip[g]   chars == k.chars   pos == k.from   c == Head(chars)
<1>1. typed \in Nat
  BY BoundsAre DEF Contents, Counters
<1>2. k # NoPaste /\ chars \in Seq(1..typed) /\ chars # <<>> /\ pos \in Nat
  BY DEF Contents, Writing, Written, Clipped, PasteText
<1>3. /\ c \in Nat /\ c # Nul
      /\ Len(Tail(chars)) = Len(chars) - 1 /\ Len(chars) \in Nat
  <2>1. c \in 1..typed /\ Len(Tail(chars)) = Len(chars) - 1 /\ Len(chars) \in Nat
    <3>1. PICK s \in Seq(1..typed) : s = chars /\ s # <<>>
      BY <1>2
    <3>2. Head(s) \in 1..typed /\ Len(Tail(s)) = Len(s) - 1 /\ Len(s) \in Nat
      <4> HIDE DEF k, chars, pos, c
      <4>1. Len(s) \in Nat
        OBVIOUS
      <4>2. Head(s) \in 1..typed /\ Len(Tail(s)) = Len(s) - 1
        BY <3>1, HeadTailProperties
      <4> QED
        BY <4>1, <4>2
    <3> QED
      BY <3>1, <3>2
  <2> QED
    BY <1>1, <2>1 DEF Nul
<1>4. /\ UNCHANGED <<log, own, answer, text, sent, last>> /\ odd \subseteq odd'
      /\ \E also :
           Mint(g, pos, c, also) \/ NoteNull(g, pos, c, also) \/ NoteNothing(g, pos, also)
  <2> DEFINE shifted == IF text[g] = clip[g].text THEN {} ELSE {"shifted"}
  <2>1. /\ UNCHANGED <<log, own, answer, text, sent, last>>
        /\ \/ Mint(g, pos, c, shifted) \/ NoteNull(g, pos, c, shifted)
           \/ NoteNothing(g, pos, shifted)
    BY DEF PasteText, server
  <2> HIDE DEF shifted, pos, c
  <2> QED
    BY <2>1 DEF Mint, NoteNull, NoteNothing
<1>5. \/ clip' = [clip EXCEPT ![g] = NoPaste] /\ Len(chars) = 1
      \/ clip' = [clip EXCEPT ![g] = PasteRest(g)]
  <2> DEFINE shifted == IF text[g] = clip[g].text THEN {} ELSE {"shifted"}
  <2>1. \/ clip' = [clip EXCEPT ![g] = IF Len(chars) = 1 THEN NoPaste ELSE PasteRest(g)]
        \/ NoteNothing(g, pos, shifted)
    BY DEF PasteText
  <2>2. ~ NoteNothing(g, pos, shifted)
    BY DEF NoteNothing, Smooth
  <2> HIDE DEF shifted, pos, chars
  <2> QED
    BY <2>1, <2>2
<1>6. Carried /\ Fitting
  BY <1>4, SmoothBefore
<1>7. /\ Carried' /\ OnceListed(doc'[g])
      /\ CountShown(doc'[g]) = CountShown(doc[g]) + 1
      /\ \A h \in Guests \ {g} : doc'[h] = doc[h]
  <2>1. OnceListed(doc[g])
    BY <1>6 DEF Fitting, Fits
  <2>2. PICK also :
          Mint(g, pos, c, also) \/ NoteNull(g, pos, c, also) \/ NoteNothing(g, pos, also)
    BY <1>4
  <2> HIDE DEF pos, c
  <2> QED
    BY <1>2, <1>3, <1>4, <1>6, <2>1, <2>2, MintCarried
<1>8. /\ Len(clip'[g].chars) = Len(chars) - 1
      /\ \A h \in Guests \ {g} : clip'[h] = clip[h]
  <2>1. clip = [h \in Guests |-> clip[h]]
    BY DEF Types, PageTypes
  <2>2. CASE clip' = [clip EXCEPT ![g] = NoPaste] /\ Len(chars) = 1
    <3>1. clip'[g] = NoPaste /\ \A h \in Guests \ {g} : clip'[h] = clip[h]
      BY <2>1, <2>2
    <3>2. Len(NoPaste.chars) = 0
      BY EmptySeq DEF NoPaste
    <3> HIDE DEF chars
    <3> QED
      BY <2>2, <3>1, <3>2
  <2>3. CASE clip' = [clip EXCEPT ![g] = PasteRest(g)]
    <3> DEFINE q == PasteRest(g)
    <3>1. clip'[g] = q /\ \A h \in Guests \ {g} : clip'[h] = clip[h]
      <4> HIDE DEF q
      <4>1. clip' = [clip EXCEPT ![g] = q]
        BY <2>3 DEF q
      <4> QED
        BY <2>1, <4>1
    <3>2. q.chars = Tail(chars)
      <4>1. Clipped(clip[g], typed)
        BY DEF Contents, Writing, Written
      <4>2. PasteRest(g) = [from |-> clip[g].from + 1, chars |-> Tail(clip[g].chars),
                            text |-> clip[g].text, running |-> TRUE]
        BY <4>1, PasteRestIs
      <4> QED
        BY <4>2
    <3> HIDE DEF q, chars
    <3> QED
      BY <1>3, <3>1, <3>2
  <2> QED
    BY <1>5, <2>2, <2>3
<1>9. Fits(doc'[g], text'[g], clip'[g])
  <2>1. Len(text[g]) <= CountShown(doc[g]) + Len(chars)
    BY <1>6 DEF Fitting, Fits
  <2>2. /\ Len(text[g]) \in Nat /\ CountShown(doc[g]) \in Nat
    BY LengthsAre
  <2> HIDE DEF chars
  <2> QED
    BY <1>3, <1>4, <1>7, <1>8, <2>1, <2>2 DEF Fits
<1> HIDE DEF k, chars, pos, c
<1> QED
  BY <1>4, <1>6, <1>7, <1>8, <1>9, FittingBy

(* Backspace: as many characters go from the text as tags, at most, are    *)
(* hidden.                                                                 *)
LEMMA EraseTidy ==
  ASSUME Types, Finite, Places, Contents, Tidy, Smooth', NEW g \in Guests, Erase(g)
  PROVE  Carried' /\ Fitting'
<1> DEFINE d == doc[g]
           Gone(i, j) == {DeleteTag(d, p) : p \in {q \in (i + 1)..j : Deletable(d, q)}}
           Without(gone) == [t \in DOMAIN pending[g] \cup gone |->
                               IF t \in gone THEN Nul ELSE pending[g][t]]
<1>1. PICK from \in 0..Len(text[g]), to \in 0..Len(text[g]) :
        /\ from < to
        /\ doc' = [doc EXCEPT ![g] = Hide(d, Gone(from, to))]
        /\ text' = [text EXCEPT ![g] = TextRemove(text[g], from, to)]
        /\ pending' = [pending EXCEPT ![g] = Without(Gone(from, to))]
  BY DEF Erase
<1>2. UNCHANGED <<log, own, answer, clip, sent, last, minted, odd>>
  BY DEF Erase, server
<1>3. Carried /\ Fitting
  BY <1>2, SmoothBefore
<1>4. /\ doc = [h \in Guests |-> doc[h]] /\ pending = [h \in Guests |-> pending[h]]
      /\ text = [h \in Guests |-> text[h]]
  BY DEF Types, PageTypes, Contents, Writing
<1>5. /\ Len(text[g]) \in Nat /\ text[g] \in Seq(1..typed) /\ Proper(d) /\ OnceListed(d)
      /\ from \in Nat /\ to \in Nat /\ from <= to
  <2>1. text[g] \in Seq(1..typed) /\ Proper(d) /\ OnceListed(d)
    BY <1>3 DEF Contents, Writing, Written, Fitting, Fits
  <2>2. Len(text[g]) \in Nat
    BY <2>1
  <2> HIDE DEF d
  <2> QED
    BY <1>1, <2>1, <2>2
<1>6. PICK gone : gone = Gone(from, to)
  OBVIOUS
<1>7. /\ doc'[g] = Hide(d, gone) /\ \A h \in Guests \ {g} : doc'[h] = doc[h]
      /\ pending'[g] = Without(gone) /\ \A h \in Guests \ {g} : pending'[h] = pending[h]
  <2>1. /\ doc' = [doc EXCEPT ![g] = Hide(d, gone)]
        /\ pending' = [pending EXCEPT ![g] = Without(gone)]
    BY <1>1, <1>6
  <2> QED
    BY <1>4, <2>1
<1>8. /\ OnceListed(doc'[g]) /\ ListedTags(doc'[g]) = ListedTags(d)
      /\ CountShown(d) - (to - from) <= CountShown(doc'[g])
  <2>1. gone = {DeleteTag(d, p) : p \in {q \in (from + 1)..to : Deletable(d, q)}}
    BY <1>6
  <2> HIDE DEF d, Gone
  <2>2. /\ OnceListed(Hide(d, gone)) /\ ListedTags(Hide(d, gone)) = ListedTags(d)
        /\ CountShown(d) - (to - from) <= CountShown(Hide(d, gone))
    BY <1>5, <2>1, HideCount
  <2> QED
    BY <1>7, <2>2
<1>9. /\ Len(text'[g]) = Len(text[g]) - (to - from)
      /\ \A h \in Guests \ {g} : text'[h] = text[h]
  <2>1. PICK s \in Seq(1..typed) : s = text[g]
    BY <1>5
  <2>2. PICK i \in 0..Len(s) : i = from
    BY <2>1
  <2>3. PICK j \in i..Len(s) : j = to
    BY <1>5, <2>1, <2>2
  <2>4. Len(TextRemove(s, i, j)) = Len(s) - (j - i)
    BY TextRemoveIs
  <2> QED
    BY <1>1, <1>4, <2>1, <2>2, <2>3, <2>4
<1>10. Carried'
  <2>1. Inserts(Without(gone)) \subseteq Inserts(pending[g])
    BY DEF Inserts
  <2>2. \A h \in Guests : /\ ListedTags(doc'[h]) = ListedTags(doc[h])
                          /\ Inserts(pending'[h]) \subseteq Inserts(pending[h])
    BY <1>7, <1>8, <2>1
  <2>3. \A h \in Guests : Unheard(h)' = Unheard(h) /\ Unlogged(h)' = Unlogged(h)
    BY <1>2 DEF Unheard, Unlogged
  <2> HIDE DEF d, Without
  <2> QED
    BY <1>2, <1>3, <2>2, <2>3, LessCarried
<1>11. Fits(doc'[g], text'[g], clip'[g])
  <2>1. Len(text[g]) <= CountShown(d) + Len(clip[g].chars)
    BY <1>3 DEF Fitting, Fits
  <2>2. /\ CountShown(d) \in Nat /\ Len(clip[g].chars) \in Nat
        /\ CountShown(doc'[g]) \in Nat /\ Len(text'[g]) \in Nat
    BY LengthsAre, EraseContents, LengthsWillBe
  <2> HIDE DEF d
  <2> QED
    BY SMTT(30), <1>2, <1>5, <1>8, <1>9, <2>1, <2>2 DEF Fits
<1> HIDE DEF d, Gone, Without
<1> QED
  BY <1>2, <1>3, <1>7, <1>9, <1>10, <1>11, FittingBy

(* The Delete key only makes a text shorter.                               *)
LEMMA DeleteKeyTidy ==
  ASSUME Types, Finite, Places, Contents, Tidy, Smooth', NEW g \in Guests, DeleteKey(g)
  PROVE  Carried' /\ Fitting'
<1>1. PICK from \in 0..Len(text[g]), to \in 0..Len(text[g]) :
        from < to /\ text' = [text EXCEPT ![g] = TextRemove(text[g], from, to)]
  BY DEF DeleteKey
<1>2. UNCHANGED <<log, own, answer, doc, clip, pending, sent, last, minted, odd>>
  BY DEF DeleteKey, server
<1>3. Carried /\ Fitting
  BY <1>2, SmoothBefore
<1>4. Carried'
  BY <1>2, <1>3, LessCarried DEF Unheard, Unlogged
<1>5. text = [h \in Guests |-> text[h]] /\ text[g] \in Seq(1..typed)
  BY DEF Contents, Writing, Written
<1>6. /\ Len(text'[g]) <= Len(text[g])
      /\ \A h \in Guests \ {g} : text'[h] = text[h]
  <2>1. PICK s \in Seq(1..typed) : s = text[g]
    BY <1>5
  <2>2. PICK i \in 0..Len(s) : i = from
    BY <2>1
  <2>3. PICK j \in i..Len(s) : j = to
    BY <1>1, <2>1, <2>2
  <2>4. Len(TextRemove(s, i, j)) = Len(s) - (j - i)
    BY TextRemoveIs
  <2>5. Len(s) - (j - i) <= Len(s)
    OBVIOUS
  <2> QED
    BY <1>1, <1>5, <2>1, <2>2, <2>3, <2>4, <2>5
<1>7. Fits(doc'[g], text'[g], clip'[g])
  <2>1. OnceListed(doc[g]) /\ Len(text[g]) <= CountShown(doc[g]) + Len(clip[g].chars)
    BY <1>3 DEF Fitting, Fits
  <2>2. /\ Len(text[g]) \in Nat /\ CountShown(doc[g]) \in Nat /\ Len(clip[g].chars) \in Nat
        /\ Len(text'[g]) \in Nat
    BY LengthsAre, DeleteKeyContents, LengthsWillBe
  <2> QED
    BY <1>2, <1>6, <2>1, <2>2 DEF Fits
<1> QED
  BY <1>2, <1>3, <1>4, <1>6, <1>7, FittingBy

(* The steps that leave documents and texts alone.                         *)
LEMMA OtherTidy ==
  ASSUME Types, Joining, Tidy, Smooth', NEW g \in Guests,
         \/ Load(g) \/ Joined(g) \/ Heartbeat(g) \/ Acknowledged(g)
         \/ Login(g) \/ Send(g) \/ Logged(g)
  PROVE  Carried' /\ Fitting'
<1>1. UNCHANGED <<doc, text, clip, odd, minted, last>>
  BY LoginStep, LoggedStep DEF Load, Joined, Heartbeat, Acknowledged, Send, history
<1>2. Carried /\ Fitting
  BY <1>1, SmoothBefore
<1>3. Fitting'
  BY <1>1, <1>2 DEF Fitting
<1>4. CASE Send(g)
  BY <1>2, <1>3, <1>4, SendCarried
<1>5. CASE Logged(g)
  BY <1>2, <1>3, <1>5, LoggedCarried
<1>6. CASE Login(g)
  <2>1. /\ UNCHANGED <<log, pending, sent>>
        /\ g \notin DOMAIN own /\ DOMAIN own' = DOMAIN own \cup {g}
        /\ \A n \in DOMAIN own : own'[n] = own[n]
        /\ \A d \in Calls : d # <<g, "login">> => answer'[d] = answer[d]
    BY <1>6, LoginStep
  <2>2. own'[g] = {}
    BY <1>6 DEF Login, Server!Register, Server!With
  <2>3. \A h \in Guests : Unheard(h)' = Unheard(h)
    BY <1>1, <2>1, <2>2 DEF Unheard
  <2>4. \A h \in Guests : Unlogged(h)' = Unlogged(h)
    <3>1. \A h \in Guests : <<h, "send">> \in Calls /\ <<h, "send">> # <<g, "login">>
      BY DEF Calls
    <3> QED
      BY <2>1, <3>1 DEF Unlogged
  <2>5. Carried'
    BY <1>1, <1>2, <2>1, <2>3, <2>4, LessCarried
  <2> QED
    BY <1>3, <2>5
<1>7. CASE Acknowledged(g)
  <2>1. UNCHANGED <<log, own, pending>> /\ sent' = [sent EXCEPT ![g] = NoChange]
    BY <1>7, OtherStep DEF Acknowledged
  <2>2. Server!Collect(<<g, "send">>) /\ <<g, "send">> \in Calls
    BY <1>7 DEF Acknowledged, Calls
  <2>3. \A h \in Guests \ {g} : Unlogged(h)' = Unlogged(h)
    <3>1. \A h \in Guests \ {g} : <<h, "send">> \in Calls /\ <<h, "send">> # <<g, "send">>
      BY DEF Calls
    <3> QED
      BY <2>2, <3>1, Collects DEF Types, Unlogged
  <2>4. sent'[g] = NoChange /\ \A h \in Guests \ {g} : sent'[h] = sent[h]
    BY <2>1 DEF Types, PageTypes
  <2>5. \A h \in Guests : Unheard(h)' = Unheard(h)
    BY <1>1, <2>1 DEF Unheard
  <2>6. Carried'
    BY <1>1, <1>2, <2>1, <2>3, <2>4, <2>5, LessCarried
  <2> QED
    BY <1>3, <2>6
<1>8. CASE Load(g) \/ Joined(g) \/ Heartbeat(g)
  <2>1. UNCHANGED <<log, own, pending, sent>>
    BY <1>8, OtherStep DEF Load, Joined, Heartbeat
  <2>2. \A h \in Guests : Unheard(h)' = Unheard(h)
    BY <1>1, <2>1 DEF Unheard
  <2>3. \A h \in Guests : Unlogged(h)' = Unlogged(h)
    <3>1. \A h \in Guests :
            /\ <<h, "send">> \in Calls /\ <<h, "send">> # <<g, "heartbeat">>
            /\ <<h, "send">> # <<g, "login">>
      BY DEF Calls
    <3>2. CASE Load(g)
      BY <3>2 DEF Load, server, Unlogged
    <3>3. CASE Joined(g)
      <4>1. Server!Collect(<<g, "login">>) /\ <<g, "login">> \in Calls
        BY <3>3 DEF Joined, Calls
      <4> QED
        BY <3>1, <4>1, Collects DEF Types, Unlogged
    <3>4. CASE Heartbeat(g)
      <4>1. <<g, "heartbeat">> \in Calls /\ \E a : Server!Give(<<g, "heartbeat">>, a)
        BY <3>4 DEF Heartbeat, Server!Poll, Calls
      <4> QED
        BY <3>1, <4>1, Gives DEF Types, Unlogged
    <3> QED
      BY <1>8, <3>2, <3>3, <3>4
  <2>4. Carried'
    BY <1>1, <1>2, <2>1, <2>2, <2>3, LessCarried
  <2> QED
    BY <1>3, <2>4
<1> QED
  BY <1>4, <1>5, <1>6, <1>7, <1>8

(* An answer.                                                              *)
LEMMA NewsTidy ==
  ASSUME Types, Finite, Contents, Fetched, Tidy, Smooth', NEW g \in Guests, News(g)
  PROVE  Carried' /\ Fitting'
<1>1. UNCHANGED <<clip, odd>>
  BY DEF News, history
<1>2. Carried /\ Fitting
  BY <1>1, SmoothBefore
<1>3. Carried' /\ Fits(doc'[g], text'[g], clip'[g])
  BY <1>2, NewsCarried DEF Fitting
<1>4. \A h \in Guests \ {g} : doc'[h] = doc[h] /\ text'[h] = text[h]
  <2>1. doc = [h \in Guests |-> doc[h]] /\ text = [h \in Guests |-> text[h]]
    BY DEF Types, PageTypes, Contents, Writing
  <2>2. \E x, y : doc' = [doc EXCEPT ![g] = x] /\ text' = [text EXCEPT ![g] = y]
    BY DEF News
  <2> QED
    BY <2>1, <2>2
<1> QED
  BY <1>1, <1>2, <1>3, <1>4, FittingBy

(* Every step keeps it.                                                    *)
LEMMA StepTidy ==
  ASSUME Types, Finite, Joining, Places, Contents, Fetched, Tidy, [Next]_vars
  PROVE  Tidy'
<1> SUFFICES ASSUME Smooth' PROVE Carried' /\ Fitting'
  BY DEF Tidy
<1>1. CASE UNCHANGED vars
  <2>1. UNCHANGED <<log, own, answer, doc, text, clip, pending, sent, last, minted, odd>>
    BY <1>1 DEF vars, server, history
  <2>2. Carried /\ Fitting
    BY <2>1, SmoothBefore
  <2>3. Carried'
    BY <2>1, <2>2, LessCarried DEF Unheard, Unlogged
  <2> QED
    BY <2>1, <2>2, <2>3 DEF Fitting
<1>2. CASE Next
  <2>1. PICK g \in Guests :
          \/ PasteText(g) \/ Load(g) \/ Joined(g)
          \/ Type(g) \/ Paste(g) \/ Erase(g) \/ DeleteKey(g)
          \/ Heartbeat(g) \/ News(g)
          \/ Login(g) \/ Send(g) \/ Logged(g) \/ Acknowledged(g)
    BY <1>2 DEF Next
  <2> QED
    BY <2>1, PasteTextTidy, TypeTidy, PasteTidy, EraseTidy, DeleteKeyTidy, NewsTidy, OtherTidy
<1> QED
  BY <1>1, <1>2

(* Nothing is on its way initially.                                         *)
LEMMA TidyInitially ==
  ASSUME Init
  PROVE  Fetched /\ Tidy
<1>1. /\ DOMAIN log = {} /\ answer = [c \in Calls |-> Server!NoAnswer]
  BY DEF Init, Server!Init, Calls
<1>2. Fetched
  BY <1>1 DEF Fetched, Calls
<1>3. \A g \in Guests : /\ doc[g] = EmptyDoc /\ text[g] = <<>> /\ clip[g] = NoPaste
                        /\ pending[g] = NoChange /\ sent[g] = NoChange
  BY DEF Init
<1>4. EmptyDoc.tags = <<0, One>> /\ ListedTags(EmptyDoc) \subseteq {0, One}
  BY DEF EmptyDoc, ListedTags
<1>5. Carried
  <2>1. Made
    BY <1>1, <1>3, <1>4, NoInserts DEF Made
  <2>2. OneSource
    BY <1>1, <1>3, NoInserts DEF OneSource
  <2>3. Unlisted
    BY <1>1, <1>3, NoInserts DEF Unlisted, Unheard
  <2> QED
    BY <2>1, <2>2, <2>3 DEF Carried
<1>6. Fits(EmptyDoc, <<>>, NoPaste)
  <2>1. OnceListed(EmptyDoc)
    <3>1. One # 0
      BY OneAssumption, SMT
    <3> QED
      BY <1>4, <3>1 DEF OnceListed
  <2>2. CountShown(EmptyDoc) \in Nat
    BY EmptyProper, CountByTags, <2>1 DEF Proper, Listed
  <2>3. Len(<<>>) = 0 /\ NoPaste.chars = <<>>
    BY EmptySeq DEF NoPaste
  <2> QED
    BY <2>1, <2>2, <2>3 DEF Fits
<1>7. Fitting
  BY <1>3, <1>6 DEF Fitting
<1> QED
  BY <1>2, <1>5, <1>7 DEF Tidy

(* Unless a tag has been made twice or a character has found no place, the *)
(* text in an editor is never longer than what its document shows and what *)
(* was pasted and is not noted yet (insertText, pasteText), whatever the   *)
(* other guests type and delete, with Backspace or the Delete key, in      *)
(* whatever order the changes arrive and wherever the editor is with its   *)
(* selection.                                                              *)
THEOREM EditorsNotAhead == Spec => []EditorNotAhead
<1> DEFINE Inv == Kept /\ Joining /\ Places /\ Contents /\ Fetched /\ Tidy
<1>1. Init => Inv
  BY KeptInitially, ContentsInitially, TidyInitially
<1>2. Inv /\ [Next]_vars => Inv'
  BY StepKeeps, StepContents, StepFetched, StepTidy DEF Kept
<1>3. Inv => EditorNotAhead
  BY DEF Tidy, Smooth, Fitting, Fits, EditorNotAhead
<1> HIDE DEF Inv
<1> QED
  BY <1>1, <1>2, <1>3, PTL DEF Spec

-----------------------------------------------------------------------------
(***************************************************************************)
(* The shares of guests that have heard of no change: what a page is told  *)
(* of its place, and a document of one's own tags only.                    *)
(***************************************************************************)
OwnBrowsers == \A g, h \in Guests : BrowserOf[g] = BrowserOf[h] => g = h
Informed == Patient \/ GuestCount = 1

(* Places are told as they are, and counts never go back.                  *)
Size == Cardinality(DOMAIN members)
Placed(g, a) == g \in DOMAIN members /\ a.position = members[g] /\ a.count <= Size
Knows(g) ==
  /\ Told(g).count # 0 =>
       /\ stage[g] = "in" /\ g \in DOMAIN members
       /\ Told(g).index = members[g] /\ Told(g).count <= Size
  /\ answer[<<g, "login">>] # Server!NoAnswer =>
       stage[g] = "open" /\ Placed(g, answer[<<g, "login">>])
  /\ answer[<<g, "heartbeat">>] # Server!NoAnswer =>
       /\ stage[g] = "in" /\ Placed(g, answer[<<g, "heartbeat">>])
       /\ Told(g).count <= answer[<<g, "heartbeat">>].count
  /\ Patient /\ clip[g] # NoPaste => Told(g).count = GuestCount
Knowing == \A g \in Guests : Knows(g)

Solely(g) ==
  /\ Solo(doc[g], Told(g).index, Told(g).count)
  /\ DOMAIN doc[g].ch # {0, One} => Told(g).count = GuestCount
Sole == ~ TinyMinted => \A g \in Guests : last[g] = -1 => Solely(g)

(* More guests are registered, and nothing else changes for a page.        *)
LEMMA KnowsStill ==
  ASSUME NEW h \in Guests, Knows(h), Size \in Nat, Size' \in Nat, Size <= Size',
         \/ Told(h)' = Told(h)
         \/ Told(h)'.count = 0 /\ ~ (Patient /\ clip'[h] # NoPaste),
         stage'[h] = stage[h] \/ (Told(h)'.count = 0 /\ stage[h] = "closed"),
         h \in DOMAIN members => h \in DOMAIN members' /\ members'[h] = members[h],
         \/ answer'[<<h, "login">>] = answer[<<h, "login">>]
         \/ answer'[<<h, "login">>] = Server!NoAnswer,
         \/ answer'[<<h, "heartbeat">>] = answer[<<h, "heartbeat">>]
         \/ answer'[<<h, "heartbeat">>] = Server!NoAnswer,
         clip'[h] # NoPaste => clip[h] # NoPaste \/ Told(h)'.count = GuestCount,
         Told(h).count \in Nat,
         \/ answer[<<h, "login">>] = Server!NoAnswer
         \/ answer[<<h, "login">>].count \in Nat,
         \/ answer[<<h, "heartbeat">>] = Server!NoAnswer
         \/ answer[<<h, "heartbeat">>].count \in Nat
  PROVE  Knows(h)'
<1>1. /\ Told(h)'.count # 0 =>
           /\ stage'[h] = "in" /\ h \in DOMAIN members'
           /\ Told(h)'.index = members'[h] /\ Told(h)'.count <= Size'
  BY DEF Knows
<1>2. answer'[<<h, "login">>] # Server!NoAnswer =>
       stage'[h] = "open" /\ Placed(h, answer[<<h, "login">>])'
  <2>1. SUFFICES ASSUME answer'[<<h, "login">>] # Server!NoAnswer
                 PROVE  stage'[h] = "open" /\ Placed(h, answer[<<h, "login">>])'
    OBVIOUS
  <2>2. stage[h] = "open" /\ Placed(h, answer[<<h, "login">>])
    BY <2>1 DEF Knows
  <2> QED
    BY <2>1, <2>2 DEF Placed
<1>3. answer'[<<h, "heartbeat">>] # Server!NoAnswer =>
       /\ stage'[h] = "in" /\ Placed(h, answer[<<h, "heartbeat">>])'
       /\ Told(h)'.count <= answer'[<<h, "heartbeat">>].count
  <2>1. SUFFICES ASSUME answer'[<<h, "heartbeat">>] # Server!NoAnswer
                 PROVE  /\ stage'[h] = "in" /\ Placed(h, answer[<<h, "heartbeat">>])'
                        /\ Told(h)'.count <= answer'[<<h, "heartbeat">>].count
    OBVIOUS
  <2>2. /\ stage[h] = "in" /\ Placed(h, answer[<<h, "heartbeat">>])
        /\ Told(h).count <= answer[<<h, "heartbeat">>].count
    BY <2>1 DEF Knows
  <2> QED
    BY <2>1, <2>2 DEF Placed
<1>4. Patient /\ clip'[h] # NoPaste => Told(h)'.count = GuestCount'
  BY DEF Knows, GuestCount
<1> QED
  BY <1>1, <1>2, <1>3, <1>4 DEF Knows

(* Counts are numbers.                                                     *)
LEMMA CountsAre ==
  ASSUME Types, Places, NEW h \in Guests
  PROVE  /\ Size \in Nat /\ Size <= GuestCount /\ GuestCount \in Nat /\ GuestCount > 0
         /\ BrowserOf[h] \in Browsers
         /\ Told(h).count \in Nat /\ Told(h).index \in Nat
         /\ Told(h).count # 0 => Told(h).index \in 0..(Told(h).count - 1)
         /\ \/ answer[<<h, "login">>] = Server!NoAnswer
            \/ answer[<<h, "login">>].count \in Nat
         /\ \/ answer[<<h, "heartbeat">>] = Server!NoAnswer
            \/ answer[<<h, "heartbeat">>].count \in Nat
<1>1. Size \in 0..GuestCount /\ GuestCount \in Nat
  BY SizeIs DEF Size
<1>2. GuestCount > 0
  <2>1. IsFiniteSet({h}) /\ {h} \subseteq Guests /\ Cardinality({h}) = 1
    BY FS_Singleton
  <2>2. Cardinality({h}) <= Cardinality(Guests)
    BY <2>1, ColabAssumption, FS_Subset
  <2> QED
    BY <1>1, <2>1, <2>2 DEF GuestCount
<1>3. BrowserOf[h] \in Browsers
  BY DEF Browsers
<1>4. /\ Told(h).count \in Nat /\ Told(h).index \in Nat
      /\ Told(h).count # 0 => Told(h).index \in 0..(Told(h).count - 1)
  <2>1. \/ Told(h) = Unknown
        \/ Told(h).count \in 1..GuestCount /\ Told(h).index \in 0..(Told(h).count - 1)
    BY <1>3 DEF Places, Told
  <2>2. Unknown.count = 0 /\ Unknown.index = 0
    BY DEF Unknown
  <2> QED
    BY <1>1, <2>1, <2>2
<1>5. /\ answer[<<h, "login">>] # Server!NoAnswer => answer[<<h, "login">>].count \in Nat
      /\ answer[<<h, "heartbeat">>] # Server!NoAnswer => answer[<<h, "heartbeat">>].count \in Nat
  BY <1>1 DEF Places, Placing
<1> QED
  BY <1>1, <1>2, <1>3, <1>4, <1>5

(* One page learns, in a browser of its own.                               *)
LEMMA LearnsAlone ==
  ASSUME OwnBrowsers, Types, Places, NEW g \in Guests, NEW v,
         told' = [told EXCEPT ![BrowserOf[g]] = v]
  PROVE  Told(g)' = v /\ \A h \in Guests \ {g} : Told(h)' = Told(h)
<1>1. told = [b \in Browsers |-> told[b]]
  BY DEF Places
<1>2. \A h \in Guests : BrowserOf[h] \in Browsers
  BY DEF Browsers
<1> QED
  BY <1>1, <1>2 DEF Told, OwnBrowsers

(* What the pages know stays right: a login, ...                           *)
LEMMA LoginKnowing ==
  ASSUME Types, Places, Places', Knowing, NEW g \in Guests, Login(g)
  PROVE  Knowing'
<1> DEFINE c == <<g, "login">>   a == Server!Welcome(g, Size + 1, Size)
<1>1. /\ LogTypes' /\ UNCHANGED <<stage, doc, pending, sent, clip, told>>
      /\ \A d \in Calls : d # c => answer'[d] = answer[d]
  BY LoginStep
<1>2. /\ stage[g] = "open" /\ g \notin DOMAIN members
      /\ c \in Calls /\ Server!Give(c, a) /\ members' = Server!With(members, g, Size)
  BY SameSize DEF Login, Server!Register, Calls, Size
<1>3. answer'[c] = a
  BY <1>2, Gives DEF Types
<1>4. /\ DOMAIN members' = DOMAIN members \cup {g} /\ members'[g] = Size
      /\ \A n \in DOMAIN members : members'[n] = members[n]
  BY <1>2 DEF Server!With
<1>5. Size' = Size + 1 /\ Size \in Nat
  <2>1. IsFiniteSet(DOMAIN members) /\ Size \in Nat
    BY SizeIs DEF Size
  <2> QED
    BY <1>2, <1>4, <2>1, FS_AddElement DEF Size
<1>6. a.count = Size + 1 /\ a.position = Size
  BY DEF Server!Welcome
<1> HIDE DEF a
<1>7. ASSUME NEW h \in Guests
      PROVE  Knows(h)'
  <2>1. <<h, "login">> \in Calls /\ <<h, "heartbeat">> \in Calls /\ <<h, "heartbeat">> # c
    BY DEF Calls
  <2>2. Knows(h)
    BY DEF Knowing
  <2>3. CASE h # g
    <3>1. /\ answer'[<<h, "login">>] = answer[<<h, "login">>]
          /\ answer'[<<h, "heartbeat">>] = answer[<<h, "heartbeat">>]
      BY <1>1, <2>1, <2>3
    <3>2. /\ Told(h)' = Told(h) /\ stage'[h] = stage[h] /\ clip'[h] = clip[h]
          /\ Size \in Nat /\ Size' \in Nat /\ Size <= Size'
          /\ h \in DOMAIN members => h \in DOMAIN members' /\ members'[h] = members[h]
      BY <1>1, <1>4, <1>5 DEF Told
    <3>3. /\ Told(h).count \in Nat
          /\ \/ answer[<<h, "login">>] = Server!NoAnswer
             \/ answer[<<h, "login">>].count \in Nat
          /\ \/ answer[<<h, "heartbeat">>] = Server!NoAnswer
             \/ answer[<<h, "heartbeat">>].count \in Nat
      BY CountsAre
    <3> QED
      BY <2>2, <3>1, <3>2, <3>3, KnowsStill
  <2>4. CASE h = g
    <3>1. answer'[<<g, "heartbeat">>] = answer[<<g, "heartbeat">>]
      BY <1>1, <2>1, <2>4
    <3>2. answer'[<<g, "heartbeat">>] = Server!NoAnswer /\ Told(g)'.count = 0
      BY <1>1, <1>2, <2>2, <2>4, <3>1 DEF Knows, Told
    <3>3. clip'[g] = NoPaste \/ ~ Patient
      <4>1. GuestCount > 0 /\ Told(g).count = 0
        BY <1>1, <3>2, CountsAre DEF Told
      <4> QED
        BY <1>1, <2>2, <2>4, <4>1 DEF Knows
    <3>4. Placed(g, answer[c])'
      BY <1>3, <1>4, <1>5, <1>6 DEF Placed
    <3> QED
      BY <1>1, <1>2, <2>4, <3>2, <3>3, <3>4 DEF Knows
  <2> QED
    BY <2>3, <2>4
<1> QED
  BY <1>7 DEF Knowing

(* ... a step that registers nobody, on the other pages, ...               *)
LEMMA OthersKnow ==
  ASSUME Types, Places, NEW h \in Guests, Knows(h), members' = members,
         stage'[h] = stage[h], clip'[h] = clip[h], Told(h)' = Told(h),
         \/ answer'[<<h, "login">>] = answer[<<h, "login">>]
         \/ answer'[<<h, "login">>] = Server!NoAnswer,
         \/ answer'[<<h, "heartbeat">>] = answer[<<h, "heartbeat">>]
         \/ answer'[<<h, "heartbeat">>] = Server!NoAnswer
  PROVE  Knows(h)'
<1>1. /\ Size \in Nat /\ Size' \in Nat /\ Size <= Size' /\ Told(h).count \in Nat
      /\ \/ answer[<<h, "login">>] = Server!NoAnswer
         \/ answer[<<h, "login">>].count \in Nat
      /\ \/ answer[<<h, "heartbeat">>] = Server!NoAnswer
         \/ answer[<<h, "heartbeat">>].count \in Nat
  BY CountsAre DEF Size
<1>2. h \in DOMAIN members => h \in DOMAIN members' /\ members'[h] = members[h]
  OBVIOUS
<1> QED
  BY <1>1, <1>2, KnowsStill

(* ... its answer, ...                                                     *)
LEMMA JoinedKnowing ==
  ASSUME OwnBrowsers, Types, Places, Knowing, NEW g \in Guests, Joined(g)
  PROVE  Knowing'
<1> DEFINE c == <<g, "login">>   a == answer[c]
<1>1. /\ c \in Calls /\ Server!Collect(c) /\ Learn(g, a)
      /\ stage' = [stage EXCEPT ![g] = "in"] /\ clip' = clip
  BY DEF Joined, Calls
<1>2. /\ a # Server!NoAnswer /\ answer'[c] = Server!NoAnswer
      /\ \A d \in Calls : d # c => answer'[d] = answer[d]
      /\ members' = members
  BY <1>1, Collects DEF Types
<1>3. stage'[g] = "in" /\ \A h \in Guests \ {g} : stage'[h] = stage[h]
  BY <1>1 DEF Types, PageTypes
<1>4. /\ Told(g)' = [index |-> a.position, count |-> a.count]
      /\ \A h \in Guests \ {g} : Told(h)' = Told(h)
  <2> DEFINE v == [index |-> a.position, count |-> a.count]
  <2>1. told' = [told EXCEPT ![BrowserOf[g]] = v]
    BY <1>1 DEF Learn
  <2> HIDE DEF v
  <2>2. Told(g)' = v /\ \A h \in Guests \ {g} : Told(h)' = Told(h)
    BY <2>1, LearnsAlone
  <2> QED
    BY <2>2 DEF v
<1>5. ASSUME NEW h \in Guests \ {g} PROVE Knows(h)'
  <2>1. /\ <<h, "login">> \in Calls /\ <<h, "heartbeat">> \in Calls
        /\ <<h, "login">> # c /\ <<h, "heartbeat">> # c
    BY DEF Calls
  <2>2. /\ answer'[<<h, "login">>] = answer[<<h, "login">>]
        /\ answer'[<<h, "heartbeat">>] = answer[<<h, "heartbeat">>]
    BY <1>2, <2>1
  <2>3. /\ Knows(h) /\ members' = members /\ stage'[h] = stage[h] /\ clip'[h] = clip[h]
        /\ Told(h)' = Told(h)
    BY <1>1, <1>2, <1>3, <1>4 DEF Knowing
  <2> QED
    BY <2>2, <2>3, OthersKnow
<1>6. Knows(g)'
  <2>1. Knows(g)
    BY DEF Knowing
  <2>2. stage[g] = "open" /\ Placed(g, a)
    BY <1>2, <2>1 DEF Knows
  <2>3. <<g, "heartbeat">> \in Calls /\ <<g, "heartbeat">> # c
    BY DEF Calls
  <2>4. answer'[<<g, "heartbeat">>] = answer[<<g, "heartbeat">>]
    BY <1>2, <2>3
  <2>5. answer'[<<g, "heartbeat">>] = Server!NoAnswer
    BY <2>1, <2>2, <2>4 DEF Knows
  <2>6. ~ (Patient /\ clip'[g] # NoPaste)
    <3>1. GuestCount > 0 /\ GuestCount \in Nat
      BY CountsAre
    <3>2. clip'[g] = clip[g] /\ (Told(g).count # 0 => stage[g] = "in")
      BY <1>1, <2>1 DEF Knows
    <3> QED
      BY <2>1, <2>2, <3>1, <3>2 DEF Knows
  <2>7. Told(g)'.index = a.position /\ Told(g)'.count = a.count
    BY <1>4
  <2>8. g \in DOMAIN members' /\ a.position = members'[g] /\ a.count <= Size'
    BY <1>2, <2>2 DEF Placed, Size
  <2> HIDE DEF a
  <2> QED
    BY <1>2, <1>3, <2>5, <2>6, <2>7, <2>8 DEF Knows
<1> QED
  BY <1>5, <1>6 DEF Knowing

(* ... a heartbeat, ...                                                    *)
LEMMA HeartbeatKnowing ==
  ASSUME Types, Places, Knowing, NEW g \in Guests, Heartbeat(g)
  PROVE  Knowing'
<1> DEFINE c == <<g, "heartbeat">>   a == answer'[c]
<1>1. /\ a.count = Size /\ a.position = members[g] /\ g \in DOMAIN members
  BY HeartbeatPlacing DEF Size
<1>2. /\ stage[g] = "in" /\ UNCHANGED <<stage, clip, told>>
  BY DEF Heartbeat
<1>3. /\ c \in Calls /\ members' = members /\ \E b : Server!Give(c, b)
  BY DEF Heartbeat, Server!Poll, Calls
<1>4. \A d \in Calls : d # c => answer'[d] = answer[d]
  BY <1>3, Gives DEF Types
<1>5. ASSUME NEW h \in Guests \ {g} PROVE Knows(h)'
  <2>1. /\ <<h, "login">> \in Calls /\ <<h, "heartbeat">> \in Calls
        /\ <<h, "login">> # c /\ <<h, "heartbeat">> # c
    BY DEF Calls
  <2>2. /\ answer'[<<h, "login">>] = answer[<<h, "login">>]
        /\ answer'[<<h, "heartbeat">>] = answer[<<h, "heartbeat">>]
    BY <1>4, <2>1
  <2>3. /\ Knows(h) /\ members' = members /\ stage'[h] = stage[h] /\ clip'[h] = clip[h]
        /\ Told(h)' = Told(h)
    BY <1>2, <1>3 DEF Knowing, Told
  <2> QED
    BY <2>2, <2>3, OthersKnow
<1>6. Knows(g)'
  <2>1. Knows(g) /\ Told(g)' = Told(g) /\ stage' = stage /\ clip' = clip /\ Size' = Size
    BY <1>2, <1>3 DEF Knowing, Told, Size
  <2>2. <<g, "login">> \in Calls /\ <<g, "login">> # c
    BY DEF Calls
  <2>3. answer'[<<g, "login">>] = answer[<<g, "login">>]
    BY <1>4, <2>2
  <2>4. answer'[<<g, "login">>] = Server!NoAnswer
    BY <1>2, <2>1, <2>3 DEF Knows
  <2>5. Told(g).count <= Size
    <3>1. Size \in Nat
      BY CountsAre
    <3> QED
      BY <2>1, <3>1 DEF Knows
  <2>6. Placed(g, answer[c])'
    <3>1. Size \in Nat
      BY CountsAre
    <3> QED
      BY <1>1, <1>3, <2>1, <3>1 DEF Placed
  <2>7. GuestCount' = GuestCount
    BY DEF GuestCount
  <2> QED
    BY <1>1, <1>2, <1>3, <2>1, <2>4, <2>5, <2>6, <2>7 DEF Knows
<1> QED
  BY <1>5, <1>6 DEF Knowing

(* ... its news, ...                                                       *)
LEMMA NewsKnowing ==
  ASSUME OwnBrowsers, Types, Places, Knowing, NEW g \in Guests, News(g)
  PROVE  Knowing'
<1> DEFINE c == <<g, "heartbeat">>   a == answer[c]
<1>1. /\ c \in Calls /\ Server!Collect(c) /\ Learn(g, a) /\ UNCHANGED <<stage, clip>>
  BY DEF News, Calls
<1>2. /\ a # Server!NoAnswer /\ answer'[c] = Server!NoAnswer
      /\ \A d \in Calls : d # c => answer'[d] = answer[d]
      /\ members' = members
  BY <1>1, Collects DEF Types
<1>4. /\ Told(g)' = [index |-> a.position, count |-> a.count]
      /\ \A h \in Guests \ {g} : Told(h)' = Told(h)
  <2> DEFINE v == [index |-> a.position, count |-> a.count]
  <2>1. told' = [told EXCEPT ![BrowserOf[g]] = v]
    BY <1>1 DEF Learn
  <2> HIDE DEF v
  <2>2. Told(g)' = v /\ \A h \in Guests \ {g} : Told(h)' = Told(h)
    BY <2>1, LearnsAlone
  <2> QED
    BY <2>2 DEF v
<1>5. ASSUME NEW h \in Guests \ {g} PROVE Knows(h)'
  <2>1. /\ <<h, "login">> \in Calls /\ <<h, "heartbeat">> \in Calls
        /\ <<h, "login">> # c /\ <<h, "heartbeat">> # c
    BY DEF Calls
  <2>2. /\ answer'[<<h, "login">>] = answer[<<h, "login">>]
        /\ answer'[<<h, "heartbeat">>] = answer[<<h, "heartbeat">>]
    BY <1>2, <2>1
  <2>3. /\ Knows(h) /\ members' = members /\ stage'[h] = stage[h] /\ clip'[h] = clip[h]
        /\ Told(h)' = Told(h)
    BY <1>1, <1>2, <1>4 DEF Knowing
  <2> QED
    BY <2>2, <2>3, OthersKnow
<1>6. Knows(g)'
  <2>1. Knows(g)
    BY DEF Knowing
  <2>2. stage[g] = "in" /\ Placed(g, a) /\ Told(g).count <= a.count
    BY <1>2, <2>1 DEF Knows
  <2>3. <<g, "login">> \in Calls /\ <<g, "login">> # c
    BY DEF Calls
  <2>4. answer'[<<g, "login">>] = answer[<<g, "login">>]
    BY <1>2, <2>3
  <2>5. answer'[<<g, "login">>] = Server!NoAnswer
    BY <2>1, <2>2, <2>4 DEF Knows
  <2>7. Told(g)'.index = a.position /\ Told(g)'.count = a.count
    BY <1>4
  <2>8. g \in DOMAIN members' /\ a.position = members'[g] /\ a.count <= Size' /\ Size' = Size
    BY <1>2, <2>2 DEF Placed, Size
  <2>9. Patient /\ clip'[g] # NoPaste => a.count = GuestCount
    <3>1. Patient /\ clip[g] # NoPaste => Told(g).count = GuestCount
      BY <2>1 DEF Knows
    <3>2. a.count \in Nat /\ Told(g).count \in Nat /\ Size \in Nat /\ Size <= GuestCount /\ GuestCount \in Nat
      BY <1>2, CountsAre
    <3> HIDE DEF a
    <3> QED
      BY <1>1, <2>2, <2>8, <3>1, <3>2
  <2>10. GuestCount' = GuestCount
    BY DEF GuestCount
  <2> HIDE DEF a
  <2> QED
    BY <1>1, <1>2, <2>2, <2>5, <2>7, <2>8, <2>9, <2>10 DEF Knows
<1> QED
  BY <1>5, <1>6 DEF Knowing

(* ... the loading of the page, which forgets what was known, ...          *)
LEMMA LoadKnowing ==
  ASSUME OwnBrowsers, Types, Places, Knowing, NEW g \in Guests, Load(g)
  PROVE  Knowing'
<1>1. /\ stage[g] = "closed" /\ stage' = [stage EXCEPT ![g] = "open"]
      /\ told' = [told EXCEPT ![BrowserOf[g]] = Unknown]
      /\ UNCHANGED <<members, answer, clip>>
  BY DEF Load, server
<1>2. /\ Told(g)' = Unknown /\ \A h \in Guests \ {g} : Told(h)' = Told(h)
  BY <1>1, LearnsAlone
<1>3. stage'[g] = "open" /\ \A h \in Guests \ {g} : stage'[h] = stage[h]
  BY <1>1 DEF Types, PageTypes
<1>4. ASSUME NEW h \in Guests \ {g} PROVE Knows(h)'
  <2>1. /\ Knows(h) /\ members' = members /\ stage'[h] = stage[h] /\ clip'[h] = clip[h]
        /\ Told(h)' = Told(h)
        /\ answer'[<<h, "login">>] = answer[<<h, "login">>]
        /\ answer'[<<h, "heartbeat">>] = answer[<<h, "heartbeat">>]
    BY <1>1, <1>2, <1>3 DEF Knowing
  <2> QED
    BY <2>1, OthersKnow
<1>5. Knows(g)'
  <2>1. Knows(g)
    BY DEF Knowing
  <2>2. Told(g)'.count = 0
    BY <1>2 DEF Unknown
  <2>3. answer'[<<g, "login">>] = Server!NoAnswer /\ answer'[<<g, "heartbeat">>] = Server!NoAnswer
    BY <1>1, <2>1 DEF Knows
  <2>4. ~ (Patient /\ clip'[g] # NoPaste)
    <3>1. GuestCount > 0 /\ GuestCount \in Nat
      BY CountsAre
    <3>2. Told(g).count = 0 /\ clip' = clip
      BY <1>1, <2>1 DEF Knows
    <3> QED
      BY <2>1, <3>1, <3>2 DEF Knows
  <2> QED
    BY <2>2, <2>3, <2>4 DEF Knows
<1> QED
  BY <1>4, <1>5 DEF Knowing

(* ... and what guests do on a page, who paste only when they know.        *)
LEMMA PageKnowing ==
  ASSUME Types, Places, Knowing, NEW g \in Guests,
         \/ PasteText(g) \/ Type(g) \/ Paste(g) \/ Erase(g) \/ DeleteKey(g)
         \/ Send(g) \/ Acknowledged(g) \/ Logged(g)
  PROVE  Knowing'
<1>1. /\ members' = members /\ UNCHANGED <<stage, told>>
      /\ \A d \in Calls : d[2] # "send" => answer'[d] = answer[d]
  <2>1. CASE PasteText(g) \/ Type(g) \/ Paste(g) \/ Erase(g) \/ DeleteKey(g) \/ Send(g)
    BY <2>1 DEF PasteText, Type, Paste, Erase, DeleteKey, Send, server
  <2>2. CASE Acknowledged(g)
    <3>1. /\ Server!Collect(<<g, "send">>) /\ <<g, "send">> \in Calls
          /\ UNCHANGED <<stage, told>>
      BY <2>2 DEF Acknowledged, Calls
    <3> QED
      BY <3>1, Collects DEF Types
  <2>3. CASE Logged(g)
    <3>1. /\ \A d \in Calls : d # <<g, "send">> => answer'[d] = answer[d]
          /\ UNCHANGED <<stage, told>>
      BY <2>3, LoggedStep
    <3>2. members' = members
      BY <2>3 DEF Logged, Server!Publish
    <3> QED
      BY <3>1, <3>2
  <2> QED
    BY <2>1, <2>2, <2>3
<1>2. ASSUME NEW h \in Guests
      PROVE  clip'[h] # NoPaste => clip[h] # NoPaste \/ ~ Patient \/ Told(h)'.count = GuestCount
  <2>1. CASE PasteText(g)
    <3>1. clip[g] # NoPaste /\ \E x : clip' = [clip EXCEPT ![g] = x]
      BY <2>1 DEF PasteText
    <3> QED
      BY <3>1 DEF Types, PageTypes
  <2>2. CASE Paste(g)
    <3>1. Edits(g) /\ \E x : clip' = [clip EXCEPT ![g] = x]
      BY <2>2 DEF Paste
    <3>2. Patient => Told(g).count = GuestCount
      BY <3>1 DEF Edits, GuestCount
    <3>3. h # g => clip'[h] = clip[h]
      BY <3>1 DEF Types, PageTypes
    <3>4. Told(h)' = Told(h)
      BY <1>1 DEF Told
    <3> QED
      BY <3>2, <3>3, <3>4
  <2>3. CASE Type(g) \/ Erase(g) \/ DeleteKey(g) \/ Send(g) \/ Acknowledged(g)
    BY <2>3 DEF Type, Erase, DeleteKey, Send, Acknowledged
  <2>4. CASE Logged(g)
    BY <2>4, LoggedStep
  <2> QED
    BY <2>1, <2>2, <2>3, <2>4
<1>3. ASSUME NEW h \in Guests PROVE Knows(h)'
  <2>1. /\ <<h, "login">> \in Calls /\ <<h, "heartbeat">> \in Calls
        /\ <<h, "login">>[2] # "send" /\ <<h, "heartbeat">>[2] # "send"
    BY DEF Calls
  <2>2. /\ answer'[<<h, "login">>] = answer[<<h, "login">>]
        /\ answer'[<<h, "heartbeat">>] = answer[<<h, "heartbeat">>]
    BY <1>1, <2>1
  <2>3. Told(h)' = Told(h) /\ stage'[h] = stage[h] /\ Size' = Size /\ Knows(h) /\ GuestCount' = GuestCount
    BY <1>1 DEF Told, Size, Knowing, GuestCount
  <2>4. Patient /\ clip'[h] # NoPaste => Told(h)'.count = GuestCount
    BY <1>2, <2>3 DEF Knows
  <2> QED
    BY <1>1, <2>2, <2>3, <2>4 DEF Knows, Placed
<1> QED
  BY <1>3 DEF Knowing

(* Every step of a page or of the server keeps this.                        *)
LEMMA StepKnowing ==
  ASSUME OwnBrowsers, Types, Places, Places', Knowing, [Next]_vars
  PROVE  Knowing'
<1>1. CASE UNCHANGED vars
  BY <1>1 DEF vars, server, Knowing, Knows, Placed, Told, Size, GuestCount
<1>2. CASE Next
  <2>1. PICK g \in Guests :
          \/ PasteText(g) \/ Load(g) \/ Joined(g)
          \/ Type(g) \/ Paste(g) \/ Erase(g) \/ DeleteKey(g)
          \/ Heartbeat(g) \/ News(g)
          \/ Login(g) \/ Send(g) \/ Logged(g) \/ Acknowledged(g)
    BY <1>2 DEF Next
  <2> QED
    BY <2>1, LoginKnowing, JoinedKnowing, HeartbeatKnowing, NewsKnowing, LoadKnowing, PageKnowing
<1> QED
  BY <1>1, <1>2

-----------------------------------------------------------------------------
(* A page whose document and news stay as they are.                        *)
LEMMA SoleStill ==
  ASSUME NEW g \in Guests, last[g] = -1 => Solely(g),
         last'[g] = -1 => last[g] = -1, doc'[g] = doc[g],
         DOMAIN doc[g].ch # {0, One} /\ Told(g).count = GuestCount =>
           Told(g)'.index = Told(g).index /\ Told(g)'.count = Told(g).count
  PROVE  last'[g] = -1 => Solely(g)'
<1> SUFFICES ASSUME last'[g] = -1 PROVE Solely(g)'
  OBVIOUS
<1>1. Solely(g) /\ GuestCount' = GuestCount
  BY DEF GuestCount
<1>2. CASE DOMAIN doc[g].ch = {0, One}
  BY <1>1, <1>2 DEF Solely, Solo, OnceListed
<1>3. CASE DOMAIN doc[g].ch # {0, One}
  <2>1. Told(g)'.index = Told(g).index /\ Told(g)'.count = Told(g).count
    BY <1>1, <1>3 DEF Solely
  <2> QED
    BY <1>1, <2>1 DEF Solely
<1> QED
  BY <1>2, <1>3

(* A page whose guest types.                                               *)
LEMMA MintSole ==
  ASSUME Informed, Types, Finite, Places, Contents, ~ TinyMinted',
         NEW g \in Guests, Solely(g), Patient => Told(g).count = GuestCount,
         NEW pos \in Nat, NEW c \in Nat, NEW also, told' = told,
         Mint(g, pos, c, also) \/ NoteNull(g, pos, c, also) \/ NoteNothing(g, pos, also)
  PROVE  Solely(g)'
<1>1. Told(g)' = Told(g) /\ GuestCount' = GuestCount
  BY DEF Told, GuestCount
<1>2. CASE Mint(g, pos, c, also)
  <2> DEFINE d == doc[g]   b == Told(g)   t == NewTag(d, pos, b.index, b.count)
  <2>1. /\ ~ Fails(g, pos) /\ Whole(d, pos, b.index, b.count)
        /\ doc' = [doc EXCEPT ![g] = Add(d, t, c)]
        /\ minted' = minted \cup {t}
    BY <1>2 DEF Mint
  <2>2. b.count # 0 /\ ~ Throws(d, pos)
    BY <2>1 DEF Fails
  <2>3. b.count \in Nat /\ b.index \in 0..(b.count - 1)
    BY <2>2, CountsAre
  <2>4. b.count = GuestCount
    <3>1. b.count \in 1..GuestCount
      <4>1. BrowserOf[g] \in Browsers /\ Unknown.count = 0
        BY DEF Browsers, Unknown
      <4> QED
        BY <2>2, <4>1 DEF Places, Told
    <3>2. GuestCount = 1 => b.count = 1
      <4> HIDE DEF b
      <4> QED
        BY <3>1
    <3> QED
      BY <3>2 DEF Informed
  <2>5. Proper(d) /\ Solo(d, b.index, b.count)
    BY DEF Contents, Writing, Written, Solely
  <2>6. t \in 1..(One - 1) /\ InShare(t, b.index, b.count) /\ t \notin ListedTags(d)
    <3> HIDE DEF d, b
    <3> QED
      BY <2>1, <2>2, <2>3, <2>5, SoloNew
  <2>7. ~ Tiny(t)
    BY <2>1 DEF TinyMinted
  <2>8. doc'[g] = Add(d, t, c) /\ \A h \in Guests \ {g} : doc'[h] = doc[h]
    <3> HIDE DEF d, t
    <3> QED
      BY <2>1 DEF Types, PageTypes
  <2>9. /\ Solo(Add(d, t, c), b.index, b.count)
        /\ DOMAIN Add(d, t, c).ch = DOMAIN d.ch \cup {t}
    <3> HIDE DEF d, t, b
    <3> QED
      BY <2>5, <2>6, <2>7, SoloAdd
  <2> HIDE DEF d, t, b
  <2>10. Solely(g)'
    BY <1>1, <2>4, <2>8, <2>9 DEF Solely, b
  <2> QED
    BY <2>1, <2>8, <2>10
<1>3. CASE NoteNull(g, pos, c, also) \/ NoteNothing(g, pos, also)
  <2>1. doc' = doc /\ minted' = minted
    BY <1>3 DEF NoteNull, NoteNothing
  <2> QED
    BY <1>1, <2>1 DEF Solely
<1> QED
  BY <1>2, <1>3

(* Its document stays its own, and so do the others'.                       *)
LEMMA TypedSole ==
  ASSUME Informed, Types, Finite, Places, Contents, Sole, ~ TinyMinted',
         NEW g \in Guests, Patient => Told(g).count = GuestCount, UNCHANGED <<last, told>>,
         NEW pos \in Nat, NEW c \in Nat, NEW also,
         Mint(g, pos, c, also) \/ NoteNull(g, pos, c, also) \/ NoteNothing(g, pos, also)
  PROVE  \A h \in Guests : last'[h] = -1 => Solely(h)'
<1>1. minted \subseteq minted' /\ \A h \in Guests \ {g} : doc'[h] = doc[h]
  BY DEF Mint, NoteNull, NoteNothing, Types, PageTypes
<1>2. \A h \in Guests : last[h] = -1 => Solely(h)
  BY <1>1 DEF Sole, TinyMinted
<1>3. ASSUME NEW h \in Guests \ {g} PROVE last'[h] = -1 => Solely(h)'
  <2>1. Told(h)' = Told(h) /\ last'[h] = last[h] /\ doc'[h] = doc[h]
    BY <1>1 DEF Told
  <2> QED
    BY <1>2, <2>1, SoleStill
<1>4. ASSUME last'[g] = -1 PROVE Solely(g)'
  <2>1. Solely(g)
    BY <1>2, <1>4
  <2> QED
    BY <2>1, MintSole
<1> QED
  BY <1>3, <1>4

(* Nothing new is attached to a page that has heard of no change.          *)
LEMMA NewsSole ==
  ASSUME Types, Finite, Contents, NEW g \in Guests, News(g), last'[g] = -1
  PROVE  last[g] = -1 /\ doc' = [doc EXCEPT ![g] = doc[g]]
<1> DEFINE a == answer[<<g, "heartbeat">>]   p == [doc |-> doc[g], text |-> text[g]]
<1>1. a # Server!NoAnswer
  BY DEF News, Server!Collect
<1>2. /\ last[g] <= last'[g] /\ last[g] \in {-1} \cup DOMAIN log
      /\ \A tr \in a.transactions : tr[1] <= last'[g] /\ tr[1] \in DOMAIN log
  BY <1>1, NewsLast DEF Contents, Counters, Notices
<1>3. \A i \in DOMAIN log : i \in Nat
  BY DEF Types, LogTypes
<1> HIDE DEF a
<1>4. last[g] = -1 /\ a.transactions = {}
  BY <1>2, <1>3
<1>5. PICK changes \in Deliveries(a.transactions), clamps \in BOOLEAN :
        doc' = [doc EXCEPT ![g] = AttachAll(p, changes, clamps).doc]
  BY DEF News, a
<1>6. changes = <<>>
  <2>1. IsFiniteSet(a.transactions) /\ \A tr \in a.transactions : IsFiniteSet(DOMAIN tr[2])
    BY <1>1 DEF Finite, a
  <2>2. changes \in Seq(Changes(a.transactions))
    BY <1>5, <2>1, DeliveriesAre
  <2>3. Changes(a.transactions) = {}
    BY <1>4 DEF Changes
  <2>4. Len(changes) = 0
    <3>1. Len(changes) # 0 => 1 \in 1..Len(changes) /\ changes[1] \in {}
      BY <2>2, <2>3
    <3> QED
      BY <3>1
  <2> QED
    BY <2>2, <2>4, EmptySeq
<1>7. AttachAll(p, changes, clamps) = p
  BY <1>6, AttachAllNothing
<1>8. AttachAll(p, changes, clamps).doc = doc[g]
  <2>1. p.doc = doc[g]
    OBVIOUS
  <2> HIDE DEF p
  <2> QED
    BY <1>7, <2>1
<1> HIDE DEF p
<1> QED
  BY <1>4, <1>5, <1>8

(* Documents stay one's own: ...                                           *)
LEMMA StepSole ==
  ASSUME OwnBrowsers, Informed, Types, Finite, Places, Places', Contents, Knowing, Knowing', Sole,
         [Next]_vars
  PROVE  Sole'
<1> SUFFICES ASSUME ~ TinyMinted', NEW h \in Guests
             PROVE  last'[h] = -1 => Solely(h)'
  BY DEF Sole
<1>1. CASE UNCHANGED vars
  BY <1>1 DEF vars, history, Sole, TinyMinted, Solely, Told, GuestCount
<1>2. CASE Next
  <2>1. PICK g \in Guests :
          \/ PasteText(g) \/ Load(g) \/ Joined(g)
          \/ Type(g) \/ Paste(g) \/ Erase(g) \/ DeleteKey(g)
          \/ Heartbeat(g) \/ News(g)
          \/ Login(g) \/ Send(g) \/ Logged(g) \/ Acknowledged(g)
    BY <1>2 DEF Next
  <2>2. ASSUME minted \subseteq minted' PROVE last[h] = -1 => Solely(h)
    BY <2>2 DEF Sole, TinyMinted
  <2>3. CASE \/ Paste(g) \/ DeleteKey(g) \/ Heartbeat(g)
             \/ Login(g) \/ Send(g) \/ Logged(g) \/ Acknowledged(g)
    <3>1. UNCHANGED <<doc, last, told, minted>>
      BY <2>3, LoginStep, LoggedStep DEF Paste, DeleteKey, Heartbeat, Send, Acknowledged, history
    <3> QED
      BY <2>2, <3>1, SoleStill DEF Told
  <2>4. CASE Load(g)
    <3>1. UNCHANGED <<doc, last, minted>> /\ stage[g] = "closed"
          /\ told' = [told EXCEPT ![BrowserOf[g]] = Unknown]
      BY <2>4 DEF Load, history
    <3>2. h # g => Told(h)' = Told(h)
      BY <3>1, LearnsAlone
    <3>3. h = g => Told(h).count = 0 /\ GuestCount > 0
      BY <3>1, CountsAre DEF Knowing, Knows
    <3>4. DOMAIN doc[h].ch # {0, One} /\ Told(h).count = GuestCount => Told(h)' = Told(h)
      BY <3>2, <3>3
    <3> QED
      BY <2>2, <3>1, <3>4, SoleStill
  <2>5. CASE Joined(g)
    <3>1. /\ UNCHANGED <<doc, last, minted>> /\ Server!Collect(<<g, "login">>)
          /\ Learn(g, answer[<<g, "login">>])
      BY <2>5 DEF Joined, history
    <3>2. h # g => Told(h)' = Told(h)
      BY <3>1, LearnsAlone DEF Learn
    <3>3. h = g => Told(h).count = 0 /\ GuestCount > 0
      BY <3>1, CountsAre DEF Knowing, Knows, Server!Collect
    <3>4. DOMAIN doc[h].ch # {0, One} /\ Told(h).count = GuestCount => Told(h)' = Told(h)
      BY <3>2, <3>3
    <3> QED
      BY <2>2, <3>1, <3>4, SoleStill
  <2>6. CASE News(g)
    <3> DEFINE a == answer[<<g, "heartbeat">>]   v == [index |-> a.position, count |-> a.count]
    <3>1. /\ UNCHANGED minted /\ a # Server!NoAnswer
          /\ told' = [told EXCEPT ![BrowserOf[g]] = v]
      BY <2>6 DEF News, history, Server!Collect, Learn
    <3>2. Told(g)' = v /\ (h # g => Told(h)' = Told(h))
      <4> HIDE DEF v
      <4> QED
        BY <3>1, LearnsAlone
    <3>3. ASSUME DOMAIN doc[g].ch # {0, One}, Told(g).count = GuestCount
          PROVE  Told(g)'.index = Told(g).index /\ Told(g)'.count = Told(g).count
      <4>1. /\ Told(g).count # 0 /\ GuestCount \in Nat /\ a.count \in Nat
            /\ Size <= GuestCount /\ Size \in Nat
        <5>1. /\ GuestCount \in Nat /\ GuestCount > 0 /\ Size <= GuestCount /\ Size \in Nat
              /\ a = Server!NoAnswer \/ a.count \in Nat
          BY CountsAre
        <5> QED
          BY <3>1, <3>3, <5>1
      <4>2. /\ Told(g).index = members[g] /\ Placed(g, a) /\ Told(g).count <= a.count
        BY <3>1, <4>1 DEF Knowing, Knows
      <4>3. a.count = Told(g).count /\ a.position = Told(g).index
        <5> HIDE DEF a
        <5> QED
          BY <3>3, <4>1, <4>2 DEF Placed
      <4>4. Told(g)'.index = a.position /\ Told(g)'.count = a.count
        BY <3>2
      <4> QED
        BY <4>3, <4>4
    <3> HIDE DEF a, v
    <3>4. DOMAIN doc[h].ch # {0, One} /\ Told(h).count = GuestCount =>
            Told(h)'.index = Told(h).index /\ Told(h)'.count = Told(h).count
      BY <3>2, <3>3
    <3>5. ASSUME last'[h] = -1 PROVE last[h] = -1 /\ doc'[h] = doc[h]
      <4>1. doc = [x \in Guests |-> doc[x]]
        BY DEF Types, PageTypes
      <4>2. CASE h = g
        BY <2>6, <3>5, <4>1, <4>2, NewsSole
      <4>3. CASE h # g
        <5>1. last'[h] = last[h]
          BY <2>6, <4>3, NewsLast
        <5>2. \E x : doc' = [doc EXCEPT ![g] = x]
          BY <2>6 DEF News
        <5> QED
          BY <3>5, <4>1, <4>3, <5>1, <5>2
      <4> QED
        BY <4>2, <4>3
    <3> SUFFICES ASSUME last'[h] = -1 PROVE last'[h] = -1 => Solely(h)'
      OBVIOUS
    <3> QED
      BY <2>2, <3>1, <3>4, <3>5, SoleStill
  <2>7. CASE Type(g)
    <3>1. PICK from \in 0..Len(text[g]) :
            \/ Mint(g, from, typed + 1, {}) \/ NoteNull(g, from, typed + 1, {})
            \/ NoteNothing(g, from, {})
      BY <2>7 DEF Type
    <3>2. UNCHANGED <<last, told>> /\ Edits(g) /\ typed + 1 \in Nat /\ from \in Nat
      <4>1. UNCHANGED <<last, told>> /\ Edits(g)
        BY <2>7 DEF Type
      <4>2. typed + 1 \in Nat
        BY BoundsAre DEF Contents, Counters
      <4> QED
        BY <3>1, <4>1, <4>2
    <3>3. Patient => Told(g).count = GuestCount
      BY <3>2 DEF Edits, GuestCount
    <3> QED
      BY <3>1, <3>2, <3>3, TypedSole
  <2>8. CASE PasteText(g)
    <3> DEFINE c == Head(clip[g].chars)   pos == clip[g].from
               shifted == IF text[g] = clip[g].text THEN {} ELSE {"shifted"}
    <3>1. /\ clip[g] # NoPaste /\ UNCHANGED <<last, told>>
          /\ \/ Mint(g, pos, c, shifted) \/ NoteNull(g, pos, c, shifted)
             \/ NoteNothing(g, pos, shifted)
      BY <2>8 DEF PasteText
    <3>2. pos \in Nat /\ c \in Nat
      <4>1. typed \in Nat /\ Clipped(clip[g], typed)
        BY BoundsAre DEF Contents, Counters, Writing, Written
      <4>2. PICK s \in Seq(1..typed) : s = clip[g].chars /\ s # <<>>
        BY <3>1, <4>1 DEF Clipped
      <4>3. Head(s) \in 1..typed
        BY <4>2, HeadTailProperties
      <4> QED
        BY <4>1, <4>2, <4>3 DEF Clipped
    <3>3. Patient => Told(g).count = GuestCount
      BY <3>1 DEF Knowing, Knows
    <3> HIDE DEF c, pos, shifted
    <3> QED
      BY <3>1, <3>2, <3>3, TypedSole
  <2>9. CASE Erase(g)
    <3> DEFINE d == doc[g]
               Gone(i, j) == {DeleteTag(d, p) : p \in {q \in (i + 1)..j : Deletable(d, q)}}
    <3>1. PICK from, to \in 0..Len(text[g]) : doc' = [doc EXCEPT ![g] = Hide(d, Gone(from, to))]
      BY <2>9 DEF Erase
    <3>2. UNCHANGED <<last, told, minted>>
      BY <2>9 DEF Erase
    <3>3. PICK gone : gone = Gone(from, to)
      OBVIOUS
    <3>4. doc'[g] = Hide(d, gone) /\ (h # g => doc'[h] = doc[h])
      <4>1. doc' = [doc EXCEPT ![g] = Hide(d, gone)]
        BY <3>1, <3>3
      <4> HIDE DEF d
      <4> QED
        BY <4>1 DEF Types, PageTypes
    <3>5. ASSUME last[g] = -1, Solely(g) PROVE Solely(g)'
      <4>1. PICK b : b = Told(g)
        OBVIOUS
      <4>2. Proper(d) /\ Solo(d, b.index, b.count)
        BY <3>5, <4>1 DEF Contents, Writing, Written, Solely
      <4>3. from \in Nat /\ to \in Nat
        OBVIOUS
      <4>4. Solo(Hide(d, gone), b.index, b.count) /\ DOMAIN Hide(d, gone).ch = DOMAIN d.ch
        <5>1. PICK e, index, n : e = d /\ index = b.index /\ n = b.count
          OBVIOUS
        <5>2. Goes(e, gone)
          <6>1. gone = {DeleteTag(e, p) : p \in {q \in (from + 1)..to : Deletable(e, q)}}
            BY <3>3, <5>1
          <6> HIDE DEF d, Gone
          <6> QED
            BY <4>3, <6>1, Zenon DEF Goes
        <5>3. Proper(e) /\ Solo(e, index, n)
          BY <4>2, <5>1
        <5> HIDE DEF d, Gone
        <5>4. Solo(Hide(e, gone), index, n) /\ DOMAIN Hide(e, gone).ch = DOMAIN e.ch
          BY <5>2, <5>3, SoloHide
        <5> QED
          BY <5>1, <5>4
      <4>5. Told(g)' = b /\ GuestCount' = GuestCount
        BY <3>2, <4>1 DEF Told, GuestCount
      <4> QED
        BY <3>4, <3>5, <4>1, <4>4, <4>5 DEF Solely
    <3> HIDE DEF d, Gone
    <3>6. Told(h)' = Told(h)
      BY <3>2 DEF Told
    <3>7. CASE h = g
      BY <2>2, <3>2, <3>5, <3>7
    <3>8. CASE h # g
      BY <2>2, <3>2, <3>4, <3>6, <3>8, SoleStill
    <3> QED
      BY <3>7, <3>8
  <2> QED
    BY <2>1, <2>3, <2>4, <2>5, <2>6, <2>7, <2>8, <2>9
<1> QED
  BY <1>1, <1>2

(* At first a page has told nobody anything.                               *)
LEMMA SoleInitially ==
  ASSUME Init
  PROVE  Knowing /\ Sole
<1>1. answer = [c \in Calls |-> Server!NoAnswer]
  BY DEF Init, Server!Init, Calls
<1>2. ASSUME NEW g \in Guests
      PROVE  /\ Told(g) = Unknown /\ clip[g] = NoPaste /\ doc[g] = EmptyDoc
             /\ answer[<<g, "login">>] = Server!NoAnswer
             /\ answer[<<g, "heartbeat">>] = Server!NoAnswer
  <2>1. BrowserOf[g] \in Browsers
    BY DEF Browsers
  <2>2. Told(g) = Unknown
    BY <2>1 DEF Init, Told
  <2> QED
    BY <1>1, <2>2 DEF Init, Calls
<1>3. Knowing
  <2> SUFFICES ASSUME NEW g \in Guests PROVE Knows(g)
    BY DEF Knowing
  <2>1. Told(g).count = 0
    <3>1. PICK b : b = Told(g)
      OBVIOUS
    <3>2. b = Unknown
      BY <1>2, <3>1
    <3>3. b.count = 0
      BY <3>2 DEF Unknown
    <3> QED
      BY <3>1, <3>3
  <2> QED
    BY <1>2, <2>1 DEF Knows
<1>4. One \in Nat /\ One # 0
  BY OneAssumption, SMT
<1>5. /\ EmptyDoc.tags = <<0, One>> /\ DOMAIN EmptyDoc.ch = {0, One}
      /\ EmptyDoc.ack = [t \in {0, One} |-> TRUE]
  BY DEF EmptyDoc
<1>6. OnceListed(EmptyDoc) /\ EmptyDoc.ack[One]
  BY <1>4, <1>5 DEF OnceListed
<1>7. \A index, n : Solo(EmptyDoc, index, n)
  BY <1>5, <1>6 DEF Solo
<1>8. Sole
  BY <1>2, <1>5, <1>7 DEF Sole, Solely
<1> QED
  BY <1>3, <1>8

(* Every document of one's own tags only keeps to its share.               *)
LEMMA SoleShares ==
  ASSUME Sole
  PROVE  SharesKept
<1> SUFFICES ASSUME ~ TinyMinted, NEW g \in Guests, last[g] = -1,
                    NEW t \in DOMAIN doc[g].ch \ {0, One}
             PROVE  /\ Told(g).index * One < t * Told(g).count
                    /\ t * Told(g).count < (Told(g).index + 1) * One
  BY DEF SharesKept
<1>1. Solo(doc[g], Told(g).index, Told(g).count)
  BY DEF Sole, Solely
<1>2. PICK d, index, n : d = doc[g] /\ index = Told(g).index /\ n = Told(g).count
  OBVIOUS
<1>3. InShare(t, index, n)
  BY <1>1, <1>2 DEF Solo
<1> QED
  BY <1>2, <1>3 DEF InShare

(* Where every guest has a browser of its own, and nobody types before all *)
(* are in (or there is one guest only), the tags of a page that has heard  *)
(* of no change (PPS.insert: each between two neighbours, and cut to the   *)
(* page's share of the interval) lie in the share of its own position:     *)
(* until then two pages never make the same tag, however many characters   *)
(* they type, wherever they type them and whatever they erase.             *)
THEOREM SharesAreKept ==
  ASSUME OwnBrowsers, Informed
  PROVE  Spec => []SharesKept
<1> DEFINE Inv == Kept /\ Joining /\ Places /\ Contents /\ Knowing /\ Sole
<1>1. Init => Inv
  BY KeptInitially, ContentsInitially, SoleInitially
<1>2. Inv /\ [Next]_vars => Inv'
  <2>1. Kept /\ Joining /\ Places /\ Contents /\ [Next]_vars
          => Kept' /\ Joining' /\ Places' /\ Contents'
    BY StepKeeps, StepContents DEF Kept
  <2>2. Kept /\ Places /\ Places' /\ Knowing /\ [Next]_vars => Knowing'
    BY StepKnowing DEF Kept
  <2>3. Kept /\ Places /\ Places' /\ Contents /\ Knowing /\ Knowing' /\ Sole /\ [Next]_vars
          => Sole'
    BY StepSole DEF Kept
  <2> QED
    BY <2>1, <2>2, <2>3
<1>3. Inv => SharesKept
  BY SoleShares
<1> HIDE DEF Inv
<1> QED
  BY <1>1, <1>2, <1>3, PTL DEF Spec

-----------------------------------------------------------------------------
(***************************************************************************)
(* The order of the tags.                                                  *)
(***************************************************************************)

(* Tags that are sorted by their value and listed once increase strictly.  *)
LEMMA ValuesIncrease ==
  ASSUME NEW d, Proper(d), OnceListed(d), \A k \in DOMAIN d.tags : ~ Tiny(d.tags[k])
  PROVE  \A i \in 1..(Len(d.tags) - 1) : d.tags[i] < d.tags[i + 1]
<1> SUFFICES ASSUME NEW i \in 1..(Len(d.tags) - 1)
             PROVE  d.tags[i] < d.tags[i + 1]
  OBVIOUS
<1>1. Len(d.tags) \in Nat /\ DOMAIN d.tags = 1..Len(d.tags)
  BY DEF Proper, Listed
<1>2. PICK j : j = i + 1
  OBVIOUS
<1>3. i \in DOMAIN d.tags /\ j \in DOMAIN d.tags /\ i < j /\ i # j
  BY <1>1, <1>2
<1>4. /\ d.tags[i] \in Tags /\ d.tags[j] \in Tags /\ d.tags[i] # d.tags[j]
      /\ Rank(d.tags[i]) <= Rank(d.tags[j])
  BY <1>3 DEF Proper, Listed, Ranked, OnceListed
<1>5. PICK t, u : t = d.tags[i] /\ u = d.tags[j]
  OBVIOUS
<1>6. t \in Tags /\ u \in Tags /\ t # u /\ ~ Tiny(t) /\ ~ Tiny(u) /\ Rank(t) <= Rank(u)
  BY <1>3, <1>4, <1>5
<1>7. One \in Nat /\ One >= 1
  BY OneAssumption, SMT
<1>8. t \in 0..(One + 1) /\ u \in 0..(One + 1)
  BY <1>6 DEF Tags, NullTag
<1>9. t < u
  BY <1>6, <1>7, <1>8 DEF Rank, NullTag
<1> QED
  BY <1>2, <1>5, <1>9

(* As long as no tag is made twice and every character finds a place, the  *)
(* tags of a page are in strictly increasing order, whoever made them and  *)
(* in whatever order they arrived: binary insertion by PPS.add never meets *)
(* a tag that is there, unless one is sorted by how big.js writes it.      *)
THEOREM SmoothTagsIncrease == Spec => [](Smooth => TagsIncreasing)
<1> DEFINE Inv == Kept /\ Joining /\ Places /\ Contents /\ Fetched /\ Tidy
<1>1. Init => Inv
  BY KeptInitially, ContentsInitially, TidyInitially
<1>2. Inv /\ [Next]_vars => Inv'
  BY StepKeeps, StepContents, StepFetched, StepTidy DEF Kept
<1>3. Inv => (Smooth => TagsIncreasing)
  <2> SUFFICES ASSUME Inv, Smooth, ~ TinyMinted, NEW g \in Guests
               PROVE  LET tags == doc[g].tags
                      IN  \A i \in 1..(Len(tags) - 1) : tags[i] < tags[i + 1]
    BY DEF TagsIncreasing
  <2>1. PICK d : d = doc[g]
    OBVIOUS
  <2>2. Proper(d)
    BY <2>1 DEF Contents, Writing, Written
  <2>3. OnceListed(d) /\ ListedTags(d) \subseteq minted \cup {0, One}
    BY <2>1 DEF Tidy, Carried, Made, Fitting, Fits
  <2>4. One \in Nat /\ One >= 1
    BY OneAssumption, SMT
  <2>5. ~ Tiny(0) /\ ~ Tiny(One)
    BY <2>4 DEF Tiny
  <2>6. \A k \in DOMAIN d.tags : ~ Tiny(d.tags[k])
    BY <2>3, <2>5 DEF ListedTags, TinyMinted
  <2>7. \A i \in 1..(Len(d.tags) - 1) : d.tags[i] < d.tags[i + 1]
    BY <2>2, <2>3, <2>6, ValuesIncrease
  <2> QED
    BY <2>1, <2>7
<1> HIDE DEF Inv
<1> QED
  BY <1>1, <1>2, <1>3, PTL DEF Spec

(* A guest alone hears of no change but its own.                           *)
Hears(g) ==
  /\ last[g] = -1
  /\ DOMAIN log # {} => g \in DOMAIN own /\ DOMAIN log \subseteq own[g]

(* What it has logged is on its own list, and no heartbeat brings it back.  *)
LEMMA AloneHears ==
  ASSUME Types, Contents, Fetched, NEW g \in Guests, Guests = {g}, Hears(g), [Next]_vars
  PROVE  Hears(g)'
<1>1. CASE UNCHANGED vars
  BY <1>1 DEF vars, server, Hears
<1>2. CASE Next
  <2>1. \/ PasteText(g) \/ Load(g) \/ Joined(g)
        \/ Type(g) \/ Paste(g) \/ Erase(g) \/ DeleteKey(g)
        \/ Heartbeat(g) \/ News(g)
        \/ Login(g) \/ Send(g) \/ Logged(g) \/ Acknowledged(g)
    <3>1. PICK h \in Guests :
            \/ PasteText(h) \/ Load(h) \/ Joined(h)
            \/ Type(h) \/ Paste(h) \/ Erase(h) \/ DeleteKey(h)
            \/ Heartbeat(h) \/ News(h)
            \/ Login(h) \/ Send(h) \/ Logged(h) \/ Acknowledged(h)
      BY <1>2 DEF Next
    <3>2. h = g
      OBVIOUS
    <3> QED
      BY <3>1, <3>2
  <2>2. CASE Login(g)
    <3>1. UNCHANGED <<log, last>> /\ g \notin DOMAIN own
      BY <2>2, LoginStep
    <3> QED
      BY <3>1 DEF Hears
  <2>3. CASE Logged(g)
    <3>1. UNCHANGED last /\ g \in DOMAIN own /\ DOMAIN own' = DOMAIN own
      BY <2>3, LoggedStep
    <3>2. PICK i \in Nat :
            /\ DOMAIN log' = DOMAIN log \cup {i}
            /\ \A n \in DOMAIN own : own'[n] = IF n = g THEN own[n] \cup {i} ELSE own[n]
      BY <2>3, LoggedStep
    <3>3. own'[g] = own[g] \cup {i}
      BY <3>1, <3>2
    <3> QED
      BY <3>1, <3>2, <3>3 DEF Hears
  <2>4. CASE News(g)
    <3> DEFINE a == answer[<<g, "heartbeat">>]   ids == {tr[1] : tr \in a.transactions}
               S == {last[g]} \cup ids
    <3>1. UNCHANGED <<log, own>>
      BY <2>4, OtherStep
    <3>2. /\ a # Server!NoAnswer
          /\ last' = [last EXCEPT ![g] = CHOOSE k \in S : \A i \in S : i <= k]
      BY <2>4 DEF News, Server!Collect
    <3>3. ids = {}
      <4>1. \A tr \in a.transactions : tr[1] \in Unheard(g)
        BY <3>2 DEF Fetched
      <4>2. Unheard(g) = {}
        BY DEF Hears, Unheard
      <4> HIDE DEF a
      <4> QED
        BY <4>1, <4>2
    <3>4. S = {-1}
      BY <3>3 DEF Hears
    <3>5. PICK k : k = CHOOSE x \in S : \A i \in S : i <= x
      OBVIOUS
    <3>6. k = -1
      <4>1. \E x \in S : \A i \in S : i <= x
        BY <3>4
      <4>2. k \in S
        BY <3>5, <4>1
      <4> QED
        BY <3>4, <4>2
    <3>7. last'[g] = -1
      <4>1. last' = [last EXCEPT ![g] = k]
        BY <3>2, <3>5
      <4>2. last = [h \in Guests |-> last[h]]
        BY DEF Contents, Counters
      <4> QED
        BY <3>6, <4>1, <4>2
    <3> QED
      BY <3>1, <3>7 DEF Hears
  <2>5. CASE \/ PasteText(g) \/ Load(g) \/ Joined(g)
             \/ Type(g) \/ Paste(g) \/ Erase(g) \/ DeleteKey(g)
             \/ Heartbeat(g) \/ Send(g) \/ Acknowledged(g)
    <3>1. UNCHANGED last
      BY <2>5 DEF PasteText, Load, Joined, Type, Paste, Erase, DeleteKey, Heartbeat, Send,
                  Acknowledged
    <3>2. UNCHANGED <<log, own>>
      BY <2>5, OtherStep
    <3> QED
      BY <3>1, <3>2 DEF Hears
  <2> QED
    BY <2>1, <2>2, <2>3, <2>4, <2>5
<1> QED
  BY <1>1, <1>2

(* A guest alone keeps its tags in strictly increasing order, down to      *)
(* those that big.js writes with an exponent: however long it types,       *)
(* pastes and erases, and whatever it types over, no tag is made twice and *)
(* none lies outside its neighbours (PPS.insert: ppsAck of one's own tags  *)
(* is never set, so every interval reaches from 0 to 1).                   *)
THEOREM LoneTagsIncrease ==
  ASSUME GuestCount = 1
  PROVE  Spec => []TagsIncreasing
<1>1. PICK g \in Guests : Guests = {g}
  <2>1. \E x : Guests = {x}
    BY ColabAssumption, FS_Singleton DEF GuestCount
  <2> QED
    BY <2>1
<1>2. OwnBrowsers /\ Informed
  BY <1>1 DEF OwnBrowsers, Informed
<1> DEFINE Inv == /\ Kept /\ Joining /\ Places /\ Contents /\ Fetched
                  /\ Knowing /\ Sole /\ Hears(g)
<1>3. Init => Inv
  <2>1. Init => Kept /\ Joining /\ Places /\ Contents /\ Fetched /\ Knowing /\ Sole
    BY KeptInitially, ContentsInitially, TidyInitially, SoleInitially
  <2>2. Init => Hears(g)
    BY DEF Init, Server!Init, Hears
  <2> QED
    BY <2>1, <2>2
<1>4. Inv /\ [Next]_vars => Inv'
  <2>1. Kept /\ Joining /\ Places /\ Contents /\ Fetched /\ [Next]_vars
          => Kept' /\ Joining' /\ Places' /\ Contents' /\ Fetched'
    BY StepKeeps, StepContents, StepFetched DEF Kept
  <2>2. Kept /\ Places /\ Places' /\ Knowing /\ [Next]_vars => Knowing'
    BY <1>2, StepKnowing DEF Kept
  <2>3. Kept /\ Places /\ Places' /\ Contents /\ Knowing /\ Knowing' /\ Sole /\ [Next]_vars
          => Sole'
    BY <1>2, StepSole DEF Kept
  <2>4. Kept /\ Contents /\ Fetched /\ Hears(g) /\ [Next]_vars => Hears(g)'
    BY <1>1, AloneHears DEF Kept
  <2> QED
    BY <2>1, <2>2, <2>3, <2>4
<1>5. Inv => TagsIncreasing
  <2> SUFFICES ASSUME Inv, ~ TinyMinted
               PROVE  LET tags == doc[g].tags
                      IN  \A i \in 1..(Len(tags) - 1) : tags[i] < tags[i + 1]
    BY <1>1 DEF TagsIncreasing
  <2>1. PICK d, index, n : d = doc[g] /\ index = Told(g).index /\ n = Told(g).count
    OBVIOUS
  <2>2. Proper(d) /\ Solo(d, index, n)
    BY <2>1 DEF Contents, Writing, Written, Sole, Solely, Hears
  <2>3. \A i, j \in DOMAIN d.tags : i < j => d.tags[i] < d.tags[j]
    BY <2>2, SoloOrdered
  <2>4. Len(d.tags) \in Nat /\ DOMAIN d.tags = 1..Len(d.tags)
    BY <2>2 DEF Proper, Listed
  <2>5. \A i \in 1..(Len(d.tags) - 1) : i \in DOMAIN d.tags /\ i + 1 \in DOMAIN d.tags /\ i < i + 1
    BY <2>4
  <2>6. \A i \in 1..(Len(d.tags) - 1) : d.tags[i] < d.tags[i + 1]
    BY <2>3, <2>5
  <2> QED
    BY <2>1, <2>6
<1> HIDE DEF Inv
<1> QED
  BY <1>3, <1>4, <1>5, PTL DEF Spec

-----------------------------------------------------------------------------
(***************************************************************************)
(* As long as no tag is made twice, a page has of every tag what it was    *)
(* told of it: by its guest, in what is pending, sent or logged, and by    *)
(* the changes of the others that it has heard.                            *)
(***************************************************************************)
Heard(g) == DOMAIN log \ Unheard(g)

Mentioned(g, t) ==
  \/ t \in DOMAIN pending[g] \cup DOMAIN sent[g]
  \/ \E i \in Heard(g) : t \in DOMAIN log[i]
Says(g, t, c) ==
  \/ t \in DOMAIN pending[g] /\ pending[g][t] = c
  \/ t \in DOMAIN sent[g] /\ sent[g][t] = c
  \/ \E i \in Heard(g) : t \in DOMAIN log[i] /\ log[i][t] = c

(* A character it was told of, none if it was told of a deletion; it lists *)
(* what it shows.                                                          *)
Reflects(g, t) ==
  IF t \in DOMAIN doc[g].ch
  THEN /\ Says(g, t, doc[g].ch[t])
       /\ Says(g, t, Nul) => doc[g].ch[t] = Nul
       /\ doc[g].ch[t] # Nul => t \in ListedTags(doc[g])
  ELSE ~ Mentioned(g, t)
Reflected ==
  \A g \in Guests : OnceAmong(doc[g], Stamps) /\ \A t \in Stamps : Reflects(g, t)

(* Nobody has a stamp that was not made.                                   *)
Stamped ==
  /\ \A g \in Guests : \A t \in Stamps : t \in DOMAIN doc[g].ch => t \in minted
  /\ \A i \in DOMAIN log : \A t \in Stamps : t \in DOMAIN log[i] => t \in minted

(* What is inserted on a page and not yet logged is on that page only; in  *)
(* the log its insertion comes first; and it is new to who has not heard.  *)
Outgoing(g, t) == t \in Inserts(pending[g]) \/ (Unlogged(g) /\ t \in Inserts(sent[g]))
Private ==
  /\ \A g \in Guests : \A t \in Stamps : Outgoing(g, t) =>
       /\ \A h \in Guests : h # g => t \notin DOMAIN doc[h].ch
       /\ \A i \in DOMAIN log : t \notin DOMAIN log[i]
  /\ \A g \in Guests : \A t \in Stamps : t \in Inserts(pending[g]) => t \notin DOMAIN sent[g]
Foremost ==
  \A i, j \in DOMAIN log : \A t \in Stamps : t \in Inserts(log[i]) /\ t \in DOMAIN log[j] => i <= j
Unseen ==
  \A g \in Guests : \A i \in Unheard(g) : \A t \in Stamps :
    t \in Inserts(log[i]) => t \notin DOMAIN doc[g].ch

Spread == Reflected /\ Stamped /\ Private /\ Foremost /\ Unseen
Single == "twice" \notin odd
Common == Single => Spread

(* A heartbeat leaves out nothing that came before what it brings.         *)
Complete ==
  \A g \in Guests : answer[<<g, "heartbeat">>] # Server!NoAnswer =>
    \A tr \in answer[<<g, "heartbeat">>].transactions : \A i \in Unheard(g) :
      i <= tr[1] => \E x \in answer[<<g, "heartbeat">>].transactions : x[1] = i

(* A step in which no page learns or notes anything of a stamp.            *)
Unmoved(g) ==
  /\ doc'[g] = doc[g] /\ Unheard(g)' = Unheard(g)
  /\ \A t \in Stamps : /\ t \in DOMAIN pending'[g] <=> t \in DOMAIN pending[g]
                       /\ t \in DOMAIN pending[g] => pending'[g][t] = pending[g][t]
  /\ \/ sent'[g] = sent[g] /\ (Unlogged(g)' => Unlogged(g))
     \/ sent'[g] = NoChange /\ \E i \in Heard(g) : log[i] = sent[g]

(* Such a step changes nothing here.                                       *)
LEMMA UnmovedSpread ==
  ASSUME Spread, UNCHANGED <<log, minted>>, \A g \in Guests : Unmoved(g)
  PROVE  Spread'
<1>1. ASSUME NEW g \in Guests
      PROVE  /\ doc'[g] = doc[g] /\ Heard(g)' = Heard(g) /\ Unheard(g)' = Unheard(g)
             /\ \A t \in Stamps : /\ Mentioned(g, t)' => Mentioned(g, t)
                                  /\ \A c : Says(g, t, c)' <=> Says(g, t, c)
                                  /\ Outgoing(g, t)' => Outgoing(g, t)
                                  /\ t \in Inserts(pending'[g]) => t \in Inserts(pending[g])
                                  /\ t \in DOMAIN sent'[g] => t \in DOMAIN sent[g]
  <2>1. /\ doc'[g] = doc[g] /\ Heard(g)' = Heard(g) /\ Unheard(g)' = Unheard(g)
    BY DEF Unmoved, Heard
  <2> SUFFICES ASSUME NEW t \in Stamps
               PROVE  /\ Mentioned(g, t)' => Mentioned(g, t)
                      /\ \A c : Says(g, t, c)' <=> Says(g, t, c)
                      /\ Outgoing(g, t)' => Outgoing(g, t)
                      /\ t \in Inserts(pending'[g]) => t \in Inserts(pending[g])
                      /\ t \in DOMAIN sent'[g] => t \in DOMAIN sent[g]
    BY <2>1
  <2>2. /\ t \in DOMAIN pending'[g] <=> t \in DOMAIN pending[g]
        /\ t \in DOMAIN pending[g] => pending'[g][t] = pending[g][t]
    BY DEF Unmoved
  <2>3. t \in Inserts(pending'[g]) => t \in Inserts(pending[g])
    BY <2>2 DEF Inserts
  <2>4. CASE sent'[g] = sent[g] /\ (Unlogged(g)' => Unlogged(g))
    <3>1. Mentioned(g, t)' => Mentioned(g, t)
      BY <2>1, <2>2, <2>4 DEF Mentioned
    <3>2. \A c : Says(g, t, c)' <=> Says(g, t, c)
      BY <2>1, <2>2, <2>4 DEF Says
    <3>3. Outgoing(g, t)' => Outgoing(g, t)
      BY <2>3, <2>4 DEF Outgoing
    <3> QED
      BY <2>3, <2>4, <3>1, <3>2, <3>3
  <2>5. CASE sent'[g] = NoChange /\ \E i \in Heard(g) : log[i] = sent[g]
    <3>1. DOMAIN sent'[g] = {} /\ Inserts(sent'[g]) = {}
      BY <2>5, NoInserts DEF NoChange
    <3>2. PICK i \in Heard(g) : log[i] = sent[g]
      BY <2>5
    <3>3. Mentioned(g, t)' => Mentioned(g, t)
      BY <2>1, <2>2, <3>1 DEF Mentioned
    <3>4. \A c : Says(g, t, c)' <=> Says(g, t, c)
      BY <2>1, <2>2, <3>1, <3>2 DEF Says
    <3>5. Outgoing(g, t)' => Outgoing(g, t)
      BY <2>3, <3>1 DEF Outgoing
    <3> QED
      BY <2>3, <3>1, <3>3, <3>4, <3>5
  <2> QED
    BY <2>4, <2>5 DEF Unmoved
<1>2. Reflected'
  <2> SUFFICES ASSUME NEW g \in Guests
               PROVE  OnceAmong(doc'[g], Stamps) /\ \A t \in Stamps : Reflects(g, t)'
    BY DEF Reflected
  <2>1. OnceAmong(doc'[g], Stamps)
    BY <1>1 DEF Spread, Reflected
  <2>2. ASSUME NEW t \in Stamps PROVE Reflects(g, t)'
    <3>1. Reflects(g, t)
      BY DEF Spread, Reflected
    <3> QED
      BY <1>1, <3>1 DEF Reflects
  <2> QED
    BY <2>1, <2>2
<1>3. Stamped'
  BY <1>1 DEF Spread, Stamped
<1>4. Private'
  BY <1>1 DEF Spread, Private
<1>5. Foremost' /\ Unseen'
  BY <1>1 DEF Spread, Foremost, Unseen
<1> QED
  BY <1>2, <1>3, <1>4, <1>5 DEF Spread

(* PPS.insert makes a stamp.                                               *)
LEMMA NewStamp ==
  ASSUME Types, Places, Contents, NEW g \in Guests, NEW pos \in Nat, NEW c, NEW also,
         Mint(g, pos, c, also)
  PROVE  NewTag(doc[g], pos, Told(g).index, Told(g).count) \in Stamps
<1>1. Told(g).count # 0 /\ ~ Throws(doc[g], pos)
  BY DEF Mint, Fails
<1>2. Told(g).count \in Nat /\ Told(g).index \in 0..(Told(g).count - 1)
  <2>1. BrowserOf[g] \in Browsers
    BY DEF Browsers
  <2>2. Unknown.count = 0 /\ GuestCount \in Nat
    BY SizeIs DEF Unknown
  <2> QED
    BY <1>1, <2>1, <2>2 DEF Places, Told
<1>3. Proper(doc[g])
  BY DEF Contents, Writing, Written
<1>4. PICK b : b = Told(g)
  OBVIOUS
<1>5. Whole(doc[g], pos, b.index, b.count)
  BY <1>4 DEF Mint
<1>6. NewTag(doc[g], pos, b.index, b.count) \in 1..(One - 1)
  BY <1>1, <1>2, <1>3, <1>4, <1>5, NewTagBetween
<1> QED
  BY <1>4, <1>6 DEF Stamps

(* What is known of tag t on page g becomes the character c.               *)
Becomes(g, t, c) ==
  /\ \A h \in Guests : h # g => doc'[h] = doc[h] /\ pending'[h] = pending[h]
  /\ \A h \in Guests : Unheard(h)' = Unheard(h) /\ Unlogged(h)' = Unlogged(h)
  /\ DOMAIN doc'[g].ch = DOMAIN doc[g].ch \cup {t} /\ doc'[g].ch[t] = c
  /\ \A u \in DOMAIN doc[g].ch : u # t => doc'[g].ch[u] = doc[g].ch[u]
  /\ DOMAIN pending'[g] = DOMAIN pending[g] \cup {t} /\ pending'[g][t] = c
  /\ \A u \in DOMAIN pending[g] : u # t => pending'[g][u] = pending[g][u]

(* A stamp is made and noted.                                              *)
LEMMA MintSpread ==
  ASSUME Types, Places, Contents, Spread, Single', NEW g \in Guests, NEW pos \in Nat,
         NEW c \in Nat, c # Nul, NEW also, Mint(g, pos, c, also),
         UNCHANGED <<log, own, answer, sent, last>>
  PROVE  Spread'
<1>0. PICK t : t = NewTag(doc[g], pos, Told(g).index, Told(g).count)
  OBVIOUS
<1>1. t \in Stamps /\ t \notin minted
  BY <1>0, NewStamp DEF Mint, Single
<1>2. /\ doc' = [doc EXCEPT ![g] = Add(doc[g], t, c)]
      /\ pending' = [pending EXCEPT ![g] = MapSet(pending[g], t, c)]
      /\ minted' = minted \cup {t}
  BY <1>0 DEF Mint
<1>3. /\ doc = [h \in Guests |-> doc[h]] /\ pending = [h \in Guests |-> pending[h]]
      /\ Proper(doc[g])
  BY DEF Types, PageTypes, Contents, Writing, Written
<1>4. /\ doc'[g] = Add(doc[g], t, c) /\ pending'[g] = MapSet(pending[g], t, c)
      /\ \A h \in Guests : h # g => doc'[h] = doc[h] /\ pending'[h] = pending[h]
  BY <1>2, <1>3
<1>5. Becomes(g, t, c)
  <2>1. \A h \in Guests : Unheard(h)' = Unheard(h) /\ Unlogged(h)' = Unlogged(h)
    BY DEF Unheard, Unlogged
  <2>2. doc'[g].ch = MapSet(doc[g].ch, t, c)
    BY <1>4 DEF Add
  <2> QED
    BY <1>4, <2>1, <2>2 DEF Becomes, MapSet
<1>6. /\ t \notin DOMAIN sent[g] /\ \A h \in Guests : t \notin DOMAIN doc[h].ch
      /\ t \notin DOMAIN pending[g] /\ \A i \in DOMAIN log : t \notin DOMAIN log[i]
  <2>1. /\ \A h \in Guests : t \notin DOMAIN doc[h].ch
        /\ \A i \in DOMAIN log : t \notin DOMAIN log[i]
    BY <1>1 DEF Spread, Stamped
  <2>2. ~ Mentioned(g, t)
    BY <1>1, <2>1 DEF Spread, Reflected, Reflects
  <2> QED
    BY <2>1, <2>2 DEF Mentioned
<1>7. OnceAmong(doc'[g], Stamps) /\ ListedTags(doc'[g]) = ListedTags(doc[g]) \cup {t}
  <2>1. PICK d : d = doc[g]
    OBVIOUS
  <2>2. PICK e : e = doc'[g]
    OBVIOUS
  <2>3. d.tags \in Seq(Tags) /\ Ranked(d.tags) /\ OnceAmong(d, Stamps) /\ e.tags = Push(d.tags, t)
    BY <1>3, <1>4, <2>1, <2>2 DEF Add, Proper, Listed, Spread, Reflected
  <2>4. t \notin ListedTags(d)
    BY <1>3, <1>6, <2>1 DEF Proper, Listed, ListedTags
  <2>5. t \in Tags
    BY <1>1, OneAssumption, SMT DEF Stamps, Tags, NullTag
  <2>6. OnceAmong(e, Stamps) /\ ListedTags(e) = ListedTags(d) \cup {t}
    BY <2>3, <2>4, <2>5, PushAmong
  <2> QED
    BY <2>1, <2>2, <2>6
<1>8. ASSUME NEW u \in Stamps, u # t
      PROVE  /\ u \in DOMAIN doc'[g].ch <=> u \in DOMAIN doc[g].ch
             /\ Reflects(g, u)'
             /\ Outgoing(g, u)' => Outgoing(g, u)
             /\ u \in Inserts(pending'[g]) => u \in Inserts(pending[g])
  <2>1. /\ u \in DOMAIN doc'[g].ch <=> u \in DOMAIN doc[g].ch
        /\ u \in DOMAIN doc[g].ch => doc'[g].ch[u] = doc[g].ch[u]
        /\ u \in DOMAIN pending'[g] <=> u \in DOMAIN pending[g]
        /\ u \in DOMAIN pending[g] => pending'[g][u] = pending[g][u]
        /\ Unheard(g)' = Unheard(g) /\ Unlogged(g)' = Unlogged(g)
    BY <1>5, <1>8 DEF Becomes
  <2>2. Heard(g)' = Heard(g)
    BY <2>1 DEF Heard
  <2>3. Mentioned(g, u)' <=> Mentioned(g, u)
    BY <2>1, <2>2 DEF Mentioned
  <2>4. \A x : Says(g, u, x)' <=> Says(g, u, x)
    BY <2>1, <2>2 DEF Says
  <2>5. Reflects(g, u)
    BY DEF Spread, Reflected
  <2>6. Reflects(g, u)'
    BY <1>7, <2>1, <2>3, <2>4, <2>5 DEF Reflects
  <2> QED
    BY <2>1, <2>6 DEF Outgoing, Inserts
<1>9. Reflects(g, t)'
  <2>1. Says(g, t, c)'
    BY <1>5 DEF Becomes, Says
  <2>2. ~ Says(g, t, Nul)'
    BY <1>5, <1>6 DEF Becomes, Says, Heard
  <2> QED
    BY <1>5, <1>7, <2>1, <2>2 DEF Reflects, Becomes
<1>10. ASSUME NEW h \in Guests, h # g, NEW u \in Stamps
       PROVE  /\ Reflects(h, u)' /\ doc'[h] = doc[h]
              /\ Outgoing(h, u)' => Outgoing(h, u)
              /\ pending'[h] = pending[h]
  <2>1. doc'[h] = doc[h] /\ pending'[h] = pending[h] /\ Unheard(h)' = Unheard(h) /\ Unlogged(h)' = Unlogged(h)
    BY <1>5, <1>10 DEF Becomes
  <2>2. Reflects(h, u)
    BY DEF Spread, Reflected
  <2>3. Heard(h)' = Heard(h)
    BY <2>1 DEF Heard
  <2>4. Mentioned(h, u)' <=> Mentioned(h, u)
    BY <2>1, <2>3 DEF Mentioned
  <2>5. \A x : Says(h, u, x)' <=> Says(h, u, x)
    BY <2>1, <2>3 DEF Says
  <2>6. Reflects(h, u)'
    BY <2>1, <2>2, <2>4, <2>5 DEF Reflects
  <2> QED
    BY <2>1, <2>6 DEF Outgoing
<1>11. Reflected'
  <2>1. ASSUME NEW h \in Guests PROVE OnceAmong(doc'[h], Stamps) /\ \A u \in Stamps : Reflects(h, u)'
    <3>1. CASE h = g
      BY <1>7, <1>8, <1>9, <3>1
    <3>2. CASE h # g
      BY <1>4, <1>10, <3>2 DEF Spread, Reflected
    <3> QED
      BY <3>1, <3>2
  <2> QED
    BY <2>1 DEF Reflected
<1>12. Stamped'
  <2>1. /\ \A h \in Guests : \A u \in Stamps : u \in DOMAIN doc[h].ch => u \in minted
        /\ \A i \in DOMAIN log : \A u \in Stamps : u \in DOMAIN log[i] => u \in minted
    BY DEF Spread, Stamped
  <2>2. ASSUME NEW h \in Guests, NEW u \in Stamps, u \in DOMAIN doc'[h].ch PROVE u \in minted'
    <3>1. CASE h = g
      BY <1>2, <1>8, <2>1, <2>2, <3>1
    <3>2. CASE h # g
      BY <1>2, <1>4, <2>1, <2>2, <3>2
    <3> QED
      BY <3>1, <3>2
  <2> QED
    BY <1>2, <2>1, <2>2 DEF Stamped
<1>13. Private'
  <2>1. ASSUME NEW k \in Guests, NEW u \in Stamps, Outgoing(k, u)'
        PROVE  /\ \A h \in Guests : h # k => u \notin DOMAIN doc'[h].ch
               /\ \A i \in DOMAIN log : u \notin DOMAIN log[i]
    <3>1. CASE u = t
      <4>1. k = g
        <5> SUFFICES ASSUME k # g PROVE FALSE
          OBVIOUS
        <5>1. Outgoing(k, t) /\ ~ Mentioned(k, t)
          BY <1>1, <1>6, <1>10, <2>1, <3>1 DEF Spread, Reflected, Reflects
        <5> QED
          BY <5>1 DEF Outgoing, Mentioned, Inserts
      <4> QED
        BY <1>4, <1>6, <3>1, <4>1
    <3>2. CASE u # t
      <4>1. Outgoing(k, u)
        BY <1>8, <1>10, <2>1, <3>2
      <4>2. /\ \A h \in Guests : h # k => u \notin DOMAIN doc[h].ch
            /\ \A i \in DOMAIN log : u \notin DOMAIN log[i]
        BY <4>1 DEF Spread, Private
      <4> QED
        BY <1>4, <1>8, <3>2, <4>2
    <3> QED
      BY <3>1, <3>2
  <2>2. ASSUME NEW k \in Guests, NEW u \in Stamps, u \in Inserts(pending'[k])
        PROVE  u \notin DOMAIN sent[k]
    <3>1. CASE k = g /\ u = t
      BY <1>6, <3>1
    <3>2. CASE k = g /\ u # t
      BY <1>8, <2>2, <3>2 DEF Spread, Private
    <3>3. CASE k # g
      BY <1>10, <2>2, <3>3 DEF Spread, Private
    <3> QED
      BY <3>1, <3>2, <3>3
  <2> QED
    BY <2>1, <2>2 DEF Private
<1>14. Foremost'
  BY DEF Spread, Foremost
<1>15. Unseen'
  <2>1. ASSUME NEW h \in Guests, NEW i \in Unheard(h), NEW u \in Stamps, u \in Inserts(log[i])
        PROVE  u \notin DOMAIN doc'[h].ch
    <3>1. u \notin DOMAIN doc[h].ch /\ i \in DOMAIN log /\ u \in DOMAIN log[i]
      BY <2>1 DEF Spread, Unseen, Unheard, Inserts
    <3>2. u # t
      BY <1>6, <3>1
    <3> QED
      BY <1>4, <1>8, <3>1, <3>2
  <2> QED
    BY <1>5, <2>1 DEF Unseen, Becomes
<1> QED
  BY <1>11, <1>12, <1>13, <1>14, <1>15 DEF Spread

(* Backspace hides tags that are listed.                                   *)
LEMMA GoneListed ==
  ASSUME NEW d, Proper(d), NEW from \in Nat, NEW to \in Nat
  PROVE  {DeleteTag(d, p) : p \in {q \in (from + 1)..to : Deletable(d, q)}} \subseteq ListedTags(d)
<1> SUFFICES ASSUME NEW p \in (from + 1)..to, Deletable(d, p)
             PROVE  DeleteTag(d, p) \in ListedTags(d)
  OBVIOUS
<1> DEFINE n == Len(d.tags)
<1>1. n \in Nat /\ n >= 2 /\ DOMAIN d.tags = 1..n
  BY DEF Proper, Listed, Ended
<1>2. p \in Nat /\ p <= n - 2
  <2>1. CountShown(d) \in 0..(n - 2) /\ p <= CountShown(d)
    BY CountShownBound DEF Deletable
  <2> HIDE DEF n
  <2> QED
    BY <1>1, <2>1
<1>3. p + 1 \in DOMAIN d.tags
  BY <1>1, <1>2
<1> QED
  BY <1>3 DEF DeleteTag, ListedTags

(* Deletions are noted.                                                    *)
LEMMA EraseSpread ==
  ASSUME Types, Contents, Spread, NEW g \in Guests, Erase(g)
  PROVE  Spread'
<1>1. UNCHANGED <<log, own, answer, sent, last, minted>>
  BY DEF Erase, server
<1>2. /\ doc = [h \in Guests |-> doc[h]] /\ pending = [h \in Guests |-> pending[h]]
      /\ Proper(doc[g]) /\ text[g] \in Seq(1..typed)
  BY DEF Types, PageTypes, Contents, Writing, Written
<1> DEFINE Gone(from, to) ==
      {DeleteTag(doc[g], p) : p \in {q \in (from + 1)..to : Deletable(doc[g], q)}}
<1>3. PICK from, to \in 0..Len(text[g]) :
        /\ doc' = [doc EXCEPT ![g] = Hide(doc[g], Gone(from, to))]
        /\ pending' = [pending EXCEPT ![g] =
             [t \in DOMAIN pending[g] \cup Gone(from, to) |->
                IF t \in Gone(from, to) THEN Nul ELSE pending[g][t]]]
  BY DEF Erase
<1>4. Gone(from, to) \subseteq ListedTags(doc[g])
  <2>1. PICK d : d = doc[g]
    OBVIOUS
  <2>2. from \in Nat /\ to \in Nat
    OBVIOUS
  <2> QED
    BY <1>2, <2>1, <2>2, GoneListed
<1> HIDE DEF Gone
<1>5. PICK gone : gone = Gone(from, to)
  OBVIOUS
<1>6. /\ doc'[g] = Hide(doc[g], gone)
      /\ pending'[g] = [t \in DOMAIN pending[g] \cup gone |->
                          IF t \in gone THEN Nul ELSE pending[g][t]]
      /\ \A h \in Guests : h # g => doc'[h] = doc[h] /\ pending'[h] = pending[h]
  BY <1>2, <1>3, <1>5
<1>7. /\ doc'[g].tags = doc[g].tags
      /\ doc'[g].ch = [u \in DOMAIN doc[g].ch |-> IF u \in gone THEN Nul ELSE doc[g].ch[u]]
  <2>1. PICK d : d = doc[g]
    OBVIOUS
  <2>2. d = [tags |-> d.tags, ch |-> d.ch, ack |-> d.ack]
    BY <1>2, <2>1 DEF Proper, Mapped
  <2>3. /\ Hide(d, gone).tags = d.tags
        /\ Hide(d, gone).ch = [u \in DOMAIN d.ch |-> IF u \in gone THEN Nul ELSE d.ch[u]]
    <3> DEFINE ch == [u \in DOMAIN d.ch |-> IF u \in gone THEN Nul ELSE d.ch[u]]
               ack == [u \in DOMAIN d.ack |-> d.ack[u] /\ u \notin gone]
    <3>1. Hide(d, gone) = [d EXCEPT !.ch = ch, !.ack = ack]
      BY DEF Hide
    <3> HIDE DEF ch, ack
    <3>2. Hide(d, gone).tags = d.tags /\ Hide(d, gone).ch = ch
      BY <2>2, <3>1
    <3> QED
      BY <3>2 DEF ch
  <2> QED
    BY <1>6, <2>1, <2>3
<1>8. gone \subseteq ListedTags(doc[g]) /\ ListedTags(doc[g]) \subseteq DOMAIN doc[g].ch
  BY <1>2, <1>4, <1>5 DEF Proper, Listed, ListedTags
<1>9. \A h \in Guests : /\ Unheard(h)' = Unheard(h) /\ Unlogged(h)' = Unlogged(h)
                        /\ Heard(h)' = Heard(h)
  BY <1>1 DEF Unheard, Unlogged, Heard
<1>10. \A h \in Guests : DOMAIN doc'[h].ch = DOMAIN doc[h].ch
  BY <1>6, <1>7
<1>11. ASSUME NEW u \in Stamps
       PROVE  /\ Reflects(g, u)'
              /\ Outgoing(g, u)' => Outgoing(g, u)
              /\ u \in Inserts(pending'[g]) => u \in Inserts(pending[g])
  <2>1. Reflects(g, u)
    BY DEF Spread, Reflected
  <2>2. ListedTags(doc'[g]) = ListedTags(doc[g])
    BY <1>7 DEF ListedTags
  <2>3. CASE u \in gone
    <3>1. u \in DOMAIN pending'[g] /\ pending'[g][u] = Nul
      BY <1>6, <2>3
    <3>2. u \in DOMAIN doc'[g].ch /\ doc'[g].ch[u] = Nul
      BY <1>7, <1>8, <2>3
    <3>3. Says(g, u, Nul)'
      BY <3>1 DEF Says
    <3>4. Reflects(g, u)'
      BY <3>2, <3>3 DEF Reflects
    <3> QED
      BY <1>1, <1>9, <3>1, <3>4 DEF Outgoing, Inserts
  <2>4. CASE u \notin gone
    <3>1. /\ u \in DOMAIN pending'[g] <=> u \in DOMAIN pending[g]
          /\ u \in DOMAIN pending[g] => pending'[g][u] = pending[g][u]
          /\ u \in DOMAIN doc[g].ch => doc'[g].ch[u] = doc[g].ch[u]
      BY <1>6, <1>7, <2>4
    <3>2. Mentioned(g, u)' <=> Mentioned(g, u)
      BY <1>1, <1>9, <3>1 DEF Mentioned
    <3>3. \A x : Says(g, u, x)' <=> Says(g, u, x)
      BY <1>1, <1>9, <3>1 DEF Says
    <3>4. Reflects(g, u)'
      BY <1>10, <2>1, <2>2, <3>1, <3>2, <3>3 DEF Reflects
    <3> QED
      BY <1>1, <1>9, <3>1, <3>4 DEF Outgoing, Inserts
  <2> QED
    BY <2>3, <2>4
<1>12. ASSUME NEW h \in Guests, h # g, NEW u \in Stamps
       PROVE  /\ Reflects(h, u)'
              /\ Outgoing(h, u)' => Outgoing(h, u)
  <2>1. doc'[h] = doc[h] /\ pending'[h] = pending[h] /\ Heard(h)' = Heard(h) /\ Unlogged(h)' = Unlogged(h)
    BY <1>6, <1>9, <1>12
  <2>2. Reflects(h, u)
    BY DEF Spread, Reflected
  <2>3. Mentioned(h, u)' <=> Mentioned(h, u)
    BY <1>1, <2>1 DEF Mentioned
  <2>4. \A x : Says(h, u, x)' <=> Says(h, u, x)
    BY <1>1, <2>1 DEF Says
  <2> QED
    BY <1>1, <2>1, <2>2, <2>3, <2>4 DEF Reflects, Outgoing
<1>13. Reflected'
  <2>1. ASSUME NEW h \in Guests PROVE OnceAmong(doc'[h], Stamps)
    <3>1. doc'[h].tags = doc[h].tags
      BY <1>6, <1>7
    <3>2. OnceAmong(doc[h], Stamps)
      BY DEF Spread, Reflected
    <3> QED
      BY <3>1, <3>2 DEF OnceAmong
  <2>2. ASSUME NEW h \in Guests, NEW u \in Stamps PROVE Reflects(h, u)'
    BY <1>11, <1>12
  <2> QED
    BY <2>1, <2>2 DEF Reflected
<1>14. \A h \in Guests : \A u \in Stamps : Outgoing(h, u)' => Outgoing(h, u)
  BY <1>11, <1>12
<1>15. Stamped' /\ Foremost' /\ Unseen'
  BY <1>1, <1>9, <1>10 DEF Spread, Stamped, Foremost, Unseen
<1>16. Private'
  <2>1. \A k \in Guests : \A u \in Stamps : Outgoing(k, u)' =>
          /\ \A h \in Guests : h # k => u \notin DOMAIN doc'[h].ch
          /\ \A i \in DOMAIN log : u \notin DOMAIN log[i]
    BY <1>10, <1>14 DEF Spread, Private
  <2>2. \A k \in Guests : \A u \in Stamps : u \in Inserts(pending'[k]) => u \notin DOMAIN sent[k]
    BY <1>6, <1>11 DEF Spread, Private
  <2> QED
    BY <1>1, <2>1, <2>2 DEF Private
<1> QED
  BY <1>13, <1>15, <1>16 DEF Spread

(* A request takes over what is pending.                                   *)
LEMMA SendSpread ==
  ASSUME Types, Spread, NEW g \in Guests, Send(g)
  PROVE  Spread'
<1>1. /\ UNCHANGED <<log, own, answer, doc, last, minted>> /\ sent[g] = NoChange
      /\ sent' = [sent EXCEPT ![g] = pending[g]]
      /\ pending' = [pending EXCEPT ![g] = NoChange]
  BY DEF Send, server, history
<1>2. sent = [h \in Guests |-> sent[h]] /\ pending = [h \in Guests |-> pending[h]]
  BY DEF Types, PageTypes
<1>3. /\ sent'[g] = pending[g] /\ pending'[g] = NoChange
      /\ \A h \in Guests : h # g => sent'[h] = sent[h] /\ pending'[h] = pending[h]
  BY <1>1, <1>2
<1>4. \A h \in Guests : Unheard(h)' = Unheard(h) /\ Unlogged(h)' = Unlogged(h) /\ Heard(h)' = Heard(h)
  BY <1>1 DEF Unheard, Unlogged, Heard
<1>5. DOMAIN NoChange = {} /\ Inserts(NoChange) = {}
  BY NoInserts DEF NoChange
<1>6. ASSUME NEW h \in Guests, NEW u \in Stamps
      PROVE  /\ Mentioned(h, u)' <=> Mentioned(h, u)
             /\ \A x : Says(h, u, x)' <=> Says(h, u, x)
             /\ Outgoing(h, u)' => Outgoing(h, u)
  <2>1. CASE h = g
    <3>1. Mentioned(h, u)' <=> Mentioned(h, u)
      BY <1>1, <1>3, <1>4, <1>5, <2>1 DEF Mentioned
    <3>2. \A x : Says(h, u, x)' <=> Says(h, u, x)
      BY <1>1, <1>3, <1>4, <1>5, <2>1 DEF Says
    <3>3. Outgoing(h, u)' => Outgoing(h, u)
      BY <1>1, <1>3, <1>4, <1>5, <2>1 DEF Outgoing
    <3> QED
      BY <3>1, <3>2, <3>3
  <2>2. CASE h # g
    BY <1>1, <1>3, <1>4, <2>2 DEF Mentioned, Says, Outgoing
  <2> QED
    BY <2>1, <2>2
<1>7. Reflected'
  BY <1>1, <1>6 DEF Spread, Reflected, Reflects
<1>8. Stamped' /\ Foremost' /\ Unseen'
  BY <1>1, <1>4 DEF Spread, Stamped, Foremost, Unseen
<1>9. Private'
  <2>1. \A k \in Guests : \A u \in Stamps : Outgoing(k, u)' =>
          /\ \A h \in Guests : h # k => u \notin DOMAIN doc[h].ch
          /\ \A i \in DOMAIN log : u \notin DOMAIN log[i]
    BY <1>6 DEF Spread, Private
  <2>2. \A k \in Guests : \A u \in Stamps : u \in Inserts(pending'[k]) => u \notin DOMAIN sent'[k]
    BY <1>3, <1>5 DEF Spread, Private
  <2> QED
    BY <1>1, <2>1, <2>2 DEF Private
<1> QED
  BY <1>7, <1>8, <1>9 DEF Spread

(* The log takes it over from the request.                                 *)
LEMMA LoggedSpread ==
  ASSUME Types, Contents, Spread, NEW g \in Guests, Logged(g)
  PROVE  Spread'
<1>1. /\ UNCHANGED <<doc, pending, sent, last, minted>>
      /\ g \in DOMAIN own /\ DOMAIN own' = DOMAIN own
      /\ answer[<<g, "send">>] = Server!NoAnswer
      /\ \A d \in Calls : d # <<g, "send">> => answer'[d] = answer[d]
  BY LoggedStep DEF history
<1>2. PICK i \in Nat :
        /\ i \notin DOMAIN log /\ \A j \in DOMAIN log : j <= i
        /\ DOMAIN log' = DOMAIN log \cup {i} /\ log'[i] = sent[g]
        /\ \A j \in DOMAIN log : log'[j] = log[j]
        /\ \A h \in DOMAIN own : own'[h] = IF h = g THEN own[h] \cup {i} ELSE own[h]
  BY LoggedStep
<1>3. Unlogged(g) /\ ~ Unlogged(g)' /\ \A h \in Guests : h # g => Unlogged(h)' = Unlogged(h)
  <2>1. answer'[<<g, "send">>] # Server!NoAnswer
    <3>1. <<g, "send">> \in Calls /\ \E x : /\ Server!Give(<<g, "send">>, x)
                                            /\ x = Server!Logged(g, sent[g], Server!Cardinality(DOMAIN log) + 1)
      BY DEF Logged, Server!Publish, Calls
    <3>2. answer'[<<g, "send">>] = Server!Logged(g, sent[g], Server!Cardinality(DOMAIN log) + 1)
      BY <3>1, Gives DEF Types
    <3> QED
      BY <3>2 DEF Server!Logged, Server!NoAnswer
  <2>2. \A h \in Guests : h # g => <<h, "send">> \in Calls /\ <<h, "send">> # <<g, "send">>
    BY DEF Calls
  <2> QED
    BY <1>1, <2>1, <2>2 DEF Unlogged
<1>4. /\ Unheard(g)' = Unheard(g) /\ Heard(g)' = Heard(g) \cup {i}
      /\ \A h \in Guests : h # g =>
           /\ Unheard(h)' = Unheard(h) \cup {i}
           /\ Heard(h)' = Heard(h)
  <2>1. /\ DOMAIN log \subseteq Nat
        /\ \A h \in DOMAIN own : own[h] \subseteq DOMAIN log
    BY DEF Types, LogTypes
  <2>2. \A h \in Guests : last[h] \in {-1} \cup DOMAIN log
    BY DEF Contents, Counters
  <2>3. \A h \in Guests : i > last[h]
    <3>1. \A j \in DOMAIN log : i > j
      <4> SUFFICES ASSUME NEW j \in DOMAIN log PROVE i > j
        OBVIOUS
      <4>1. j \in Nat /\ j <= i /\ j # i
        BY <1>2, <2>1
      <4> QED
        BY <4>1
    <3>2. i > -1
      OBVIOUS
    <3> QED
      BY <2>2, <3>1, <3>2
  <2>4. Unheard(g)' = Unheard(g)
    BY <1>1, <1>2 DEF Unheard
  <2>5. ASSUME NEW h \in Guests, h # g PROVE Unheard(h)' = Unheard(h) \cup {i}
    BY <1>1, <1>2, <2>1, <2>3, <2>5 DEF Unheard
  <2>6. Unheard(g) \subseteq DOMAIN log /\ \A h \in Guests : Unheard(h) \subseteq DOMAIN log
    BY DEF Unheard
  <2> QED
    BY <1>2, <2>4, <2>5, <2>6 DEF Heard
<1>5. ASSUME NEW h \in Guests, NEW u \in Stamps
      PROVE  /\ Mentioned(h, u)' <=> Mentioned(h, u)
             /\ \A x : Says(h, u, x)' <=> Says(h, u, x)
  <2>1. Heard(h) \subseteq DOMAIN log
    BY DEF Heard
  <2>2. /\ UNCHANGED <<pending, sent>>
        /\ \A j \in Heard(h) : j \in Heard(h)' /\ log'[j] = log[j]
        /\ \A j \in Heard(h)' : \/ j \in Heard(h) /\ log'[j] = log[j]
                                \/ h = g /\ log'[j] = sent[h]
    BY <1>1, <1>2, <1>4, <2>1
  <2> QED
    BY <2>2 DEF Mentioned, Says
<1>6. Reflected'
  BY <1>1, <1>5 DEF Spread, Reflected, Reflects
<1>7. ASSUME NEW h \in Guests, NEW u \in Stamps, u \notin DOMAIN doc[h].ch
      PROVE  u \notin DOMAIN sent[h]
  <2>1. ~ Mentioned(h, u)
    BY <1>7 DEF Spread, Reflected, Reflects
  <2> QED
    BY <2>1 DEF Mentioned
<1>8. Stamped'
  <2>1. /\ \A h \in Guests : \A u \in Stamps : u \in DOMAIN doc[h].ch => u \in minted
        /\ \A j \in DOMAIN log : \A u \in Stamps : u \in DOMAIN log[j] => u \in minted
    BY DEF Spread, Stamped
  <2>2. \A u \in Stamps : u \in DOMAIN sent[g] => u \in minted
    BY <1>7, <2>1
  <2> QED
    BY <1>1, <1>2, <2>1, <2>2 DEF Stamped
<1>9. \A u \in Stamps : u \in Inserts(sent[g]) => Outgoing(g, u)
  BY <1>3 DEF Outgoing
<1>10. ASSUME NEW k \in Guests, NEW u \in Stamps, Outgoing(k, u)'
       PROVE  Outgoing(k, u) /\ u \notin DOMAIN sent[g]
  <2>1. CASE k = g
    <3>1. u \in Inserts(pending[g])
      BY <1>1, <1>3, <1>10, <2>1 DEF Outgoing
    <3> QED
      BY <2>1, <3>1 DEF Outgoing, Spread, Private
  <2>2. CASE k # g
    <3>1. Outgoing(k, u)
      BY <1>1, <1>3, <1>10, <2>2 DEF Outgoing
    <3>2. u \notin DOMAIN doc[g].ch
      BY <2>2, <3>1 DEF Spread, Private
    <3> QED
      BY <1>7, <3>1, <3>2
  <2> QED
    BY <2>1, <2>2
<1>11. Private'
  <2>1. ASSUME NEW k \in Guests, NEW u \in Stamps, Outgoing(k, u)'
        PROVE  /\ \A h \in Guests : h # k => u \notin DOMAIN doc[h].ch
               /\ \A j \in DOMAIN log' : u \notin DOMAIN log'[j]
    <3>1. /\ \A h \in Guests : h # k => u \notin DOMAIN doc[h].ch
          /\ \A j \in DOMAIN log : u \notin DOMAIN log[j]
          /\ u \notin DOMAIN sent[g]
      BY <1>10, <2>1 DEF Spread, Private
    <3> QED
      BY <1>2, <3>1
  <2>2. \A k \in Guests : \A u \in Stamps : u \in Inserts(pending[k]) => u \notin DOMAIN sent[k]
    BY DEF Spread, Private
  <2> QED
    BY <1>1, <2>1, <2>2 DEF Private
<1>12. Foremost'
  <2>1. ASSUME NEW x \in DOMAIN log', NEW y \in DOMAIN log', NEW u \in Stamps,
               u \in Inserts(log'[x]), u \in DOMAIN log'[y]
        PROVE  x <= y
    <3>1. CASE y = i
      <4>1. x \in DOMAIN log \/ x = i
        BY <1>2
      <4>2. i <= i
        OBVIOUS
      <4> QED
        BY <1>2, <3>1, <4>1, <4>2
    <3>2. CASE y # i /\ x = i
      <4>1. Outgoing(g, u) /\ y \in DOMAIN log /\ u \in DOMAIN log[y]
        BY <1>2, <1>9, <2>1, <3>2
      <4> QED
        BY <4>1 DEF Spread, Private
    <3>3. CASE y # i /\ x # i
      <4>1. x \in DOMAIN log /\ y \in DOMAIN log /\ u \in Inserts(log[x]) /\ u \in DOMAIN log[y]
        BY <1>2, <2>1, <3>3
      <4> QED
        BY <4>1 DEF Spread, Foremost
    <3> QED
      BY <3>1, <3>2, <3>3
  <2> QED
    BY <2>1 DEF Foremost
<1>13. Unseen'
  <2>1. ASSUME NEW h \in Guests, NEW x \in Unheard(h)', NEW u \in Stamps, u \in Inserts(log'[x])
        PROVE  u \notin DOMAIN doc[h].ch
    <3>1. CASE x \in Unheard(h)
      <4>1. x \in DOMAIN log
        BY <3>1 DEF Unheard
      <4>2. u \in Inserts(log[x])
        BY <1>2, <2>1, <4>1
      <4> QED
        BY <3>1, <4>2 DEF Spread, Unseen
    <3>2. CASE x \notin Unheard(h)
      <4>1. h # g /\ x = i
        BY <1>4, <2>1, <3>2
      <4>2. Outgoing(g, u)
        BY <1>2, <1>9, <2>1, <4>1
      <4> QED
        BY <4>1, <4>2 DEF Spread, Private
    <3> QED
      BY <3>1, <3>2
  <2> QED
    BY <1>1, <2>1 DEF Unseen
<1> QED
  BY <1>6, <1>8, <1>11, <1>12, <1>13 DEF Spread

(* A heartbeat fetches all that its page has not heard.                    *)
LEMMA HeartbeatComplete ==
  ASSUME Types, Places, NEW g \in Guests, Heartbeat(g)
  PROVE  \A i \in Unheard(g)' : \E x \in answer'[<<g, "heartbeat">>].transactions : x[1] = i
<1>1. /\ answer'[<<g, "heartbeat">>].transactions =
           {<<i, log[i]>> : i \in {j \in DOMAIN log : j > last[g]} \ own[g]}
      /\ UNCHANGED <<log, own, last>> /\ g \in DOMAIN own
  <2>1. g \in DOMAIN own
    BY DEF Heartbeat, Server!Poll, Types, LogTypes
  <2> QED
    BY <2>1, HeartbeatPlacing, OtherStep DEF Heartbeat
<1> SUFFICES ASSUME NEW i \in Unheard(g)'
             PROVE  \E x \in answer'[<<g, "heartbeat">>].transactions : x[1] = i
  OBVIOUS
<1>2. i \in {j \in DOMAIN log : j > last[g]} \ own[g]
  BY <1>1 DEF Unheard
<1>3. <<i, log[i]>> \in answer'[<<g, "heartbeat">>].transactions /\ <<i, log[i]>>[1] = i
  BY <1>1, <1>2
<1> QED
  BY <1>3

(* What is logged meanwhile comes after all that it brings.                *)
LEMMA StepComplete ==
  ASSUME Types, Finite, Joining, Places, Contents, Fetched, Complete, [Next]_vars
  PROVE  Complete'
<1>1. CASE UNCHANGED vars
  BY <1>1 DEF vars, server, Complete, Unheard
<1>2. CASE Next
  <2>1. PICK g \in Guests :
          \/ PasteText(g) \/ Load(g) \/ Joined(g)
          \/ Type(g) \/ Paste(g) \/ Erase(g) \/ DeleteKey(g)
          \/ Heartbeat(g) \/ News(g)
          \/ Login(g) \/ Send(g) \/ Logged(g) \/ Acknowledged(g)
    BY <1>2 DEF Next
  <2> SUFFICES ASSUME NEW h \in Guests, answer'[<<h, "heartbeat">>] # Server!NoAnswer,
                      NEW tr \in answer'[<<h, "heartbeat">>].transactions,
                      NEW i \in Unheard(h)', i <= tr[1]
               PROVE  \E x \in answer'[<<h, "heartbeat">>].transactions : x[1] = i
    BY DEF Complete
  <2>2. <<h, "heartbeat">> \in Calls
    BY DEF Calls
  <2>3. ASSUME answer'[<<h, "heartbeat">>] = answer[<<h, "heartbeat">>], i \in Unheard(h)
        PROVE  \E x \in answer'[<<h, "heartbeat">>].transactions : x[1] = i
    BY <2>3 DEF Complete
  <2>4. CASE Login(g)
    <3>1. /\ UNCHANGED <<log, last>> /\ g \notin DOMAIN own
          /\ DOMAIN own' = DOMAIN own \cup {g}
          /\ \A n \in DOMAIN own : own'[n] = own[n]
          /\ \A d \in Calls : d # <<g, "login">> => answer'[d] = answer[d]
      BY <2>4, LoginStep
    <3>2. answer'[<<h, "heartbeat">>] = answer[<<h, "heartbeat">>]
      BY <2>2, <3>1
    <3>3. i \in Unheard(h)
      BY <3>1 DEF Unheard
    <3> QED
      BY <2>3, <3>2, <3>3
  <2>5. CASE Logged(g)
    <3>1. /\ UNCHANGED last /\ DOMAIN own' = DOMAIN own
          /\ \A d \in Calls : d # <<g, "send">> => answer'[d] = answer[d]
      BY <2>5, LoggedStep
    <3>2. PICK n \in Nat :
            /\ n \notin DOMAIN log /\ \A j \in DOMAIN log : j <= n
            /\ DOMAIN log' = DOMAIN log \cup {n}
            /\ \A k \in DOMAIN own : own'[k] = IF k = g THEN own[k] \cup {n} ELSE own[k]
      BY <2>5, LoggedStep
    <3>3. answer'[<<h, "heartbeat">>] = answer[<<h, "heartbeat">>]
      BY <2>2, <3>1
    <3>4. tr[1] \in DOMAIN log /\ DOMAIN log \subseteq Nat
      BY <3>3 DEF Fetched, Unheard, Types, LogTypes
    <3>5. i # n
      <4>1. tr[1] \in Nat /\ tr[1] <= n /\ tr[1] # n
        BY <3>2, <3>4
      <4> QED
        BY <4>1
    <3>6. i \in Unheard(h)
      BY <3>1, <3>2, <3>5 DEF Unheard
    <3> QED
      BY <2>3, <3>3, <3>6
  <2>6. CASE Heartbeat(g)
    <3>1. CASE h = g
      BY <2>6, <3>1, HeartbeatComplete
    <3>2. CASE h # g
      <4>1. /\ UNCHANGED <<log, own, last>>
            /\ answer'[<<h, "heartbeat">>] = answer[<<h, "heartbeat">>]
        BY <2>2, <2>6, <3>2, OtherStep DEF Heartbeat
      <4>2. i \in Unheard(h)
        BY <4>1 DEF Unheard
      <4> QED
        BY <2>3, <4>1, <4>2
    <3> QED
      BY <3>1, <3>2
  <2>7. CASE News(g)
    <3>1. /\ Server!Collect(<<g, "heartbeat">>) /\ <<g, "heartbeat">> \in Calls
      BY <2>7 DEF News, Calls
    <3>2. h # g /\ answer'[<<h, "heartbeat">>] = answer[<<h, "heartbeat">>]
      BY <2>2, <3>1, Collects DEF Types
    <3>3. UNCHANGED <<log, own>> /\ last'[h] = last[h]
      BY <2>7, <3>2, OtherStep, NewsLast DEF Contents, Counters
    <3>4. i \in Unheard(h)
      BY <3>3 DEF Unheard
    <3> QED
      BY <2>3, <3>2, <3>4
  <2>8. CASE \/ PasteText(g) \/ Load(g) \/ Joined(g)
             \/ Type(g) \/ Paste(g) \/ Erase(g) \/ DeleteKey(g)
             \/ Send(g) \/ Acknowledged(g)
    <3>1. UNCHANGED last
      BY <2>8 DEF PasteText, Load, Joined, Type, Paste, Erase, DeleteKey, Send, Acknowledged
    <3>2. UNCHANGED <<log, own>>
      BY <2>8, OtherStep
    <3>3. answer'[<<h, "heartbeat">>] = answer[<<h, "heartbeat">>] \/ Heartbeat(g)
      BY <2>2, <2>8, OtherStep
    <3>4. CASE Heartbeat(g)
      BY <2>6, <3>4
    <3>5. i \in Unheard(h)
      BY <3>1, <3>2 DEF Unheard
    <3> QED
      BY <2>3, <3>3, <3>4, <3>5
  <2> QED
    BY <2>1, <2>4, <2>5, <2>6, <2>7, <2>8
<1> QED
  BY <1>1, <1>2

(* The changes of the batches with these ids, in their order.              *)
Relays(changes, ids) ==
  /\ \A k \in 1..Len(changes) :
       /\ changes[k].id \in ids /\ changes[k].tag \in DOMAIN log[changes[k].id]
       /\ changes[k].ch = log[changes[k].id][changes[k].tag]
  /\ \A i \in ids : \A t \in DOMAIN log[i] :
       \E k \in 1..Len(changes) : changes[k].id = i /\ changes[k].tag = t
  /\ \A i, j \in 1..Len(changes) : i < j => changes[i].id <= changes[j].id

(* An answer hands on the changes of whole batches.                        *)
LEMMA AnswerRelays ==
  ASSUME NEW transactions, IsFiniteSet(transactions),
         \A tr \in transactions : IsFiniteSet(DOMAIN tr[2]) /\ tr[2] = log[tr[1]],
         NEW changes \in Deliveries(transactions),
         NEW ids, ids = {tr[1] : tr \in transactions}
  PROVE  /\ Relays(changes, ids) /\ changes \in Seq(Changes(transactions))
         /\ \A i, j \in 1..Len(changes) : changes[i] = changes[j] => i = j
         /\ \A k \in 1..Len(changes) :
              changes[k] = [id |-> changes[k].id, tag |-> changes[k].tag, ch |-> changes[k].ch]
<1>1. /\ changes \in Seq(Changes(transactions))
      /\ \A i, j \in 1..Len(changes) : changes[i] = changes[j] => i = j
  BY DeliveriesAre
<1>2. /\ \A x \in Changes(transactions) : \E k \in 1..Len(changes) : changes[k] = x
      /\ \A i, j \in 1..Len(changes) : i < j => changes[i].id <= changes[j].id
  BY DeliveriesAll
<1>3. ASSUME NEW k \in 1..Len(changes)
      PROVE  /\ changes[k].id \in ids /\ changes[k].tag \in DOMAIN log[changes[k].id]
             /\ changes[k].ch = log[changes[k].id][changes[k].tag]
             /\ changes[k] = [id |-> changes[k].id, tag |-> changes[k].tag, ch |-> changes[k].ch]
  <2>1. PICK x \in Changes(transactions) : x = changes[k]
    BY <1>1
  <2>2. PICK tr \in transactions :
          \E t \in DOMAIN tr[2] : x = [id |-> tr[1], tag |-> t, ch |-> tr[2][t]]
    BY DEF Changes
  <2>3. PICK t \in DOMAIN tr[2] : x = [id |-> tr[1], tag |-> t, ch |-> tr[2][t]]
    BY <2>2
  <2>4. x.id = tr[1] /\ x.tag = t /\ x.ch = tr[2][t] /\ tr[2] = log[tr[1]] /\ tr[1] \in ids
    BY <2>3
  <2>5. x = [id |-> x.id, tag |-> x.tag, ch |-> x.ch]
    BY <2>3, <2>4
  <2> QED
    BY <2>1, <2>4, <2>5
<1>4. ASSUME NEW i \in ids, NEW t \in DOMAIN log[i]
      PROVE  \E k \in 1..Len(changes) : changes[k].id = i /\ changes[k].tag = t
  <2>1. PICK tr \in transactions : tr[1] = i /\ tr[2] = log[i]
    OBVIOUS
  <2>2. PICK x : x = [id |-> tr[1], tag |-> t, ch |-> tr[2][t]]
    OBVIOUS
  <2>3. t \in DOMAIN tr[2]
    BY <2>1
  <2>4. x \in Changes(transactions) /\ x.id = i /\ x.tag = t
    BY <2>1, <2>2, <2>3 DEF Changes
  <2> QED
    BY <1>2, <2>4
<1> QED
  BY <1>1, <1>2, <1>3, <1>4 DEF Relays

(* They are new to the page, and are attached.                             *)
LEMMA NewsBrings ==
  ASSUME Types, Finite, Contents, Spread, Fetched, NEW g \in Guests, News(g),
         NEW ids, ids = {tr[1] : tr \in answer[<<g, "heartbeat">>].transactions}
  PROVE  /\ \A h \in Guests : h # g => doc'[h] = doc[h]
         /\ ids \subseteq Unheard(g)
         /\ \E changes : /\ Len(changes) \in Nat /\ Relays(changes, ids)
                         /\ Brought(doc[g], doc'[g], changes, Len(changes))
<1> DEFINE a == answer[<<g, "heartbeat">>]
<1>1. PICK p : p = [doc |-> doc[g], text |-> text[g]]
  OBVIOUS
<1>2. PICK changes \in Deliveries(a.transactions), clamps \in BOOLEAN :
        doc' = [doc EXCEPT ![g] = AttachAll(p, changes, clamps).doc]
  BY <1>1 DEF News
<1>3. /\ IsFiniteSet(a.transactions) /\ \A tr \in a.transactions : IsFiniteSet(DOMAIN tr[2])
      /\ \A tr \in a.transactions : /\ tr[1] \in DOMAIN log /\ Sane(tr[2], typed)
                                    /\ tr[1] \in Unheard(g) /\ tr[2] = log[tr[1]]
  BY DEF News, Server!Collect, Finite, Contents, Notices, Fetched
<1>4. typed \in Nat /\ DOMAIN log \subseteq Nat
  <2>1. typed \in 0..MaxTyped
    BY DEF Contents, Counters
  <2> QED
    BY <2>1, BoundsAre DEF Types, LogTypes
<1>5. PICK transactions : transactions = a.transactions
  OBVIOUS
<1>6. /\ Relays(changes, ids) /\ changes \in Seq(Changes(transactions))
      /\ \A i, j \in 1..Len(changes) : changes[i] = changes[j] => i = j
      /\ \A k \in 1..Len(changes) :
           changes[k] = [id |-> changes[k].id, tag |-> changes[k].tag, ch |-> changes[k].ch]
  <2>1. /\ IsFiniteSet(transactions) /\ ids = {tr[1] : tr \in transactions}
        /\ \A tr \in transactions : IsFiniteSet(DOMAIN tr[2]) /\ tr[2] = log[tr[1]]
        /\ changes \in Deliveries(transactions)
    BY <1>2, <1>3, <1>5
  <2> HIDE DEF a
  <2> QED
    BY <2>1, AnswerRelays
<1>7. ids \subseteq Unheard(g) /\ \A i \in ids : i \in Nat /\ i \in DOMAIN log /\ Sane(log[i], typed)
  BY <1>3, <1>4
<1> HIDE DEF a
<1>8. ASSUME NEW k \in 1..Len(changes)
      PROVE  /\ changes[k].tag \in 1..NullTag /\ changes[k].ch \in (1..typed) \cup {Nul}
             /\ changes[k].tag = One => changes[k].ch = Nul
             /\ changes[k].ch # Nul => changes[k].tag \in Inserts(log[changes[k].id])
             /\ changes[k].id \in Unheard(g) /\ changes[k].id \in ids
             /\ changes[k].tag \in DOMAIN log[changes[k].id]
             /\ changes[k].ch = log[changes[k].id][changes[k].tag]
  <2>1. PICK i : i = changes[k].id
    OBVIOUS
  <2>2. PICK t : t = changes[k].tag
    OBVIOUS
  <2>3. i \in ids /\ t \in DOMAIN log[i] /\ changes[k].ch = log[i][t]
    BY <1>6, <2>1, <2>2 DEF Relays
  <2>4. t \in 1..NullTag /\ log[i][t] \in 0..typed /\ (t = One => log[i][t] = Nul)
    BY <1>7, <2>3 DEF Sane
  <2>5. log[i][t] \in (1..typed) \cup {Nul}
    BY <1>4, <2>4 DEF Nul
  <2> QED
    BY <1>7, <2>1, <2>2, <2>3, <2>4, <2>5 DEF Inserts
<1>9. Proper(p.doc) /\ OnceAmong(p.doc, Stamps) /\ p.text \in Seq(1..typed) /\ p.doc = doc[g]
  BY <1>1 DEF Contents, Writing, Written, Spread, Reflected
<1>10. Fresh(p, changes, 1..typed)
  <2>1. ASSUME NEW k \in 1..Len(changes), changes[k].ch # Nul, changes[k].tag \in Stamps
        PROVE  changes[k].tag \notin ListedTags(p.doc)
    <3>1. changes[k].tag \notin DOMAIN doc[g].ch
      BY <1>8, <2>1 DEF Spread, Unseen
    <3>2. ListedTags(p.doc) \subseteq DOMAIN p.doc.ch
      BY <1>9 DEF Proper, Listed, ListedTags
    <3> QED
      BY <1>9, <3>1, <3>2
  <2>2. ASSUME NEW i \in 1..Len(changes), NEW j \in 1..Len(changes),
               changes[i].ch # Nul, changes[j].ch # Nul,
               changes[i].tag = changes[j].tag, changes[i].tag \in Stamps
        PROVE  i = j
    <3>1. PICK x, y : x = changes[i].id /\ y = changes[j].id
      OBVIOUS
    <3>2. PICK t : t = changes[i].tag
      OBVIOUS
    <3>3. /\ t \in Inserts(log[x]) /\ t \in Inserts(log[y]) /\ t \in Stamps
          /\ x \in DOMAIN log /\ y \in DOMAIN log /\ x \in Nat /\ y \in Nat
          /\ t \in DOMAIN log[x] /\ t \in DOMAIN log[y]
      BY <1>7, <1>8, <2>2, <3>1, <3>2
    <3>4. x <= y /\ y <= x
      BY <3>3 DEF Spread, Foremost
    <3>5. x = y
      BY <3>3, <3>4
    <3>6. changes[i].ch = log[x][t] /\ changes[j].ch = log[x][t]
      BY <1>8, <2>2, <3>1, <3>2, <3>5
    <3>7. changes[i] = changes[j]
      BY <1>6, <2>2, <3>1, <3>5, <3>6
    <3> QED
      BY <1>6, <3>7
  <2> QED
    BY <1>8, <2>1, <2>2 DEF Fresh
<1>11. doc'[g] = AttachAll(p, changes, clamps).doc /\ \A h \in Guests : h # g => doc'[h] = doc[h]
  BY <1>2 DEF Types, PageTypes
<1>12. Brought(p.doc, AttachAll(p, changes, clamps).doc, changes, Len(changes)) /\ Len(changes) \in Nat
  <2>1. (1..typed) \in SUBSET Nat
    BY <1>4
  <2>2. PICK S \in SUBSET Nat : S = 1..typed
    BY <2>1
  <2>3. p.text \in Seq(S) /\ Fresh(p, changes, S)
    BY <1>9, <1>10, <2>2
  <2>4. Brought(p.doc, AttachAll(p, changes, clamps).doc, changes, Len(changes))
    BY <1>6, <1>9, <2>3, AttachAllBrings
  <2> QED
    BY <1>6, <2>4
<1> QED
  BY <1>6, <1>7, <1>9, <1>11, <1>12

(* What it brings is then heard, and is all that came before.              *)
LEMMA NewsHeard ==
  ASSUME Types, Contents, Fetched, Complete, NEW g \in Guests, News(g),
         NEW ids, ids = {tr[1] : tr \in answer[<<g, "heartbeat">>].transactions}
  PROVE  /\ \A i \in Unheard(g) : i \notin ids => \A j \in ids : ~ (i <= j)
         /\ Unheard(g)' = Unheard(g) \ ids
         /\ \A h \in Guests : h # g => Unheard(h)' = Unheard(h)
         /\ \A h \in Guests : Unlogged(h)' = Unlogged(h)
         /\ UNCHANGED <<log, own, pending, sent, minted>>
<1>1. /\ UNCHANGED <<log, own, pending, sent, minted>>
      /\ answer[<<g, "heartbeat">>] # Server!NoAnswer
      /\ <<g, "heartbeat">> \in Calls /\ Server!Collect(<<g, "heartbeat">>)
  BY DEF News, Server!Collect, history, Calls
<1>2. /\ \A h \in Guests : last[h] \in {-1} \cup DOMAIN log /\ last'[h] \in {-1} \cup DOMAIN log
      /\ \A h \in Guests : h # g => last'[h] = last[h]
      /\ last[g] <= last'[g] /\ \A i \in ids : i <= last'[g]
      /\ last'[g] \in {last[g]} \cup ids
  BY NewsLast DEF Contents, Counters
<1>3. DOMAIN log \subseteq Nat
  BY DEF Types, LogTypes
<1>4. \A i \in Unheard(g) : i \notin ids => \A j \in ids : ~ (i <= j)
  <2> SUFFICES ASSUME NEW i \in Unheard(g), NEW j \in ids, i <= j PROVE i \in ids
    OBVIOUS
  <2>1. PICK tr \in answer[<<g, "heartbeat">>].transactions : tr[1] = j
    OBVIOUS
  <2>2. PICK x \in answer[<<g, "heartbeat">>].transactions : x[1] = i
    BY <1>1, <2>1 DEF Complete
  <2> QED
    BY <2>2
<1>5. ASSUME NEW i \in Unheard(g)' PROVE i \in Unheard(g) /\ i \notin ids
  <2>1. i \in DOMAIN log /\ i > last'[g] /\ ~ (g \in DOMAIN own /\ i \in own[g])
    BY <1>1, <1>5 DEF Unheard
  <2>2. i \in Nat /\ i > last[g]
    BY <1>2, <1>3, <2>1
  <2>3. i \notin ids
    BY <1>2, <1>3, <2>1
  <2> QED
    BY <2>1, <2>2, <2>3 DEF Unheard
<1>6. ASSUME NEW i \in Unheard(g), i \notin ids PROVE i \in Unheard(g)'
  <2>1. i \in DOMAIN log /\ i > last[g] /\ ~ (g \in DOMAIN own /\ i \in own[g])
    BY <1>6 DEF Unheard
  <2>2. i > last'[g]
    <3>1. CASE last'[g] = last[g]
      BY <2>1, <3>1
    <3>2. CASE last'[g] \in ids
      <4>1. ~ (i <= last'[g])
        BY <1>4, <1>6, <3>2
      <4>2. i \in Int /\ last'[g] \in Int
        BY <1>2, <1>3, <2>1
      <4> QED
        BY <4>1, <4>2
    <3> QED
      BY <1>2, <3>1, <3>2
  <2> QED
    BY <1>1, <2>1, <2>2 DEF Unheard
<1>7. \A h \in Guests : h # g => Unheard(h)' = Unheard(h)
  BY <1>1, <1>2 DEF Unheard
<1>8. \A h \in Guests : Unlogged(h)' = Unlogged(h)
  <2>1. \A h \in Guests : <<h, "send">> \in Calls /\ <<h, "send">> # <<g, "heartbeat">>
    BY DEF Calls
  <2> QED
    BY <1>1, <2>1, Collects DEF Types, Unlogged
<1> QED
  BY <1>1, <1>4, <1>5, <1>6, <1>7, <1>8

(* Of every tag the page has what it was told of it.                       *)
LEMMA BroughtReflects ==
  ASSUME DOMAIN log \subseteq Nat, Foremost, Unseen,
         NEW g \in Guests, NEW u \in Stamps, Reflects(g, u), Proper(doc[g]),
         NEW ids, ids \subseteq Unheard(g), Heard(g)' = Heard(g) \cup ids,
         UNCHANGED <<log, pending, sent>>,
         NEW changes, Len(changes) \in Nat, Relays(changes, ids),
         Brought(doc[g], doc'[g], changes, Len(changes))
  PROVE  Reflects(g, u)'
<1> DEFINE n == Len(changes)
<1>1. ids \subseteq DOMAIN log /\ \A i \in ids : i \in Nat
  BY DEF Unheard
<1>2. PICK d : d = doc[g]
  OBVIOUS
<1>3. PICK e : e = doc'[g]
  OBVIOUS
<1>4. ListedTags(d) \subseteq DOMAIN d.ch
  BY <1>2 DEF Proper, Listed, ListedTags
<1>5. CASE \A k \in 1..n : changes[k].tag # u
  <2>1. \A i \in ids : u \notin DOMAIN log[i]
    BY <1>5 DEF Relays
  <2>2. /\ u \in DOMAIN e.ch <=> u \in DOMAIN d.ch
        /\ u \in DOMAIN d.ch => e.ch[u] = d.ch[u]
        /\ u \in ListedTags(d) => u \in ListedTags(e)
    BY <1>2, <1>3, <1>5 DEF Brought
  <2>3. Mentioned(g, u)' <=> Mentioned(g, u)
    BY <2>1 DEF Mentioned
  <2>4. \A x : Says(g, u, x)' <=> Says(g, u, x)
    BY <2>1 DEF Says
  <2> QED
    BY <1>2, <1>3, <2>2, <2>3, <2>4 DEF Reflects
<1>6. CASE \E k \in 1..n : changes[k].tag = u
  <2> DEFINE K == {k \in 1..n : changes[k].tag = u}
  <2>1. K \subseteq 0..n /\ K # {} /\ n \in Nat
    BY <1>6
  <2> HIDE DEF K
  <2>2. PICK k \in K : \A j \in K : j <= k
    <3> HIDE DEF n
    <3> QED
      BY <2>1, Greatest
  <2>3. k \in 1..n /\ changes[k].tag = u
    BY <2>2 DEF K
  <2>4. \A j \in 1..n : k < j => changes[j].tag # changes[k].tag
    <3> SUFFICES ASSUME NEW j \in 1..n, k < j, changes[j].tag = u PROVE FALSE
      BY <2>3
    <3>1. j <= k
      BY <2>2 DEF K
    <3> QED
      BY <2>3, <3>1
  <2>5. PICK i : i = changes[k].id
    OBVIOUS
  <2>6. PICK c : c = changes[k].ch
    OBVIOUS
  <2>7. i \in ids /\ u \in DOMAIN log[i] /\ c = log[i][u]
    BY <2>3, <2>5, <2>6 DEF Relays
  <2>8. u \in DOMAIN e.ch /\ e.ch[u] = c /\ (c # Nul => u \in ListedTags(e))
    BY <1>3, <2>3, <2>4, <2>6 DEF Brought
  <2>9. Says(g, u, c)'
    BY <2>7 DEF Says
  <2>10. ASSUME c # Nul, Says(g, u, Nul)' PROVE FALSE
    <3>1. u \in Inserts(log[i]) /\ i \in Unheard(g)
      BY <2>7, <2>10 DEF Inserts
    <3>2. u \notin DOMAIN doc[g].ch
      BY <3>1 DEF Unseen
    <3>3. ~ Mentioned(g, u)
      BY <3>2 DEF Reflects
    <3>4. PICK j \in ids : u \in DOMAIN log[j] /\ log[j][u] = Nul
      BY <2>10, <3>3 DEF Says, Mentioned
    <3>5. PICK l \in 1..n : changes[l].id = j /\ changes[l].tag = u
      BY <3>4 DEF Relays
    <3>6. l <= k
      BY <2>2, <3>5 DEF K
    <3>7. j <= i
      <4>1. CASE l < k
        BY <2>3, <2>5, <3>5, <4>1 DEF Relays
      <4>2. CASE l = k
        <5>1. j = i /\ i <= i
          BY <1>1, <2>5, <2>7, <3>5, <4>2
        <5> QED
          BY <5>1
      <4> QED
        BY <2>3, <3>5, <3>6, <4>1, <4>2
    <3>8. i <= j
      BY <1>1, <2>7, <3>1, <3>4 DEF Foremost
    <3>9. i = j
      BY <1>1, <2>7, <3>7, <3>8
    <3> QED
      BY <2>7, <2>10, <3>4, <3>9
  <2> HIDE DEF n
  <2>11. u \in DOMAIN doc'[g].ch /\ doc'[g].ch[u] = c /\ (c # Nul => u \in ListedTags(doc'[g]))
    BY <1>3, <2>8
  <2> QED
    BY <2>9, <2>10, <2>11 DEF Reflects
<1> QED
  BY <1>5, <1>6

(* The answer of a heartbeat is attached.                                  *)
LEMMA NewsSpread ==
  ASSUME Types, Finite, Contents, Spread, Fetched, Complete, NEW g \in Guests, News(g)
  PROVE  Spread'
<1>1. PICK ids : ids = {tr[1] : tr \in answer[<<g, "heartbeat">>].transactions}
  OBVIOUS
<1>2. /\ \A h \in Guests : h # g => doc'[h] = doc[h]
      /\ ids \subseteq Unheard(g)
      /\ \E changes : /\ Len(changes) \in Nat /\ Relays(changes, ids)
                      /\ Brought(doc[g], doc'[g], changes, Len(changes))
  BY <1>1, NewsBrings
<1>3. PICK changes : /\ Len(changes) \in Nat /\ Relays(changes, ids)
                     /\ Brought(doc[g], doc'[g], changes, Len(changes))
  BY <1>2
<1>4. /\ \A i \in Unheard(g) : i \notin ids => \A j \in ids : ~ (i <= j)
      /\ Unheard(g)' = Unheard(g) \ ids
      /\ \A h \in Guests : h # g => Unheard(h)' = Unheard(h)
      /\ \A h \in Guests : Unlogged(h)' = Unlogged(h)
      /\ UNCHANGED <<log, own, pending, sent, minted>>
  BY <1>1, NewsHeard
<1>5. DOMAIN log \subseteq Nat /\ Proper(doc[g]) /\ Unheard(g) \subseteq DOMAIN log
  BY DEF Types, LogTypes, Contents, Writing, Written, Unheard
<1>6. /\ Heard(g)' = Heard(g) \cup ids
      /\ \A h \in Guests : h # g => Heard(h)' = Heard(h)
  BY <1>2, <1>4, <1>5 DEF Heard
<1>7. ASSUME NEW u \in DOMAIN doc'[g].ch, u \notin DOMAIN doc[g].ch
      PROVE  \E i \in ids : u \in DOMAIN log[i]
  <2>1. PICK k \in 1..Len(changes) : changes[k].tag = u
    BY <1>3, <1>7 DEF Brought
  <2>2. changes[k].id \in ids /\ u \in DOMAIN log[changes[k].id]
    BY <1>3, <2>1 DEF Relays
  <2> QED
    BY <2>2
<1>8. Reflected'
  <2>1. OnceAmong(doc'[g], Stamps)
    BY <1>3 DEF Brought
  <2>2. ASSUME NEW u \in Stamps PROVE Reflects(g, u)'
    <3>1. Foremost /\ Unseen /\ Reflects(g, u)
      BY DEF Spread, Reflected
    <3> QED
      BY <1>2, <1>3, <1>4, <1>5, <1>6, <3>1, BroughtReflects
  <2>3. ASSUME NEW h \in Guests, h # g
        PROVE  OnceAmong(doc'[h], Stamps) /\ \A u \in Stamps : Reflects(h, u)'
    <3>1. OnceAmong(doc[h], Stamps) /\ \A u \in Stamps : Reflects(h, u)
      BY DEF Spread, Reflected
    <3>2. doc'[h] = doc[h] /\ Heard(h)' = Heard(h)
      BY <1>2, <1>6, <2>3
    <3>3. \A u \in Stamps : Mentioned(h, u)' <=> Mentioned(h, u)
      BY <1>4, <3>2 DEF Mentioned
    <3>4. \A u \in Stamps : \A x : Says(h, u, x)' <=> Says(h, u, x)
      BY <1>4, <3>2 DEF Says
    <3>5. \A u \in Stamps : Reflects(h, u)'
      BY <3>1, <3>2, <3>3, <3>4 DEF Reflects
    <3> QED
      BY <3>1, <3>2, <3>5
  <2> QED
    BY <2>1, <2>2, <2>3 DEF Reflected
<1>9. Stamped'
  <2>1. /\ \A h \in Guests : \A u \in Stamps : u \in DOMAIN doc[h].ch => u \in minted
        /\ \A i \in DOMAIN log : \A u \in Stamps : u \in DOMAIN log[i] => u \in minted
    BY DEF Spread, Stamped
  <2>2. \A u \in Stamps : u \in DOMAIN doc'[g].ch => u \in minted
    BY <1>2, <1>5, <1>7, <2>1
  <2> QED
    BY <1>2, <1>4, <2>1, <2>2 DEF Stamped
<1>10. Private'
  <2>1. ASSUME NEW k \in Guests, NEW u \in Stamps, Outgoing(k, u)'
        PROVE  /\ \A h \in Guests : h # k => u \notin DOMAIN doc'[h].ch
               /\ \A i \in DOMAIN log : u \notin DOMAIN log[i]
    <3>1. Outgoing(k, u)
      BY <1>4, <2>1 DEF Outgoing
    <3>2. /\ \A h \in Guests : h # k => u \notin DOMAIN doc[h].ch
          /\ \A i \in DOMAIN log : u \notin DOMAIN log[i]
      BY <3>1 DEF Spread, Private
    <3>3. u \in DOMAIN doc'[g].ch => u \in DOMAIN doc[g].ch
      BY <1>2, <1>5, <1>7, <3>2
    <3> QED
      BY <1>2, <3>2, <3>3
  <2>2. \A k \in Guests : \A u \in Stamps : u \in Inserts(pending[k]) => u \notin DOMAIN sent[k]
    BY DEF Spread, Private
  <2> QED
    BY <1>4, <2>1, <2>2 DEF Private
<1>11. Foremost'
  BY <1>4 DEF Spread, Foremost
<1>12. Unseen'
  <2>1. ASSUME NEW h \in Guests, NEW i \in Unheard(h)', NEW u \in Stamps, u \in Inserts(log[i])
        PROVE  u \notin DOMAIN doc'[h].ch
    <3>1. CASE h # g
      BY <1>2, <1>4, <2>1, <3>1 DEF Spread, Unseen
    <3>2. CASE h = g
      <4>1. i \in Unheard(g) /\ i \notin ids
        BY <1>4, <2>1, <3>2
      <4>2. u \notin DOMAIN doc[g].ch
        BY <2>1, <4>1 DEF Spread, Unseen
      <4>3. ASSUME u \in DOMAIN doc'[g].ch PROVE FALSE
        <5>1. PICK j \in ids : u \in DOMAIN log[j]
          BY <1>7, <4>2, <4>3
        <5>2. i \in DOMAIN log /\ j \in DOMAIN log
          BY <1>2, <1>5, <4>1
        <5>3. i <= j
          BY <2>1, <5>1, <5>2 DEF Spread, Foremost
        <5> QED
          BY <1>4, <4>1, <5>3
      <4> QED
        BY <3>2, <4>3
    <3> QED
      BY <3>1, <3>2
  <2> QED
    BY <1>4, <2>1 DEF Unseen
<1> QED
  BY <1>8, <1>9, <1>10, <1>11, <1>12 DEF Spread

(* The page and the server's answers to it stay as they are.               *)
LEMMA UnmovedBy ==
  ASSUME NEW g \in Guests, doc'[g] = doc[g], pending'[g] = pending[g], sent'[g] = sent[g],
         Unheard(g)' = Unheard(g), answer'[<<g, "send">>] = answer[<<g, "send">>]
  PROVE  Unmoved(g)
BY DEF Unmoved, Unlogged

(* A character is noted, with a tag or without.                            *)
LEMMA NotingSpread ==
  ASSUME Types, Places, Contents, Spread, Single', NEW g \in Guests, NEW pos \in Nat,
         NEW c \in Nat, c # Nul, NEW also,
         Mint(g, pos, c, also) \/ NoteNull(g, pos, c, also) \/ NoteNothing(g, pos, also),
         UNCHANGED <<log, own, answer, sent, last>>
  PROVE  Spread'
<1>1. CASE Mint(g, pos, c, also)
  BY <1>1, MintSpread
<1>2. \A h \in Guests : Unheard(h)' = Unheard(h)
  BY DEF Unheard
<1>3. CASE NoteNull(g, pos, c, also)
  <2>1. UNCHANGED <<doc, minted>> /\ pending' = [pending EXCEPT ![g] = MapSet(pending[g], NullTag, c)]
    BY <1>3 DEF NoteNull
  <2>2. pending'[g] = MapSet(pending[g], NullTag, c) /\ \A h \in Guests : h # g => pending'[h] = pending[h]
    BY <2>1 DEF Types, PageTypes
  <2>3. NullTag \notin Stamps
    BY OneAssumption, SMT DEF Stamps, NullTag
  <2>4. Unmoved(g)
    <3>1. \A t \in Stamps : /\ t \in DOMAIN pending'[g] <=> t \in DOMAIN pending[g]
                            /\ t \in DOMAIN pending[g] => pending'[g][t] = pending[g][t]
      BY <2>2, <2>3 DEF MapSet
    <3> QED
      BY <1>2, <2>1, <3>1 DEF Unmoved, Unlogged
  <2>5. \A h \in Guests : Unmoved(h)
    BY <1>2, <2>1, <2>2, <2>4, UnmovedBy
  <2> QED
    BY <2>1, <2>5, UnmovedSpread
<1>4. CASE NoteNothing(g, pos, also)
  <2>1. UNCHANGED <<doc, pending, minted>>
    BY <1>4 DEF NoteNothing
  <2>2. \A h \in Guests : Unmoved(h)
    BY <1>2, <2>1, UnmovedBy
  <2> QED
    BY <2>1, <2>2, UnmovedSpread
<1> QED
  BY <1>1, <1>3, <1>4

(* Typing.                                                                 *)
LEMMA TypeSpread ==
  ASSUME Types, Places, Contents, Spread, Single', NEW g \in Guests, Type(g)
  PROVE  Spread'
<1> DEFINE n == typed + 1
<1>1. n \in Nat /\ n # Nul
  <2>1. typed \in 0..MaxTyped
    BY DEF Contents, Counters
  <2> QED
    BY <2>1, BoundsAre DEF Nul
<1>2. PICK from \in 0..Len(text[g]) :
        \/ Mint(g, from, n, {})
        \/ NoteNull(g, from, n, {})
        \/ NoteNothing(g, from, {})
  BY DEF Type
<1>3. UNCHANGED <<log, own, answer, sent, last>>
  BY DEF Type, server
<1>4. from \in Nat
  OBVIOUS
<1> HIDE DEF n
<1> QED
  BY <1>1, <1>2, <1>3, <1>4, NotingSpread

(* The rest of a paste.                                                    *)
LEMMA PasteTextSpread ==
  ASSUME Types, Places, Contents, Spread, Single', NEW g \in Guests, PasteText(g)
  PROVE  Spread'
<1>1. PICK c, pos, also :
        /\ c = Head(clip[g].chars) /\ pos = clip[g].from
        /\ \/ Mint(g, pos, c, also)
           \/ NoteNull(g, pos, c, also)
           \/ NoteNothing(g, pos, also)
  BY DEF PasteText
<1>2. UNCHANGED <<log, own, answer, sent, last>>
  BY DEF PasteText, server
<1>3. c \in Nat /\ c # Nul /\ pos \in Nat
  <2>1. typed \in 0..MaxTyped /\ Clipped(clip[g], typed) /\ clip[g] # NoPaste
    BY DEF Contents, Counters, Writing, Written, PasteText
  <2>2. clip[g].chars \in Seq(1..typed) /\ clip[g].chars # <<>> /\ clip[g].from \in Nat
    BY <2>1 DEF Clipped
  <2>3. PICK S : S = 1..typed
    OBVIOUS
  <2>4. PICK s \in Seq(S) : s = clip[g].chars
    BY <2>2, <2>3
  <2>5. Head(s) \in S
    BY <2>2, <2>4, HeadTailProperties
  <2> QED
    BY <1>1, <2>1, <2>2, <2>3, <2>4, <2>5, BoundsAre DEF Nul
<1> QED
  BY <1>1, <1>2, <1>3, NotingSpread

(* Steps that bring nothing to any document.                               *)
LEMMA QuietSpread ==
  ASSUME Types, SentLast, Spread, NEW g \in Guests,
         \/ Load(g) \/ Joined(g) \/ Login(g) \/ Paste(g) \/ DeleteKey(g)
         \/ Heartbeat(g) \/ Acknowledged(g)
  PROVE  Spread'
<1>1. /\ UNCHANGED <<log, doc, pending, last, minted>>
      /\ UNCHANGED sent \/ Acknowledged(g)
  BY DEF Load, Joined, Login, Paste, DeleteKey, Heartbeat, Acknowledged, server, history,
         Server!Collect, Server!Register, Server!Poll
<1>2. \A h \in Guests : Unheard(h)' = Unheard(h)
  <2>1. CASE Login(g)
    <3>1. g \notin DOMAIN own /\ own' = Server!With(own, g, {})
      BY <2>1 DEF Login, Server!Register, Types, LogTypes
    <3>2. /\ DOMAIN own' = DOMAIN own \cup {g} /\ own'[g] = {}
          /\ \A h \in DOMAIN own : own'[h] = own[h]
      BY <3>1 DEF Server!With
    <3> QED
      BY <1>1, <3>1, <3>2 DEF Unheard
  <2>2. CASE ~ Login(g)
    <3>1. UNCHANGED own
      BY <2>2 DEF Load, Joined, Paste, DeleteKey, Heartbeat, Acknowledged, server,
                  Server!Collect, Server!Poll
    <3> QED
      BY <1>1, <3>1 DEF Unheard
  <2> QED
    BY <2>1, <2>2
<1>3. \A h \in Guests : \/ answer'[<<h, "send">>] = answer[<<h, "send">>]
                        \/ h = g /\ Acknowledged(g)
  <2>1. \A h \in Guests : <<h, "send">> \in Calls
    BY DEF Calls
  <2>2. CASE Load(g) \/ Paste(g) \/ DeleteKey(g)
    BY <2>2 DEF Load, Paste, DeleteKey, server
  <2>3. CASE Joined(g)
    <3>1. <<g, "login">> \in Calls /\ Server!Collect(<<g, "login">>)
      BY <2>3 DEF Joined, Calls
    <3> QED
      BY <2>1, <3>1, Collects DEF Types
  <2>4. CASE Login(g)
    BY <2>1, <2>4, LoginStep
  <2>5. CASE Heartbeat(g)
    <3>1. <<g, "heartbeat">> \in Calls /\ \E a : Server!Give(<<g, "heartbeat">>, a)
      BY <2>5 DEF Heartbeat, Server!Poll, Calls
    <3> QED
      BY <2>1, <3>1, Gives DEF Types
  <2>6. CASE Acknowledged(g)
    <3>1. <<g, "send">> \in Calls /\ Server!Collect(<<g, "send">>)
      BY <2>6 DEF Acknowledged, Calls
    <3>2. \A h \in Guests : h # g => <<h, "send">> # <<g, "send">>
      OBVIOUS
    <3> QED
      BY <2>1, <2>6, <3>1, <3>2, Collects DEF Types
  <2> QED
    BY <2>2, <2>3, <2>4, <2>5, <2>6
<1>4. ASSUME Acknowledged(g)
      PROVE  Unmoved(g) /\ \A h \in Guests : h # g => sent'[h] = sent[h]
  <2>1. answer[<<g, "send">>] # Server!NoAnswer /\ sent' = [sent EXCEPT ![g] = NoChange]
    BY <1>4 DEF Acknowledged, Server!Collect
  <2>2. PICK i \in own[g] : g \in DOMAIN own /\ log[i] = sent[g]
    BY <2>1 DEF SentLast
  <2>3. i \in Heard(g)
    BY <2>2 DEF Heard, Unheard, Types, LogTypes
  <2>4. sent'[g] = NoChange /\ \A h \in Guests : h # g => sent'[h] = sent[h]
    BY <2>1 DEF Types, PageTypes
  <2> QED
    BY <1>1, <1>2, <2>2, <2>3, <2>4 DEF Unmoved
<1>5. ASSUME NEW h \in Guests PROVE Unmoved(h)
  <2>1. CASE h = g /\ Acknowledged(g)
    BY <1>4, <2>1
  <2>2. CASE ~ (h = g /\ Acknowledged(g))
    <3>1. sent'[h] = sent[h]
      BY <1>1, <1>4, <2>2
    <3>2. answer'[<<h, "send">>] = answer[<<h, "send">>]
      BY <1>3, <2>2
    <3> QED
      BY <1>1, <1>2, <3>1, <3>2, UnmovedBy
  <2> QED
    BY <2>1, <2>2
<1> QED
  BY <1>1, <1>5, UnmovedSpread

(* Every step keeps it.                                                    *)
LEMMA StepCommon ==
  ASSUME Types, Finite, SentLast, Places, Contents, Fetched, Complete, Common, [Next]_vars
  PROVE  Common'
<1> SUFFICES ASSUME Single' PROVE Spread'
  BY DEF Common
<1>1. CASE UNCHANGED vars
  <2>1. UNCHANGED <<log, own, answer, doc, pending, sent, last, minted, odd>>
    BY <1>1 DEF vars, server, history
  <2>2. Spread
    BY <2>1 DEF Common, Single
  <2>3. \A h \in Guests : Unheard(h)' = Unheard(h)
    BY <2>1 DEF Unheard
  <2>4. \A h \in Guests : Unmoved(h)
    BY <2>1, <2>3, UnmovedBy
  <2> QED
    BY <2>1, <2>2, <2>4, UnmovedSpread
<1>2. CASE Next
  <2>1. PICK g \in Guests :
          \/ PasteText(g) \/ Load(g) \/ Joined(g)
          \/ Type(g) \/ Paste(g) \/ Erase(g) \/ DeleteKey(g)
          \/ Heartbeat(g) \/ News(g)
          \/ Login(g) \/ Send(g) \/ Logged(g) \/ Acknowledged(g)
    BY <1>2 DEF Next
  <2>2. odd \subseteq odd'
    <3>1. CASE PasteText(g) \/ Type(g)
      BY <3>1 DEF PasteText, Type, Mint, NoteNull, NoteNothing
    <3>2. CASE ~ (PasteText(g) \/ Type(g))
      BY <2>1, <3>2 DEF Load, Joined, Paste, Erase, DeleteKey, Heartbeat, News, Login, Send,
                        Logged, Acknowledged, history
    <3> QED
      BY <3>1, <3>2
  <2>3. Spread
    BY <2>2 DEF Common, Single
  <2>4. CASE PasteText(g)
    BY <2>3, <2>4, PasteTextSpread
  <2>5. CASE Type(g)
    BY <2>3, <2>5, TypeSpread
  <2>6. CASE Erase(g)
    BY <2>3, <2>6, EraseSpread
  <2>7. CASE News(g)
    BY <2>3, <2>7, NewsSpread
  <2>8. CASE Send(g)
    BY <2>3, <2>8, SendSpread
  <2>9. CASE Logged(g)
    BY <2>3, <2>9, LoggedSpread
  <2>10. CASE \/ Load(g) \/ Joined(g) \/ Login(g) \/ Paste(g) \/ DeleteKey(g)
              \/ Heartbeat(g) \/ Acknowledged(g)
    BY <2>3, <2>10, QuietSpread
  <2> QED
    BY <2>1, <2>4, <2>5, <2>6, <2>7, <2>8, <2>9, <2>10
<1> QED
  BY <1>1, <1>2

(* Nothing is in the log at first, and the documents are empty.            *)
LEMMA CommonInitially ==
  ASSUME Init
  PROVE  Common /\ Complete
<1>1. /\ DOMAIN log = {} /\ \A c \in Calls : answer[c] = Server!NoAnswer
      /\ minted = {}
      /\ \A g \in Guests : doc[g] = EmptyDoc /\ pending[g] = NoChange /\ sent[g] = NoChange
  BY DEF Init, Server!Init, Calls
<1>2. \A t \in Stamps : t # 0 /\ t # One
  BY OneAssumption, SMT DEF Stamps
<1>3. /\ DOMAIN NoChange = {} /\ Inserts(NoChange) = {}
  BY NoInserts DEF NoChange
<1>4. /\ DOMAIN EmptyDoc.ch = {0, One} /\ OnceAmong(EmptyDoc, Stamps)
  <2>1. EmptyDoc.tags = <<0, One>> /\ DOMAIN EmptyDoc.ch = {0, One}
    BY DEF EmptyDoc
  <2>2. \A k \in DOMAIN EmptyDoc.tags : EmptyDoc.tags[k] = 0 \/ EmptyDoc.tags[k] = One
    BY <2>1
  <2> QED
    BY <1>2, <2>1, <2>2 DEF OnceAmong
<1>5. \A g \in Guests : Heard(g) = {} /\ Unheard(g) = {}
  BY <1>1 DEF Heard, Unheard
<1>6. \A g \in Guests : \A t \in Stamps : t \notin DOMAIN doc[g].ch /\ ~ Mentioned(g, t)
  BY <1>1, <1>2, <1>3, <1>4, <1>5 DEF Mentioned
<1>7. Reflected
  BY <1>1, <1>4, <1>6 DEF Reflected, Reflects
<1>8. Stamped /\ Foremost /\ Unseen
  BY <1>1, <1>5, <1>6 DEF Stamped, Foremost, Unseen
<1>9. Private
  BY <1>1, <1>3 DEF Private, Outgoing
<1>10. Complete
  BY <1>1 DEF Complete, Calls
<1> QED
  BY <1>7, <1>8, <1>9, <1>10 DEF Common, Spread

(* Pages that were told the same have the same.                            *)
LEMMA SameTold ==
  ASSUME DOMAIN log \subseteq Nat, Spread, NEW g \in Guests, NEW h \in Guests, NEW t \in Stamps,
         \A k \in {g, h} : pending[k] = NoChange /\ sent[k] = NoChange /\ Heard(k) = DOMAIN log,
         t \in DOMAIN doc[g].ch
  PROVE  t \in DOMAIN doc[h].ch /\ doc[h].ch[t] = doc[g].ch[t]
<1>1. DOMAIN NoChange = {}
  BY DEF NoChange
<1>2. \A k \in {g, h} : Mentioned(k, t) <=> \E i \in DOMAIN log : t \in DOMAIN log[i]
  BY <1>1 DEF Mentioned
<1>3. \A k \in {g, h} : \A c :
        Says(k, t, c) <=> \E i \in DOMAIN log : t \in DOMAIN log[i] /\ log[i][t] = c
  BY <1>1 DEF Says
<1>4. Reflects(g, t) /\ Reflects(h, t)
  BY DEF Spread, Reflected
<1>5. PICK c : c = doc[g].ch[t]
  OBVIOUS
<1>6. Says(g, t, c) /\ (Says(g, t, Nul) => c = Nul)
  BY <1>4, <1>5 DEF Reflects
<1>7. PICK i \in DOMAIN log : t \in DOMAIN log[i] /\ log[i][t] = c
  BY <1>3, <1>6
<1>8. t \in DOMAIN doc[h].ch
  <2>1. Mentioned(h, t)
    BY <1>2, <1>7
  <2> QED
    BY <1>4, <2>1 DEF Reflects
<1>9. PICK x : x = doc[h].ch[t]
  OBVIOUS
<1>10. Says(h, t, x) /\ (Says(h, t, Nul) => x = Nul)
  BY <1>4, <1>8, <1>9 DEF Reflects
<1>11. PICK j \in DOMAIN log : t \in DOMAIN log[j] /\ log[j][t] = x
  BY <1>3, <1>10
<1>12. Says(g, t, Nul) <=> Says(h, t, Nul)
  BY <1>3
<1>13. CASE c = Nul
  <2>1. x = Nul
    BY <1>6, <1>10, <1>12, <1>13
  <2> QED
    BY <1>5, <1>8, <1>9, <1>13, <2>1
<1>14. CASE c # Nul
  <2>1. x # Nul
    <3> SUFFICES ASSUME x = Nul PROVE FALSE
      OBVIOUS
    <3> QED
      BY <1>6, <1>10, <1>12, <1>14
  <2>2. t \in Inserts(log[i]) /\ t \in Inserts(log[j])
    BY <1>7, <1>11, <1>14, <2>1 DEF Inserts
  <2>3. i <= j /\ j <= i
    BY <1>7, <1>11, <2>2 DEF Spread, Foremost
  <2>4. i = j
    BY <2>3
  <2> QED
    BY <1>5, <1>7, <1>8, <1>9, <1>11, <2>4
<1> QED
  BY <1>13, <1>14

(* When all was heard, all pages have the same.                            *)
LEMMA QuietSame ==
  ASSUME Types, Joining, Contents, Spread, Quiet, NEW g \in Guests, NEW h \in Guests
  PROVE  Piece(doc[g]) = Piece(doc[h])
<1>1. DOMAIN log \subseteq Nat
  BY DEF Types, LogTypes
<1>2. ASSUME NEW k \in Guests
      PROVE  /\ pending[k] = NoChange /\ sent[k] = NoChange /\ Heard(k) = DOMAIN log
             /\ Proper(doc[k]) /\ OnceAmong(doc[k], Stamps)
  <2>1. /\ pending[k] = NoChange /\ sent[k] = NoChange /\ k \in DOMAIN own
        /\ \A i \in DOMAIN log \ own[k] : i <= last[k]
    BY DEF Quiet, Joining
  <2>2. last[k] \in {-1} \cup DOMAIN log
    BY DEF Contents, Counters
  <2>3. \A i \in DOMAIN log : ~ (i > last[k] /\ i <= last[k])
    BY <1>1, <2>2
  <2>4. Heard(k) = DOMAIN log
    BY <2>1, <2>3 DEF Heard, Unheard
  <2> QED
    BY <2>1, <2>4 DEF Contents, Writing, Written, Spread, Reflected
<1>3. ASSUME NEW k \in Guests, NEW l \in Guests, NEW t \in Early(doc[k])
      PROVE  t \in Early(doc[l]) /\ doc[l].ch[t] = doc[k].ch[t]
  <2>1. PICK d : d = doc[k]
    OBVIOUS
  <2>2. PICK e : e = doc[l]
    OBVIOUS
  <2>3. Early(d) \subseteq Stamps
    BY <1>2, <2>1, PieceIs
  <2>4. /\ t \in Stamps /\ t \in ListedTags(d) /\ d.ch[t] # Nul /\ Rank(t) < Rank(One)
        /\ t \in DOMAIN d.ch
    <3>1. t \in Early(d) /\ Proper(d)
      BY <1>2, <2>1
    <3> QED
      BY <2>3, <3>1 DEF Early, ShownTags, Shown, Proper, Listed, ListedTags
  <2>5. t \in DOMAIN e.ch /\ e.ch[t] = d.ch[t]
    BY <1>1, <1>2, <2>1, <2>2, <2>4, SameTold
  <2>6. t \in ListedTags(e)
    <3>1. Reflects(l, t)
      BY <2>4 DEF Spread, Reflected
    <3> QED
      BY <2>2, <2>4, <2>5, <3>1 DEF Reflects
  <2>7. t \in Early(e)
    BY <2>4, <2>5, <2>6 DEF Early, ShownTags, Shown
  <2> QED
    BY <2>1, <2>2, <2>5, <2>7
<1>4. PICK d : d = doc[g]
  OBVIOUS
<1>5. PICK e : e = doc[h]
  OBVIOUS
<1>6. Proper(d) /\ OnceAmong(d, Stamps) /\ Proper(e) /\ OnceAmong(e, Stamps)
  BY <1>2, <1>4, <1>5
<1>7. Early(d) = Early(e) /\ \A t \in Early(d) : d.ch[t] = e.ch[t]
  <2>1. \A t \in Early(d) : t \in Early(e) /\ e.ch[t] = d.ch[t]
    BY <1>3, <1>4, <1>5
  <2>2. \A t \in Early(e) : t \in Early(d)
    BY <1>3, <1>4, <1>5
  <2> QED
    BY <2>1, <2>2
<1>8. Piece(d) = Piece(e)
  BY <1>6, <1>7, SamePiece
<1> QED
  BY <1>4, <1>5, <1>8

(* When every guest has sent all its changes and heard all of the others', *)
(* the documents of all pages (pps, ppsTags) have the same piece, however  *)
(* typing, erasing and heartbeats met, and in whatever order the tags of a *)
(* batch were attached: as long as PPS.insert never made a tag twice.      *)
THEOREM PagesConverge == Spec => []Converged
<1> DEFINE Inv == Kept /\ Joining /\ Places /\ Contents /\ Fetched /\ Complete /\ Common
<1>1. Init => Inv
  <2>1. ASSUME Init PROVE Fetched
    BY <2>1 DEF Init, Server!Init, Fetched, Calls
  <2> QED
    BY <2>1, KeptInitially, ContentsInitially, CommonInitially
<1>2. Inv /\ [Next]_vars => Inv'
  BY StepKeeps, StepContents, StepFetched, StepComplete, StepCommon DEF Kept
<1>3. Inv => Converged
  <2> SUFFICES ASSUME Inv, Quiet, Single, NEW g \in Guests, NEW h \in Guests
               PROVE  Piece(doc[g]) = Piece(doc[h])
    BY DEF Converged, Single
  <2> QED
    BY QuietSame DEF Kept, Common
<1> HIDE DEF Inv
<1> QED
  BY <1>1, <1>2, <1>3, PTL DEF Spec
-----------------------------------------------------------------------------
(***************************************************************************)
(* Guests that type and paste only, or one who also erases at the end of   *)
(* the text: as long as no oddity has happened, the first tags behind 0    *)
(* are the shown ones, and the text is what they show, with what is still  *)
(* to be noted of a paste where it was pasted.  Or the text has strayed    *)
(* from the one of the paste, for good: then noting it is an oddity.       *)
(***************************************************************************)
Settled == odd = {} /\ ~ TinyMinted
Trims == "trim" \in Gestures
Gentle ==
  \/ Gestures \subseteq {"type", "paste"}
  \/ GuestCount = 1 /\ Gestures \subseteq {"type", "paste", "trim"}

Strayed(s, o) == IF Trims THEN Strays(s, o) ELSE Len(o) < Len(s)

(* A page of document d, text s and paste c; n characters are in use.      *)
Displays(d, s, c, n) ==
  /\ c.text \in Seq(1..n)
  /\ Trims => Ext!IsInjective(s)
  /\ \E m \in Nat :
       /\ Packed(d, m) /\ m <= Len(s)
       /\ ~ Trims => Len(d.tags) = m + 2
       /\ \/ /\ c = NoPaste \/ s = c.text
             /\ Shows(d, m, c.from, c.chars, s)
          \/ c # NoPaste /\ Strayed(s, c.text)
Displaying ==
  Settled => \A g \in Guests : Displays(doc[g], text[g], clip[g], typed)

(* Where nobody erases every change is an insertion; all tags made are     *)
(* between 0 and One.                                                      *)
Adds(m) == \A t \in DOMAIN m : m[t] # Nul
Additions ==
  /\ ~ Trims => /\ \A g \in Guests : Adds(pending[g]) /\ Adds(sent[g])
                /\ \A i \in DOMAIN log : Adds(log[i])
  /\ minted \subseteq Stamps

(* Nothing is erased where nobody trims.                                   *)
LEMMA GentleErase ==
  ASSUME Gentle, NEW g \in Guests
  PROVE  ~ DeleteKey(g) /\ (Erase(g) => Trims)
BY DEF Gentle, DeleteKey, Erase, Trims

(* A change of one page's that inserts.                                    *)
LEMMA NotingAdds ==
  ASSUME Types, Places, Contents, Additions, NEW g \in Guests, NEW pos \in Nat,
         NEW c \in Nat, c # Nul, NEW also,
         Mint(g, pos, c, also) \/ NoteNull(g, pos, c, also) \/ NoteNothing(g, pos, also)
  PROVE  /\ minted' \subseteq Stamps /\ minted \subseteq minted'
         /\ odd \subseteq odd'
         /\ ~ Trims => \A h \in Guests : Adds(pending'[h])
<1>1. pending = [h \in Guests |-> pending[h]]
  BY DEF Types, PageTypes
<1>2. ASSUME NEW t, pending' = [pending EXCEPT ![g] = MapSet(@, t, c)]
      PROVE  ~ Trims => \A h \in Guests : Adds(pending'[h])
  <2> SUFFICES ASSUME ~ Trims, NEW h \in Guests PROVE Adds(pending'[h])
    OBVIOUS
  <2>1. Adds(pending[h])
    BY DEF Additions
  <2>2. pending'[h] = IF h = g THEN MapSet(pending[g], t, c) ELSE pending[h]
    BY <1>1, <1>2
  <2> QED
    BY <2>1, <2>2 DEF Adds, MapSet
<1>3. CASE Mint(g, pos, c, also)
  <2>1. NewTag(doc[g], pos, Told(g).index, Told(g).count) \in Stamps
    BY <1>3, NewStamp
  <2>2. minted' = minted \cup {NewTag(doc[g], pos, Told(g).index, Told(g).count)} /\ odd \subseteq odd'
    BY <1>3 DEF Mint
  <2>3. \E t : pending' = [pending EXCEPT ![g] = MapSet(@, t, c)]
    BY <1>3 DEF Mint
  <2> QED
    BY <1>2, <2>1, <2>2, <2>3 DEF Additions
<1>4. CASE NoteNull(g, pos, c, also)
  <2>1. /\ minted' = minted /\ odd \subseteq odd'
        /\ pending' = [pending EXCEPT ![g] = MapSet(@, NullTag, c)]
    BY <1>4 DEF NoteNull
  <2> QED
    BY <1>2, <2>1 DEF Additions
<1>5. CASE NoteNothing(g, pos, also)
  BY <1>5 DEF NoteNothing, Additions
<1> QED
  BY <1>3, <1>4, <1>5

(* What a guest types, and what it pastes, is noted one by one.            *)
LEMMA TypeNotes ==
  ASSUME Contents, NEW g \in Guests, Type(g)
  PROVE  \E from \in 0..Len(text[g]), to \in 0..Len(text[g]) :
           /\ from = to \/ (from < to /\ "type over" \in Gestures)
           /\ text' = [text EXCEPT ![g] = Over(g, from, to, NextChars(1))]
           /\ typed \in Nat /\ typed + 1 \in Nat /\ typed + 1 # Nul /\ from \in Nat
           /\ \/ Mint(g, from, typed + 1, {})
              \/ NoteNull(g, from, typed + 1, {})
              \/ NoteNothing(g, from, {})
<1>1. typed \in Nat
  <2>1. typed \in 0..MaxTyped
    BY DEF Contents, Counters
  <2> QED
    BY <2>1, BoundsAre
<1>2. typed + 1 \in Nat /\ typed + 1 # Nul
  BY <1>1 DEF Nul
<1>3. \A from \in 0..Len(text[g]) : from \in Nat
  OBVIOUS
<1> DEFINE n == typed + 1
<1>4. n \in Nat /\ n # Nul
  BY <1>2
<1>5. \E from \in 0..Len(text[g]), to \in 0..Len(text[g]) :
        /\ from = to \/ (from < to /\ "type over" \in Gestures)
        /\ text' = [text EXCEPT ![g] = Over(g, from, to, NextChars(1))]
        /\ \/ Mint(g, from, n, {})
           \/ NoteNull(g, from, n, {})
           \/ NoteNothing(g, from, {})
  BY DEF Type
<1> HIDE DEF n
<1>6. \E from \in 0..Len(text[g]), to \in 0..Len(text[g]) :
        /\ from = to \/ (from < to /\ "type over" \in Gestures)
        /\ text' = [text EXCEPT ![g] = Over(g, from, to, NextChars(1))]
        /\ typed \in Nat /\ n \in Nat /\ n # Nul /\ from \in Nat
        /\ \/ Mint(g, from, n, {})
           \/ NoteNull(g, from, n, {})
           \/ NoteNothing(g, from, {})
  BY <1>1, <1>3, <1>4, <1>5
<1> QED
  BY <1>6 DEF n

(* What is pasted is noted one by one, and each has a number.              *)
LEMMA PasteTextNotes ==
  ASSUME Contents, NEW g \in Guests, PasteText(g)
  PROVE  \E c, pos, shifted :
           /\ clip[g] # NoPaste /\ c = Head(clip[g].chars) /\ pos = clip[g].from
           /\ shifted = IF text[g] = clip[g].text THEN {} ELSE {"shifted"}
           /\ c \in Nat /\ c # Nul /\ pos \in Nat
           /\ clip[g].chars \in Seq(1..typed) /\ clip[g].chars # <<>>
           /\ \/ /\ Mint(g, pos, c, shifted) \/ NoteNull(g, pos, c, shifted)
                 /\ clip' = [clip EXCEPT ![g] = IF Len(clip[g].chars) = 1 THEN NoPaste
                                                ELSE PasteRest(g)]
              \/ NoteNothing(g, pos, shifted)
<1>1. PICK c, pos, shifted :
        /\ c = Head(clip[g].chars) /\ pos = clip[g].from
        /\ shifted = IF text[g] = clip[g].text THEN {} ELSE {"shifted"}
        /\ \/ /\ Mint(g, pos, c, shifted) \/ NoteNull(g, pos, c, shifted)
              /\ clip' = [clip EXCEPT ![g] = IF Len(clip[g].chars) = 1 THEN NoPaste
                                             ELSE PasteRest(g)]
           \/ NoteNothing(g, pos, shifted)
  BY DEF PasteText
<1>2. /\ typed \in 0..MaxTyped /\ Clipped(clip[g], typed) /\ clip[g] # NoPaste
  BY DEF Contents, Counters, Writing, Written, PasteText
<1>3. clip[g].chars \in Seq(1..typed) /\ clip[g].chars # <<>> /\ clip[g].from \in Nat
  BY <1>2 DEF Clipped
<1>4. c \in Nat /\ c # Nul
  <2>1. PICK S : S = 1..typed
    OBVIOUS
  <2>2. PICK s \in Seq(S) : s = clip[g].chars
    BY <1>3, <2>1
  <2>3. Head(s) \in S
    BY <1>3, <2>2, HeadTailProperties
  <2> QED
    BY <1>1, <1>2, <2>1, <2>2, <2>3, BoundsAre DEF Nul
<1> QED
  BY <1>1, <1>2, <1>3, <1>4
(* Nothing stops being odd, and no tag is unmade.                          *)
LEMMA StepAdds ==
  ASSUME Gentle, Types, Places, Contents, Additions, [Next]_vars
  PROVE  Additions' /\ odd \subseteq odd' /\ minted \subseteq minted'
<1>1. CASE UNCHANGED vars
  BY <1>1 DEF vars, server, history, Additions
<1>2. CASE Next
  <2>1. PICK g \in Guests :
          \/ PasteText(g) \/ Load(g) \/ Joined(g)
          \/ Type(g) \/ Paste(g) \/ Erase(g) \/ DeleteKey(g)
          \/ Heartbeat(g) \/ News(g)
          \/ Login(g) \/ Send(g) \/ Logged(g) \/ Acknowledged(g)
    BY <1>2 DEF Next
  <2>2. Adds(NoChange)
    BY DEF Adds, NoChange
  <2>3. CASE Type(g) \/ PasteText(g)
    <3>1. UNCHANGED <<sent, log>>
      BY <2>3 DEF Type, PasteText, server
    <3>2. PICK pos, c, also :
            /\ pos \in Nat /\ c \in Nat /\ c # Nul
            /\ Mint(g, pos, c, also) \/ NoteNull(g, pos, c, also) \/ NoteNothing(g, pos, also)
      <4>1. CASE Type(g)
        BY <4>1, TypeNotes
      <4>2. CASE PasteText(g)
        BY <4>2, PasteTextNotes
      <4> QED
        BY <2>3, <4>1, <4>2
    <3>3. /\ minted' \subseteq Stamps /\ minted \subseteq minted' /\ odd \subseteq odd'
          /\ ~ Trims => \A h \in Guests : Adds(pending'[h])
      BY <3>2, NotingAdds
    <3> QED
      BY <3>1, <3>3 DEF Additions
  <2>4. CASE ~ (Type(g) \/ PasteText(g))
    <3>1. UNCHANGED <<odd, minted>>
      BY <2>1, <2>4 DEF Load, Joined, Paste, Erase, DeleteKey, Heartbeat, News, Login, Send,
                        Logged, Acknowledged, history
    <3>2. CASE Trims
      BY <3>1, <3>2 DEF Additions
    <3>3. CASE ~ Trims
      <4>1. /\ \A h \in Guests : Adds(pending[h]) /\ Adds(sent[h])
            /\ \A i \in DOMAIN log : Adds(log[i])
        BY <3>3 DEF Additions
      <4>2. /\ sent = [h \in Guests |-> sent[h]] /\ pending = [h \in Guests |-> pending[h]]
        BY DEF Types, PageTypes
      <4>3. CASE Send(g)
        <5>1. /\ sent' = [sent EXCEPT ![g] = pending[g]]
              /\ pending' = [pending EXCEPT ![g] = NoChange] /\ UNCHANGED log
          BY <4>3 DEF Send, server
        <5>2. \A h \in Guests : /\ sent'[h] = IF h = g THEN pending[g] ELSE sent[h]
                                /\ pending'[h] = IF h = g THEN NoChange ELSE pending[h]
          BY <4>2, <5>1
        <5> QED
          BY <2>2, <3>1, <4>1, <5>1, <5>2 DEF Additions
      <4>4. CASE Logged(g)
        <5>1. UNCHANGED <<pending, sent>>
          BY <4>4, LoggedStep
        <5>2. PICK i \in Nat : /\ DOMAIN log' = DOMAIN log \cup {i} /\ log'[i] = sent[g]
                               /\ \A j \in DOMAIN log : log'[j] = log[j]
          BY <4>4, LoggedStep
        <5>3. \A j \in DOMAIN log' : Adds(log'[j])
          BY <4>1, <5>2
        <5> QED
          BY <3>1, <4>1, <5>1, <5>3 DEF Additions
      <4>5. CASE Acknowledged(g)
        <5>1. /\ sent' = [sent EXCEPT ![g] = NoChange] /\ UNCHANGED pending
          BY <4>5 DEF Acknowledged
        <5>2. UNCHANGED log
          BY <4>5, OtherStep
        <5>3. \A h \in Guests : sent'[h] = IF h = g THEN NoChange ELSE sent[h]
          BY <4>2, <5>1
        <5> QED
          BY <2>2, <3>1, <4>1, <5>1, <5>2, <5>3 DEF Additions
      <4>6. CASE \/ Load(g) \/ Joined(g) \/ Paste(g) \/ Heartbeat(g) \/ News(g) \/ Login(g)
        <5>1. UNCHANGED <<pending, sent>>
          BY <4>6 DEF Load, Joined, Paste, Heartbeat, News, Login
        <5>2. UNCHANGED log
          BY <4>6, OtherStep, LoginStep
        <5> QED
          BY <3>1, <4>1, <5>1, <5>2 DEF Additions
      <4>7. ~ Erase(g) /\ ~ DeleteKey(g)
        BY <3>3, GentleErase
      <4> QED
        BY <2>1, <2>4, <4>3, <4>4, <4>5, <4>6, <4>7
    <3> QED
      BY <3>2, <3>3
  <2> QED
    BY <2>3, <2>4
<1> QED
  BY <1>1, <1>2

(* A tag that is made where nothing is odd goes to the place of its        *)
(* character.                                                              *)
LEMMA MintGrows ==
  ASSUME Types, Places, Contents, Carried, minted \subseteq Stamps, Settled',
         NEW g \in Guests, NEW m, Packed(doc[g], m),
         NEW pos \in Nat, NEW c \in Nat, c # Nul, NEW also,
         Mint(g, pos, c, also) \/ NoteNull(g, pos, c, also) \/ NoteNothing(g, pos, also)
  PROVE  /\ also = {} /\ Grown(doc[g], doc'[g], m, pos, c)
         /\ \A h \in Guests : h # g => doc'[h] = doc[h]
<1>1. Mint(g, pos, c, also)
  BY DEF NoteNull, NoteNothing, Settled
<1>2. PICK d : d = doc[g]
  OBVIOUS
<1>3. PICK t : t = NewTag(d, pos, Told(g).index, Told(g).count)
  OBVIOUS
<1>4. /\ Proper(d) /\ d.tags \in Seq(Tags) /\ doc = [h \in Guests |-> doc[h]]
  BY <1>2 DEF Contents, Writing, Written, Types, PageTypes, Proper, Listed
<1>5. CountShown(d) = m /\ m \in Nat /\ pos <= m
  <2>1. CountShown(d) = m
    BY <1>2, <1>4, PackedCount
  <2>2. pos <= CountShown(d)
    BY <1>1, <1>2 DEF Mint
  <2> QED
    BY <2>1, <2>2 DEF Packed
<1>6. Neighbour(d, pos) = pos + 1
  BY <1>5 DEF Neighbour
<1>7. /\ doc' = [doc EXCEPT ![g] = Add(d, t, c)] /\ minted' = minted \cup {t} /\ also = {}
      /\ t \notin minted \cup {0, One} /\ d.tags[pos + 1] < t /\ t < d.tags[(pos + 1) + 1]
  BY <1>1, <1>2, <1>3, <1>6 DEF Mint, Settled
<1>8. t \in Stamps
  BY <1>1, <1>2, <1>3, NewStamp
<1>9. t \notin ListedTags(d) /\ ~ Tiny(t)
  BY <1>2, <1>7 DEF Carried, Made, Settled, TinyMinted
<1>10. \A j \in DOMAIN d.tags : ~ Tiny(d.tags[j]) /\ d.tags[j] \in 0..One
  <2>1. ~ Tiny(0) /\ ~ Tiny(One) /\ 0 \in 0..One /\ One \in 0..One
    BY OneAssumption, SMT DEF Tiny
  <2>2. \A u \in minted : ~ Tiny(u) /\ u \in 0..One
    <3>1. \A u \in minted : ~ Tiny(u)
      BY <1>7 DEF Settled, TinyMinted
    <3>2. Stamps \subseteq 0..One
      BY OneAssumption, SMT DEF Stamps
    <3> QED
      BY <3>1, <3>2
  <2>3. \A j \in DOMAIN d.tags : d.tags[j] \in minted \cup {0, One}
    BY <1>2 DEF Carried, Made, ListedTags
  <2> QED
    BY <2>1, <2>2, <2>3
<1>11. Grown(d, Add(d, t, c), m, pos, c)
  <2>1. pos \in 0..m /\ (pos + 1) + 1 = pos + 2
    BY <1>5
  <2>2. d.tags[pos + 1] < t /\ t < d.tags[pos + 2]
    BY <1>7, <2>1
  <2>3. Packed(d, m)
    BY <1>2
  <2>4. t \in Stamps \ ListedTags(d)
    BY <1>8, <1>9
  <2> QED
    BY <1>4, <1>9, <1>10, <2>1, <2>2, <2>3, <2>4, AddGrows
<1>12. doc'[g] = Add(d, t, c) /\ \A h \in Guests : h # g => doc'[h] = doc[h]
  BY <1>4, <1>7
<1> QED
  BY <1>2, <1>7, <1>11, <1>12
(* A character is typed and noted.                                         *)
LEMMA TypedDisplays ==
  ASSUME NEW n \in Nat, NEW d, NEW s \in Seq(1..n), NEW k, Clipped(k, n), Displays(d, s, k, n),
         NEW from \in 0..Len(s), NEW r \in Seq(1..(n + 1)), Spliced(s, from, <<n + 1>>, r),
         NEW e, \A m : Packed(d, m) => Grown(d, e, m, from, n + 1)
  PROVE  Displays(e, r, k, n + 1)
<1>1. PICK m \in Nat :
        /\ Packed(d, m) /\ m <= Len(s)
        /\ ~ Trims => Len(d.tags) = m + 2
        /\ \/ /\ k = NoPaste \/ s = k.text
              /\ Shows(d, m, k.from, k.chars, s)
           \/ k # NoPaste /\ Strayed(s, k.text)
  BY DEF Displays
<1>2. Grown(d, e, m, from, n + 1) /\ from \in 0..m
  BY <1>1 DEF Grown
<1>3. /\ Len(s) \in Nat /\ Len(<<n + 1>>) = 1 /\ DOMAIN <<n + 1>> = {1} /\ <<n + 1>>[1] = n + 1
      /\ Len(r) = Len(s) + 1
  <2>1. Len(s) \in Nat /\ Len(<<n + 1>>) = 1 /\ DOMAIN <<n + 1>> = {1} /\ <<n + 1>>[1] = n + 1
    OBVIOUS
  <2>2. Len(r) = Len(s) + Len(<<n + 1>>)
    BY DEF Spliced
  <2> QED
    BY <2>1, <2>2
<1>4. PICK S, chars : S = 1..(n + 1) /\ chars = <<n + 1>>
  OBVIOUS
<1>5. /\ s \in Seq(S) /\ chars \in Seq(S) /\ r \in Seq(S) /\ Spliced(s, from, chars, r)
      /\ chars # <<>> /\ DOMAIN chars = {1} /\ chars[1] = n + 1
  <2>1. s \in Seq(S)
    BY <1>4, MoreTyped
  <2>2. chars \in Seq(S)
    <3>1. n + 1 \in S
      BY <1>4
    <3> QED
      BY <1>4, <3>1
  <2> QED
    BY <1>3, <1>4, <2>1, <2>2
<1>6. \A o : o \in Seq(1..n) => \A i \in DOMAIN chars : chars[i] \notin Ext!Range(o)
  <2>1. \A o : o \in Seq(1..n) => \A i \in DOMAIN o : o[i] # n + 1
    OBVIOUS
  <2> QED
    BY <1>5, <2>1 DEF Ext!Range
<1>7. k.text \in Seq(1..n) /\ k.text \in Seq(1..(n + 1))
  BY MoreTyped DEF Displays
<1>8. Trims => Ext!IsInjective(r)
  <2>1. Ext!IsInjective(chars)
    BY <1>5 DEF Ext!IsInjective
  <2>2. Trims => Ext!IsInjective(s)
    BY DEF Displays
  <2> QED
    BY <1>5, <1>6, <2>1, <2>2, SplicedInjective
<1>9. m + 1 \in Nat /\ Packed(e, m + 1) /\ m + 1 <= Len(r) /\ (~ Trims => Len(e.tags) = (m + 1) + 2)
  <2>1. Packed(e, m + 1) /\ Len(e.tags) = Len(d.tags) + 1
    BY <1>2 DEF Grown
  <2>2. m + 1 <= Len(r)
    BY <1>1, <1>3
  <2>3. ~ Trims => Len(e.tags) = (m + 1) + 2
    BY <1>1, <2>1
  <2> QED
    BY <2>1, <2>2, <2>3
<1>10. CASE k = NoPaste
  <2>1. k.from = 0 /\ k.chars = <<>>
    BY <1>10 DEF NoPaste
  <2>2. Shows(d, m, 0, <<>>, s)
    BY <1>1, <1>10, <2>1
  <2>3. Shows(e, m + 1, 0, <<>>, r)
    BY <1>2, <2>2, ShowsInserted
  <2> QED
    BY <1>7, <1>8, <1>9, <1>10, <2>1, <2>3 DEF Displays
<1>11. CASE k # NoPaste
  <2>1. Strayed(r, k.text)
    <3>1. CASE s = k.text /\ Shows(d, m, k.from, k.chars, s)
      <4>1. Len(s) = m + Len(k.chars) /\ Len(k.chars) \in Nat /\ Len(k.chars) # 0
        BY <1>11, <3>1, EmptySeq DEF Shows, Clipped
      <4>2. from < Len(s)
        BY <1>2, <4>1
      <4>3. CASE Trims
        BY <1>5, <1>6, <1>7, <3>1, <4>2, <4>3, SplicedStrays DEF Strayed
      <4>4. CASE ~ Trims
        BY <1>3, <3>1, <4>4 DEF Strayed
      <4> QED
        BY <4>3, <4>4
    <3>2. CASE Strayed(s, k.text)
      <4>1. CASE Trims
        BY <1>5, <1>6, <1>7, <3>2, <4>1, SplicedStrays DEF Strayed
      <4>2. CASE ~ Trims
        <5>1. Len(k.text) \in Nat /\ Len(k.text) < Len(s)
          BY <1>7, <3>2, <4>2 DEF Strayed
        <5> QED
          BY <1>3, <4>2, <5>1 DEF Strayed
      <4> QED
        BY <4>1, <4>2
    <3> QED
      BY <1>1, <1>11, <3>1, <3>2
  <2> QED
    BY <1>7, <1>8, <1>9, <1>11, <2>1 DEF Displays
<1> QED
  BY <1>10, <1>11

(* Characters are pasted, and not noted yet.                               *)
LEMMA PastedDisplays ==
  ASSUME NEW n \in Nat, NEW d, NEW s \in Seq(1..n), Displays(d, s, NoPaste, n),
         NEW from \in 0..Len(s), NEW N \in Nat, n <= N, NEW chars \in Seq(1..N),
         \A i \in DOMAIN chars : chars[i] = n + i,
         NEW r \in Seq(1..N), Spliced(s, from, chars, r),
         NEW k, k.from = from, k.chars = chars, k.text = r
  PROVE  Displays(d, r, k, N)
<1>1. NoPaste.from = 0 /\ NoPaste.chars = <<>>
  BY DEF NoPaste
<1>2. PICK m \in Nat : /\ Packed(d, m) /\ m <= Len(s) /\ (~ Trims => Len(d.tags) = m + 2)
                       /\ Shows(d, m, 0, <<>>, s)
  BY <1>1 DEF Displays
<1>3. Len(s) = m /\ Len(chars) \in Nat /\ Len(r) = m + Len(chars)
  <2>1. Len(s) = m + Len(<<>>) /\ Len(<<>>) = 0
    BY <1>2, EmptySeq DEF Shows
  <2>2. Len(r) = Len(s) + Len(chars)
    BY DEF Spliced
  <2> QED
    BY <2>1, <2>2
<1>4. Shows(d, m, from, chars, r)
  <2>1. PICK l \in Nat : l = Len(chars)
    BY <1>3
  <2> QED
    BY <1>2, <1>3, <2>1, ShowsPasted
<1>5. Trims => Ext!IsInjective(r)
  <2>1. s \in Seq(1..N)
    BY MoreTyped
  <2>2. DOMAIN chars \subseteq Nat \ {0}
    OBVIOUS
  <2>3. Ext!IsInjective(chars)
    BY <2>2 DEF Ext!IsInjective
  <2>4. \A i \in DOMAIN chars : chars[i] \notin Ext!Range(s)
    <3>1. \A j \in DOMAIN s : s[j] \in 1..n
      OBVIOUS
    <3> QED
      BY <2>2, <3>1 DEF Ext!Range
  <2>5. Trims => Ext!IsInjective(s)
    BY DEF Displays
  <2>6. PICK S : S = 1..N
    OBVIOUS
  <2>7. s \in Seq(S) /\ chars \in Seq(S) /\ r \in Seq(S)
    BY <2>1, <2>6
  <2> QED
    BY <2>3, <2>4, <2>5, <2>7, SplicedInjective
<1>6. m <= Len(r)
  BY <1>3
<1> QED
  BY <1>2, <1>4, <1>5, <1>6 DEF Displays
(* The first character of a paste is noted.                                *)
LEMMA NotedDisplays ==
  ASSUME NEW n \in Nat, NEW d, NEW s \in Seq(1..n), NEW k, Clipped(k, n), k # NoPaste,
         s = k.text, Displays(d, s, k, n),
         NEW e, \A m : Packed(d, m) => Grown(d, e, m, k.from, Head(k.chars)),
         NEW q,
         \/ Len(k.chars) = 1 /\ q = NoPaste
         \/ q.from = k.from + 1 /\ q.chars = Tail(k.chars) /\ q.text = k.text
  PROVE  Displays(e, s, q, n)
<1>1. ~ Strayed(s, k.text)
  BY StraysDiffers DEF Strayed, Displays
<1>2. PICK m \in Nat :
        /\ Packed(d, m) /\ m <= Len(s)
        /\ ~ Trims => Len(d.tags) = m + 2
        /\ Shows(d, m, k.from, k.chars, s)
  BY <1>1 DEF Displays
<1>3. Grown(d, e, m, k.from, Head(k.chars))
  BY <1>2
<1>4. PICK S : S = 1..n
  OBVIOUS
<1>5. k.chars \in Seq(S) /\ k.chars # <<>> /\ Len(k.chars) \in Nat /\ Len(k.chars) # 0
  BY <1>4, EmptySeq DEF Clipped
<1>6. Shows(e, m + 1, k.from + 1, Tail(k.chars), s)
  <2>1. PICK chars, from : chars \in Seq(S) /\ chars = k.chars /\ from = k.from
    BY <1>5
  <2>2. Shows(e, m + 1, from + 1, Tail(chars), s)
    BY <1>2, <1>3, <1>5, <2>1, ShowsNoted
  <2> QED
    BY <2>1, <2>2
<1>7. m + 1 \in Nat /\ Packed(e, m + 1) /\ m + 1 <= Len(s) /\ (~ Trims => Len(e.tags) = (m + 1) + 2)
  <2>1. Packed(e, m + 1) /\ Len(e.tags) = Len(d.tags) + 1
    BY <1>3 DEF Grown
  <2>2. Len(s) = m + Len(k.chars)
    BY <1>2 DEF Shows
  <2>3. m + 1 <= Len(s)
    BY <1>5, <2>2
  <2>4. ~ Trims => Len(e.tags) = (m + 1) + 2
    BY <1>2, <2>1
  <2> QED
    BY <2>1, <2>3, <2>4
<1>8. CASE Len(k.chars) = 1 /\ q = NoPaste
  <2>1. q.from = 0 /\ q.chars = <<>> /\ q.text = <<>>
    BY <1>8 DEF NoPaste
  <2>2. Tail(k.chars) = <<>>
    <3>1. Tail(k.chars) \in Seq(S) /\ Len(Tail(k.chars)) = 0
      BY <1>5, <1>8, HeadTailProperties
    <3> QED
      BY <3>1, EmptySeq
  <2>3. Shows(e, m + 1, 0, <<>>, s)
    <3>1. PICK l, from : l \in Nat /\ l = m + 1 /\ from = k.from + 1
      BY <1>7
    <3>2. Shows(e, l, from, <<>>, s)
      BY <1>6, <2>2, <3>1
    <3>3. Shows(e, l, 0, <<>>, s)
      BY <3>1, <3>2, ShowsAll
    <3> QED
      BY <3>1, <3>3
  <2>4. q.text \in Seq(1..n)
    BY <2>1, EmptySeq
  <2> QED
    BY <1>7, <1>8, <2>1, <2>3, <2>4 DEF Displays
<1>9. CASE q.from = k.from + 1 /\ q.chars = Tail(k.chars) /\ q.text = k.text
  BY <1>6, <1>7, <1>9 DEF Displays
<1> QED
  BY <1>8, <1>9

(* The end of a text is erased.                                            *)
LEMMA TrimmedDisplays ==
  ASSUME Trims, NEW n \in Nat, NEW d, Proper(d), OnceListed(d), NEW s \in Seq(1..n),
         NEW k, Displays(d, s, k, n), NEW from \in Nat, NEW to \in Nat, to = Len(s), from < to,
         NEW gone, Erased(d, from, to, gone), NEW r \in Seq(1..n), Len(r) = from, \A i \in 1..from : r[i] = s[i]
  PROVE  Displays(Hide(d, gone), r, k, n)
<1>1. PICK m \in Nat :
        /\ Packed(d, m) /\ m <= to
        /\ \/ /\ k = NoPaste \/ s = k.text
              /\ Shows(d, m, k.from, k.chars, s)
           \/ k # NoPaste /\ Strayed(s, k.text)
  BY DEF Displays
<1>2. PICK j \in Nat : j = IF from <= m THEN from ELSE m
  OBVIOUS
<1>3. PICK e : e = Hide(d, gone)
  OBVIOUS
<1>4. Cut(d, e, j) /\ Packed(e, j)
  <2>1. Cut(d, e, j)
    BY <1>1, <1>2, <1>3, HidePacked
  <2> QED
    BY <2>1 DEF Cut
<1>5. j <= Len(r)
  BY <1>2
<1>6. PICK S : S = 1..n
  OBVIOUS
<1>7. s \in Seq(S) /\ r \in Seq(S) /\ from \in 0..Len(s) /\ from < Len(s) /\ Ext!IsInjective(s)
  BY <1>6 DEF Displays
<1>8. Ext!IsInjective(r)
  BY <1>7, TrimInjective
<1>9. CASE k = NoPaste
  <2>1. k.from = 0 /\ k.chars = <<>>
    BY <1>9 DEF NoPaste
  <2>2. Shows(d, m, 0, <<>>, s)
    BY <1>1, <1>9, <2>1
  <2>3. to = m
    BY <2>2, EmptySeq DEF Shows
  <2>4. j = from /\ j \in 0..m /\ Len(r) = j /\ \A i \in 1..j : r[i] = s[i]
    BY <1>2, <2>3
  <2>5. Shows(e, j, 0, <<>>, r)
    BY <1>4, <2>2, <2>4, ShowsTrimmed
  <2> QED
    BY <1>3, <1>4, <1>5, <1>8, <1>9, <2>1, <2>5 DEF Displays
<1>10. CASE k # NoPaste
  <2>1. Strays(s, k.text) \/ s = k.text
    BY <1>1, <1>10 DEF Strayed
  <2>2. Strays(r, k.text)
    BY <1>7, <2>1, TrimStrays
  <2> QED
    BY <1>3, <1>4, <1>5, <1>8, <1>10, <2>2 DEF Displays, Strayed
<1> QED
  BY <1>9, <1>10

(* The changes of another guest are attached.                              *)
LEMMA AttachedDisplays ==
  ASSUME ~ Trims, NEW n \in Nat, NEW p, Proper(p.doc), OnceListed(p.doc), p.text \in Seq(1..n),
         NEW k, Displays(p.doc, p.text, k, n),
         NEW T, NEW changes \in Seq(T), NewTo(p, changes, 1..n), Differing(changes),
         \A i \in 1..Len(changes) :
           changes[i].ch # Nul /\ changes[i].tag \in Stamps /\ ~ Tiny(changes[i].tag),
         NEW clamps, NEW q, q = AttachAll(p, changes, clamps)
  PROVE  Displays(q.doc, q.text, k, n)
<1>1. PICK m \in Nat :
        /\ Packed(p.doc, m) /\ m <= Len(p.text) /\ Len(p.doc.tags) = m + 2
        /\ \/ /\ k = NoPaste \/ p.text = k.text
              /\ Shows(p.doc, m, k.from, k.chars, p.text)
           \/ k # NoPaste /\ Strayed(p.text, k.text)
  BY DEF Displays
<1>2. PICK l \in Nat : l = Len(changes)
  OBVIOUS
<1>3. /\ Packed(q.doc, m + l) /\ Len(q.doc.tags) = (m + l) + 2
      /\ Len(q.text) = Len(p.text) + l
      /\ Shows(p.doc, m, 0, <<>>, p.text) => Shows(q.doc, m + l, 0, <<>>, q.text)
  <2>1. PICK S \in SUBSET Nat : S = 1..n
    OBVIOUS
  <2>2. p.text \in Seq(S) /\ NewTo(p, changes, S)
    BY <2>1
  <2>3. LET f == AttachAll(p, changes, clamps)
        IN  /\ Packed(f.doc, m + Len(changes)) /\ Len(f.doc.tags) = (m + Len(changes)) + 2
            /\ Len(f.text) = Len(p.text) + Len(changes)
            /\ Shows(p.doc, m, 0, <<>>, p.text) => Shows(f.doc, m + Len(changes), 0, <<>>, f.text)
    BY <1>1, <2>2, AttachAllGrows
  <2> QED
    BY <1>2, <2>3
<1>4. Len(p.text) \in Nat /\ m + l \in Nat /\ m + l <= Len(q.text)
  <2>1. Len(p.text) \in Nat
    OBVIOUS
  <2> QED
    BY <1>1, <1>2, <1>3, <2>1
<1>5. CASE k = NoPaste
  <2>1. k.from = 0 /\ k.chars = <<>>
    BY <1>5 DEF NoPaste
  <2>2. Shows(q.doc, m + l, 0, <<>>, q.text)
    BY <1>1, <1>3, <1>5, <2>1
  <2> QED
    BY <1>3, <1>4, <1>5, <2>1, <2>2 DEF Displays
<1>6. CASE k # NoPaste /\ l = 0
  <2>1. changes = <<>>
    BY <1>2, <1>6, EmptySeq
  <2>2. q = p
    BY <2>1, AttachAllNothing
  <2> QED
    BY <2>2
<1>7. CASE k # NoPaste /\ l # 0
  <2>1. k.text \in Seq(1..n)
    BY DEF Displays
  <2>2. Len(k.text) <= Len(p.text)
    <3>1. CASE p.text = k.text
      BY <1>4, <3>1
    <3>2. CASE Strayed(p.text, k.text)
      <4>1. Len(k.text) \in Nat
        BY <2>1
      <4> QED
        BY <1>4, <3>2, <4>1 DEF Strayed
    <3> QED
      BY <1>1, <1>7, <3>1, <3>2
  <2>3. Len(k.text) < Len(q.text)
    <3>1. Len(k.text) \in Nat
      BY <2>1
    <3> QED
      BY <1>2, <1>3, <1>4, <1>7, <2>2, <3>1
  <2> QED
    BY <1>3, <1>4, <1>7, <2>1, <2>3 DEF Displays, Strayed
<1> QED
  BY <1>5, <1>6, <1>7
(* More characters are in use.                                             *)
LEMMA DisplaysStill ==
  ASSUME NEW n \in Nat, NEW N \in Nat, n <= N, NEW d, NEW s, NEW k, Displays(d, s, k, n)
  PROVE  Displays(d, s, k, N)
<1>1. k.text \in Seq(1..N)
  BY MoreTyped DEF Displays
<1> QED
  BY <1>1 DEF Displays

(* What goes into the text, over no selection.                             *)
LEMMA OverSpliced ==
  ASSUME NEW g \in Guests, NEW n \in Nat, text[g] \in Seq(1..n), NEW chars \in Seq(1..n),
         NEW from \in 0..Len(text[g])
  PROVE  Spliced(text[g], from, chars, Over(g, from, from, chars))
<1>1. PICK S, s : S = 1..n /\ s = text[g]
  OBVIOUS
<1>2. s \in Seq(S) /\ chars \in Seq(S) /\ from \in 0..Len(s)
  BY <1>1
<1>3. Spliced(s, from, chars, SubSeq(s, 1, from) \o chars \o SubSeq(s, from + 1, Len(s)))
  BY <1>2, SplicedOver
<1> QED
  BY <1>1, <1>3, Zenon DEF Over

(* The other pages, and the bounds, at a step of one page.                 *)
PageOnly(g) ==
  /\ typed \in Nat /\ typed' \in Nat /\ typed <= typed'
  /\ \A h \in Guests : h # g => doc'[h] = doc[h] /\ text'[h] = text[h] /\ clip'[h] = clip[h]

(* insertText: a character goes to the same place of text and document.    *)
LEMMA TypeDisplays ==
  ASSUME Gentle, Types, Finite, Places, Contents, Carried, minted \subseteq Stamps, Settled',
         NEW g \in Guests, Type(g), Displays(doc[g], text[g], clip[g], typed)
  PROVE  PageOnly(g) /\ Displays(doc'[g], text'[g], clip'[g], typed')
<1>1. PICK from \in 0..Len(text[g]), to \in 0..Len(text[g]) :
        /\ from = to \/ (from < to /\ "type over" \in Gestures)
        /\ text' = [text EXCEPT ![g] = Over(g, from, to, NextChars(1))]
        /\ typed \in Nat /\ typed + 1 \in Nat /\ typed + 1 # Nul /\ from \in Nat
        /\ \/ Mint(g, from, typed + 1, {})
           \/ NoteNull(g, from, typed + 1, {})
           \/ NoteNothing(g, from, {})
  BY TypeNotes
<1>2. typed' = typed + 1 /\ clip' = clip
  BY DEF Type
<1>3. PICK n \in Nat, c \in Nat : n = typed /\ c = n + 1
  BY <1>1
<1>4. from = to /\ c # Nul /\ from \in Nat /\ text = [h \in Guests |-> text[h]]
  BY <1>1, <1>3 DEF Gentle, Contents, Writing
<1>5. PICK chars : chars = NextChars(1)
  OBVIOUS
<1>6. chars = <<c>>
  BY <1>3, <1>5 DEF NextChars
<1>7. /\ text[g] \in Seq(1..n) /\ text[g] \in Seq(1..c) /\ chars \in Seq(1..c)
      /\ Clipped(clip[g], n)
  <2>1. text[g] \in Seq(1..n) /\ Clipped(clip[g], n)
    BY <1>3 DEF Contents, Writing, Written
  <2>2. text[g] \in Seq(1..c)
    BY <1>3, <2>1, MoreTyped
  <2> QED
    BY <1>1, <1>3, <1>5, <2>1, <2>2, NextCharsAre
<1>8. PICK r : r = Over(g, from, from, chars)
  OBVIOUS
<1>9. Spliced(text[g], from, <<c>>, r) /\ r \in Seq(1..c)
  BY <1>6, <1>7, <1>8, OverSpliced, OverIs
<1>10. text'[g] = r /\ \A h \in Guests : h # g => text'[h] = text[h]
  BY <1>1, <1>4, <1>5, <1>8
<1>11. /\ \A m : Packed(doc[g], m) => Grown(doc[g], doc'[g], m, from, c)
       /\ \A h \in Guests : h # g => doc'[h] = doc[h]
  <2>1. Mint(g, from, c, {}) \/ NoteNull(g, from, c, {}) \/ NoteNothing(g, from, {})
    BY <1>1, <1>3
  <2>2. \A m : Packed(doc[g], m) => /\ Grown(doc[g], doc'[g], m, from, c)
                                    /\ \A h \in Guests : h # g => doc'[h] = doc[h]
    BY <1>4, <2>1, MintGrows
  <2>3. \E m : Packed(doc[g], m)
    BY DEF Displays
  <2> QED
    BY <2>2, <2>3
<1>12. Displays(doc'[g], r, clip[g], c)
  <2>1. PICK d, s, k, e : d = doc[g] /\ s = text[g] /\ k = clip[g] /\ e = doc'[g]
    OBVIOUS
  <2>2. /\ s \in Seq(1..n) /\ Clipped(k, n) /\ Displays(d, s, k, n) /\ from \in 0..Len(s)
        /\ r \in Seq(1..c) /\ Spliced(s, from, <<c>>, r)
        /\ \A m : Packed(d, m) => Grown(d, e, m, from, c)
    BY <1>3, <1>7, <1>9, <1>11, <2>1
  <2>3. /\ r \in Seq(1..(n + 1)) /\ Spliced(s, from, <<n + 1>>, r)
        /\ \A m : Packed(d, m) => Grown(d, e, m, from, n + 1)
    BY <1>3, <2>2
  <2>4. Displays(e, r, k, n + 1)
    BY <2>2, <2>3, TypedDisplays
  <2> QED
    BY <1>3, <2>1, <2>4
<1>13. PageOnly(g)
  <2>1. typed' = n + 1 /\ typed = n
    BY <1>2, <1>3
  <2>2. typed \in Nat /\ typed' \in Nat /\ typed <= typed'
    BY <2>1
  <2>3. \A h \in Guests : clip'[h] = clip[h]
    BY <1>2
  <2> QED
    BY <1>10, <1>11, <2>2, <2>3 DEF PageOnly
<1> QED
  BY <1>2, <1>3, <1>10, <1>12, <1>13

(* detectPaste: the text has what the document does not show yet.          *)
LEMMA PasteDisplays ==
  ASSUME Gentle, Types, Contents, NEW g \in Guests, Paste(g),
         Displays(doc[g], text[g], clip[g], typed)
  PROVE  PageOnly(g) /\ Displays(doc'[g], text'[g], clip'[g], typed')
<1>1. PICK from \in 0..Len(text[g]), to \in 0..Len(text[g]) :
        /\ from = to \/ (from < to /\ "type over" \in Gestures)
        /\ text' = [text EXCEPT ![g] = Over(g, from, to, NextChars(2))]
        /\ clip' = [clip EXCEPT ![g] =
             [from |-> from, chars |-> NextChars(2), text |-> text'[g], running |-> FALSE]]
  BY DEF Paste
<1>2. typed' = typed + 2 /\ doc' = doc /\ clip[g] = NoPaste
  BY DEF Paste
<1>3. PICK n \in Nat, N \in Nat : n = typed /\ N = n + 2 /\ n <= N
  <2>1. typed \in 0..MaxTyped
    BY DEF Contents, Counters
  <2>2. typed \in Nat /\ typed + 2 \in Nat /\ typed <= typed + 2
    BY <2>1, BoundsAre
  <2> QED
    BY <2>2
<1>4. /\ from = to /\ text = [h \in Guests |-> text[h]] /\ clip = [h \in Guests |-> clip[h]]
  BY <1>1 DEF Gentle, Contents, Writing, Types, PageTypes
<1>5. PICK chars : chars = NextChars(2)
  OBVIOUS
<1>6. chars \in Seq(1..N) /\ \A i \in DOMAIN chars : chars[i] = n + i
  <2>1. NextChars(2) \in Seq(1..(typed + 2))
    BY <1>3, NextCharsAre
  <2> QED
    BY <1>3, <1>5, <2>1 DEF NextChars
<1>7. text[g] \in Seq(1..n) /\ text[g] \in Seq(1..N)
  <2>1. text[g] \in Seq(1..n)
    BY <1>3 DEF Contents, Writing, Written
  <2> QED
    BY <1>3, <2>1, MoreTyped
<1>8. PICK r : r = Over(g, from, from, chars)
  OBVIOUS
<1>9. Spliced(text[g], from, chars, r) /\ r \in Seq(1..N)
  BY <1>6, <1>7, <1>8, OverSpliced, OverIs
<1>10. text'[g] = r /\ \A h \in Guests : h # g => text'[h] = text[h]
  BY <1>1, <1>4, <1>5, <1>8
<1>11. PICK k : k = [from |-> from, chars |-> chars, text |-> r, running |-> FALSE]
  OBVIOUS
<1>12. clip'[g] = k /\ \A h \in Guests : h # g => clip'[h] = clip[h]
  <2>1. clip' = [clip EXCEPT ![g] = k]
    BY <1>1, <1>5, <1>10, <1>11
  <2> QED
    BY <1>4, <2>1
<1>13. k.from = from /\ k.chars = chars /\ k.text = r
  BY <1>11
<1>14. Displays(doc[g], r, k, N)
  <2>1. PICK d, s : d = doc[g] /\ s = text[g]
    OBVIOUS
  <2>2. /\ s \in Seq(1..n) /\ Displays(d, s, NoPaste, n) /\ from \in 0..Len(s)
        /\ Spliced(s, from, chars, r)
    BY <1>2, <1>3, <1>7, <1>9, <2>1
  <2>3. Displays(d, r, k, N)
    BY <1>3, <1>6, <1>9, <1>13, <2>2, PastedDisplays
  <2> QED
    BY <2>1, <2>3
<1>15. PageOnly(g)
  <2>1. typed \in Nat /\ typed' \in Nat /\ typed <= typed'
    BY <1>2, <1>3
  <2> QED
    BY <1>2, <1>10, <1>12, <2>1 DEF PageOnly
<1> QED
  BY <1>2, <1>3, <1>10, <1>12, <1>14, <1>15

(* pasteText: the document shows one more of them.                         *)
LEMMA PasteTextDisplays ==
  ASSUME Types, Finite, Places, Contents, Carried, minted \subseteq Stamps, Settled',
         NEW g \in Guests, PasteText(g), Displays(doc[g], text[g], clip[g], typed)
  PROVE  PageOnly(g) /\ Displays(doc'[g], text'[g], clip'[g], typed')
<1>1. PICK c, pos, shifted :
        /\ clip[g] # NoPaste /\ c = Head(clip[g].chars) /\ pos = clip[g].from
        /\ shifted = IF text[g] = clip[g].text THEN {} ELSE {"shifted"}
        /\ c \in Nat /\ c # Nul /\ pos \in Nat
        /\ clip[g].chars \in Seq(1..typed) /\ clip[g].chars # <<>>
        /\ \/ /\ Mint(g, pos, c, shifted) \/ NoteNull(g, pos, c, shifted)
              /\ clip' = [clip EXCEPT ![g] = IF Len(clip[g].chars) = 1 THEN NoPaste
                                             ELSE PasteRest(g)]
           \/ NoteNothing(g, pos, shifted)
  BY PasteTextNotes
<1>2. UNCHANGED <<text, typed>> /\ clip = [h \in Guests |-> clip[h]]
  BY DEF PasteText, Types, PageTypes
<1>3. /\ shifted = {} /\ \A m : Packed(doc[g], m) => Grown(doc[g], doc'[g], m, pos, c)
      /\ \A h \in Guests : h # g => doc'[h] = doc[h]
  <2>1. Mint(g, pos, c, shifted) \/ NoteNull(g, pos, c, shifted) \/ NoteNothing(g, pos, shifted)
    BY <1>1
  <2>2. \A m : Packed(doc[g], m) => /\ shifted = {} /\ Grown(doc[g], doc'[g], m, pos, c)
                                    /\ \A h \in Guests : h # g => doc'[h] = doc[h]
    BY <1>1, <2>1, MintGrows
  <2>3. \E m : Packed(doc[g], m)
    BY DEF Displays
  <2> QED
    BY <2>2, <2>3
<1>4. text[g] = clip[g].text
  BY <1>1, <1>3
<1>5. clip' = [clip EXCEPT ![g] = IF Len(clip[g].chars) = 1 THEN NoPaste ELSE PasteRest(g)]
  <2>1. ~ NoteNothing(g, pos, shifted)
    BY DEF NoteNothing, Settled
  <2> QED
    BY <1>1, <2>1
<1>6. PICK k, q : k = clip[g] /\ q = IF Len(k.chars) = 1 THEN NoPaste ELSE PasteRest(g)
  OBVIOUS
<1>7. clip'[g] = q /\ \A h \in Guests : h # g => clip'[h] = clip[h]
  <2>1. clip' = [clip EXCEPT ![g] = q]
    BY <1>5, <1>6
  <2> QED
    BY <1>2, <2>1
<1>8. \/ Len(k.chars) = 1 /\ q = NoPaste
      \/ q.from = k.from + 1 /\ q.chars = Tail(k.chars) /\ q.text = k.text
  <2>1. Clipped(clip[g], typed)
    BY DEF Contents, Writing, Written
  <2>2. PasteRest(g) = [from |-> k.from + 1, chars |-> Tail(k.chars), text |-> k.text,
                        running |-> TRUE]
    BY <1>6, <2>1, PasteRestIs
  <2>3. q = IF Len(k.chars) = 1 THEN NoPaste
            ELSE [from |-> k.from + 1, chars |-> Tail(k.chars), text |-> k.text, running |-> TRUE]
    BY <1>6, <2>2
  <2> QED
    BY <2>3
<1>9. PICK n \in Nat : n = typed
  BY BoundsAre DEF Contents, Counters
<1>10. Displays(doc'[g], text[g], q, n)
  <2>1. PICK d, s, e : d = doc[g] /\ s = text[g] /\ e = doc'[g]
    OBVIOUS
  <2>2. /\ s \in Seq(1..n) /\ Clipped(k, n) /\ k # NoPaste /\ s = k.text /\ Displays(d, s, k, n)
        /\ \A m : Packed(d, m) => Grown(d, e, m, k.from, Head(k.chars))
    BY <1>1, <1>3, <1>4, <1>6, <1>9, <2>1 DEF Contents, Writing, Written
  <2>3. Displays(e, s, q, n)
    BY <1>8, <2>2, NotedDisplays
  <2> QED
    BY <2>1, <2>3
<1>11. PageOnly(g)
  <2>1. typed \in Nat /\ typed' \in Nat /\ typed <= typed'
    BY <1>2, <1>9
  <2> QED
    BY <1>2, <1>3, <1>7, <2>1 DEF PageOnly
<1> QED
  BY <1>2, <1>7, <1>9, <1>10, <1>11

(* deleteText, at the end: text and document lose the same.                *)
LEMMA EraseDisplays ==
  ASSUME Gentle, Types, Contents, NEW g \in Guests, Erase(g), OnceListed(doc[g]),
         Displays(doc[g], text[g], clip[g], typed)
  PROVE  PageOnly(g) /\ Displays(doc'[g], text'[g], clip'[g], typed')
<1>1. PICK from \in 0..Len(text[g]), to \in 0..Len(text[g]) :
        LET gone == {DeleteTag(doc[g], p) : p \in {q \in (from + 1)..to : Deletable(doc[g], q)}}
        IN  /\ from < to
            /\ "erase" \in Gestures \/ ("trim" \in Gestures /\ to = Len(text[g]))
            /\ doc' = [doc EXCEPT ![g] = Hide(doc[g], gone)]
            /\ text' = [text EXCEPT ![g] = TextRemove(text[g], from, to)]
  BY DEF Erase
<1>2. Trims /\ to = Len(text[g])
  <2>1. "erase" \in Gestures \/ ("trim" \in Gestures /\ to = Len(text[g]))
    BY <1>1
  <2>2. "erase" \notin Gestures
    BY DEF Gentle
  <2> QED
    BY <2>1, <2>2 DEF Trims
<1>3. UNCHANGED <<clip, typed>>
  BY DEF Erase
<1>4. PICK d, s, k, gone :
        /\ d = doc[g] /\ s = text[g] /\ k = clip[g]
        /\ gone = {DeleteTag(d, p) : p \in {q \in (from + 1)..to : Deletable(d, q)}}
  OBVIOUS
<1>5. Erased(d, from, to, gone)
  BY <1>4 DEF Erased
<1>6. PICK n \in Nat : n = typed
  BY BoundsAre DEF Contents, Counters
<1>7. PICK S, r : S = 1..n /\ r = TextRemove(s, from, Len(s))
  OBVIOUS
<1>8. /\ Proper(d) /\ OnceListed(d) /\ s \in Seq(1..n) /\ Displays(d, s, k, n)
      /\ doc = [h \in Guests |-> doc[h]] /\ text = [h \in Guests |-> text[h]]
  BY <1>4, <1>6 DEF Contents, Writing, Written, Types, PageTypes
<1>9. from \in 0..Len(s) /\ from \in Nat /\ to \in Nat /\ to = Len(s) /\ from < to
  BY <1>1, <1>2, <1>4
<1>10. r \in Seq(1..n) /\ Len(r) = from /\ \A i \in 1..from : r[i] = s[i]
  <2>1. s \in Seq(S)
    BY <1>7, <1>8
  <2>2. LET z == TextRemove(s, from, Len(s))
        IN  z \in Seq(S) /\ Len(z) = from /\ \A i \in 1..from : z[i] = s[i]
    BY <1>9, <2>1, TrimIs
  <2> QED
    BY <1>7, <2>2
<1>11. Displays(Hide(d, gone), r, k, n)
  BY <1>2, <1>5, <1>8, <1>9, <1>10, TrimmedDisplays
<1>12. doc' = [doc EXCEPT ![g] = Hide(d, gone)] /\ text' = [text EXCEPT ![g] = r]
  BY <1>1, <1>2, <1>4, <1>7
<1>13. /\ doc'[g] = Hide(d, gone) /\ text'[g] = r
       /\ \A h \in Guests : h # g => doc'[h] = doc[h] /\ text'[h] = text[h]
  BY <1>8, <1>12
<1>14. PageOnly(g)
  <2>1. typed \in Nat /\ typed' \in Nat /\ typed <= typed'
    BY <1>3, <1>6
  <2>2. \A h \in Guests : clip'[h] = clip[h]
    BY <1>3
  <2> QED
    BY <1>13, <2>1, <2>2 DEF PageOnly
<1> QED
  BY <1>3, <1>4, <1>6, <1>11, <1>13, <1>14

(* A guest alone hears of nothing.                                         *)
Deaf == Trims => \A g \in Guests : Hears(g)

(* An answer.                                                              *)
LEMMA NewsDisplays ==
  ASSUME Deaf,
         Types, Finite, Contents, Carried, Fetched, Additions, Settled,
         NEW g \in Guests, News(g), OnceListed(doc[g]),
         Displays(doc[g], text[g], clip[g], typed)
  PROVE  PageOnly(g) /\ Displays(doc'[g], text'[g], clip'[g], typed')
<1>1. PICK p : p = [doc |-> doc[g], text |-> text[g]]
  OBVIOUS
<1>2. PICK changes, clamps :
        /\ Arriving(g, p, changes)
        /\ doc' = [doc EXCEPT ![g] = AttachAll(p, changes, clamps).doc]
        /\ text' = [text EXCEPT ![g] = AttachAll(p, changes, clamps).text]
  BY <1>1, NewsArrives
<1>3. UNCHANGED <<clip, typed>>
  BY DEF News, history
<1>4. PICK q, T : /\ q = AttachAll(p, changes, clamps)
                  /\ T = Changes(answer[<<g, "heartbeat">>].transactions)
  OBVIOUS
<1>5. changes \in Seq(T) /\ Len(changes) \in Nat
  BY <1>2, <1>4 DEF Arriving
<1>6. PICK n \in Nat : n = typed
  BY BoundsAre DEF Contents, Counters
<1>7. /\ doc'[g] = q.doc /\ text'[g] = q.text
      /\ \A h \in Guests : h # g => doc'[h] = doc[h] /\ text'[h] = text[h]
  <2>1. doc = [h \in Guests |-> doc[h]] /\ text = [h \in Guests |-> text[h]]
    BY DEF Types, PageTypes, Contents, Writing
  <2>2. doc' = [doc EXCEPT ![g] = q.doc] /\ text' = [text EXCEPT ![g] = q.text]
    BY <1>2, <1>4
  <2> QED
    BY <2>1, <2>2
<1>8. PageOnly(g)
  <2>1. typed \in Nat /\ typed' \in Nat /\ typed <= typed'
    BY <1>3, <1>6
  <2>2. \A h \in Guests : clip'[h] = clip[h]
    BY <1>3
  <2> QED
    BY <1>7, <2>1, <2>2 DEF PageOnly
<1>9. PICK k : k = clip[g]
  OBVIOUS
<1>10. p.doc = doc[g] /\ p.text = text[g] /\ Displays(p.doc, p.text, k, n)
  BY <1>1, <1>6, <1>9
<1>11. CASE Trims
  <2>1. Unheard(g) = {}
    BY <1>11 DEF Deaf, Unheard, Hears
  <2>2. \A i \in 1..Len(changes) : changes[i].id \in Unheard(g)
    BY <1>2 DEF Arriving
  <2>3. Len(changes) = 0
    <3>1. Len(changes) # 0 => 1 \in 1..Len(changes)
      BY <1>5
    <3> QED
      BY <2>1, <2>2, <3>1
  <2>4. changes = <<>>
    BY <1>5, <2>3, EmptySeq
  <2>5. q = p
    BY <1>4, <2>4, AttachAllNothing
  <2> QED
    BY <1>3, <1>6, <1>7, <1>8, <1>9, <1>10, <2>5
<1>12. CASE ~ Trims
  <2>1. /\ Proper(p.doc) /\ OnceListed(p.doc) /\ p.text \in Seq(1..n)
    BY <1>6, <1>10 DEF Contents, Writing, Written
  <2>2. NewTo(p, changes, 1..n) /\ Differing(changes)
    BY <1>2, <1>6 DEF Arriving
  <2>3. \A i \in 1..Len(changes) :
          changes[i].ch # Nul /\ changes[i].tag \in Stamps /\ ~ Tiny(changes[i].tag)
    <3> SUFFICES ASSUME NEW i \in 1..Len(changes)
                 PROVE  changes[i].ch # Nul /\ changes[i].tag \in Stamps /\ ~ Tiny(changes[i].tag)
      OBVIOUS
    <3>1. PICK j, t, c : j = changes[i].id /\ t = changes[i].tag /\ c = changes[i].ch
      OBVIOUS
    <3>2. /\ j \in DOMAIN log /\ t \in DOMAIN log[j] /\ c = log[j][t]
          /\ c # Nul => t \in Inserts(log[j])
      BY <1>2, <3>1 DEF Arriving, Unheard
    <3>3. c # Nul
      BY <1>12, <3>2 DEF Additions, Adds
    <3>4. t \in minted
      BY <3>2, <3>3 DEF Carried, Made
    <3>5. t \in Stamps /\ ~ Tiny(t)
      BY <3>4 DEF Additions, Settled, TinyMinted
    <3> QED
      BY <3>1, <3>3, <3>5
  <2>4. Displays(q.doc, q.text, k, n)
    BY <1>4, <1>5, <1>10, <1>12, <2>1, <2>2, <2>3, AttachedDisplays
  <2> QED
    BY <1>3, <1>6, <1>7, <1>8, <1>9, <2>4
<1> QED
  BY <1>11, <1>12

(* Every step keeps it.                                                    *)
LEMMA StepDisplaying ==
  ASSUME Gentle, Deaf,
         Types, Finite, Joining, Places, Contents, Fetched, Tidy, Additions, Displaying,
         [Next]_vars
  PROVE  Displaying'
<1> SUFFICES ASSUME Settled', NEW h \in Guests
             PROVE  Displays(doc'[h], text'[h], clip'[h], typed')
  BY DEF Displaying
<1>1. odd \subseteq odd' /\ minted \subseteq minted'
  BY StepAdds
<1>2. Settled /\ Smooth'
  BY <1>1 DEF Settled, TinyMinted, Smooth
<1>3. Carried /\ Fitting /\ minted \subseteq Stamps
  BY <1>1, <1>2, SmoothBefore DEF Additions
<1>4. \A g \in Guests : Displays(doc[g], text[g], clip[g], typed) /\ OnceListed(doc[g])
  BY <1>2, <1>3 DEF Displaying, Fitting, Fits
<1>5. CASE UNCHANGED <<doc, text, clip, typed>>
  BY <1>4, <1>5
<1>6. ASSUME NEW g \in Guests, PageOnly(g), Displays(doc'[g], text'[g], clip'[g], typed')
      PROVE  Displays(doc'[h], text'[h], clip'[h], typed')
  <2>1. CASE h = g
    BY <1>6, <2>1
  <2>2. CASE h # g
    <3>1. PICK n, N, d, s, k :
            n = typed /\ N = typed' /\ d = doc[h] /\ s = text[h] /\ k = clip[h]
      OBVIOUS
    <3>2. n \in Nat /\ N \in Nat /\ n <= N /\ doc'[h] = d /\ text'[h] = s /\ clip'[h] = k
      BY <1>6, <2>2, <3>1 DEF PageOnly
    <3>3. Displays(d, s, k, n)
      BY <1>4, <3>1
    <3>4. Displays(d, s, k, N)
      BY <3>2, <3>3, DisplaysStill
    <3> QED
      BY <3>1, <3>2, <3>4
  <2> QED
    BY <2>1, <2>2
<1>7. CASE UNCHANGED vars
  BY <1>5, <1>7 DEF vars, history
<1>8. CASE Next
  <2>1. PICK g \in Guests :
          \/ PasteText(g) \/ Load(g) \/ Joined(g)
          \/ Type(g) \/ Paste(g) \/ Erase(g) \/ DeleteKey(g)
          \/ Heartbeat(g) \/ News(g)
          \/ Login(g) \/ Send(g) \/ Logged(g) \/ Acknowledged(g)
    BY <1>8 DEF Next
  <2>2. Displays(doc[g], text[g], clip[g], typed) /\ OnceListed(doc[g])
    BY <1>4
  <2>3. CASE Type(g)
    BY <1>3, <1>6, <2>2, <2>3, TypeDisplays
  <2>4. CASE Paste(g)
    BY <1>6, <2>2, <2>4, PasteDisplays
  <2>5. CASE PasteText(g)
    BY <1>3, <1>6, <2>2, <2>5, PasteTextDisplays
  <2>6. CASE Erase(g)
    BY <1>6, <2>2, <2>6, EraseDisplays
  <2>7. CASE News(g)
    BY <1>2, <1>3, <1>6, <2>2, <2>7, NewsDisplays
  <2>8. ~ DeleteKey(g)
    BY GentleErase
  <2>9. CASE \/ Load(g) \/ Joined(g) \/ Heartbeat(g) \/ Acknowledged(g)
             \/ Login(g) \/ Send(g) \/ Logged(g)
    BY <1>5, <2>9 DEF Load, Joined, Heartbeat, Acknowledged, Login, Send, Logged, history
  <2> QED
    BY <2>1, <2>3, <2>4, <2>5, <2>6, <2>7, <2>8, <2>9
<1> QED
  BY <1>7, <1>8

(* Nothing is shown initially, and nothing written.                        *)
LEMMA DisplayingInitially ==
  ASSUME Init
  PROVE  Additions /\ Displaying
<1>1. /\ \A g \in Guests : /\ doc[g] = EmptyDoc /\ text[g] = <<>> /\ clip[g] = NoPaste
                           /\ pending[g] = NoChange /\ sent[g] = NoChange
      /\ DOMAIN log = {} /\ minted = {} /\ typed = 0
  BY DEF Init, Server!Init
<1>2. Adds(NoChange)
  BY DEF Adds, NoChange
<1>3. Additions
  BY <1>1, <1>2 DEF Additions
<1>4. Packed(EmptyDoc, 0) /\ Len(EmptyDoc.tags) = 2
  <2>1. EmptyDoc.tags = <<0, One>> /\ Len(EmptyDoc.tags) = 2 /\ DOMAIN EmptyDoc.tags = 1..2
    BY DEF EmptyDoc
  <2>2. \A t \in {0, One} : ~ Shown(EmptyDoc, t)
    BY DEF EmptyDoc, Shown
  <2>3. \A k \in DOMAIN EmptyDoc.tags : ~ Shown(EmptyDoc, EmptyDoc.tags[k])
    BY <2>1, <2>2
  <2>4. ~ \E k : k \in 2..(0 + 1)
    OBVIOUS
  <2> QED
    BY <2>1, <2>3, <2>4 DEF Packed
<1>5. Displays(EmptyDoc, <<>>, NoPaste, 0)
  <2>1. Len(<<>>) = 0 /\ <<>> \in Seq(1..0) /\ DOMAIN <<>> = {}
    BY EmptySeq
  <2>2. NoPaste.from = 0 /\ NoPaste.chars = <<>> /\ NoPaste.text = <<>>
    BY DEF NoPaste
  <2>3. Shows(EmptyDoc, 0, 0, <<>>, <<>>)
    BY <2>1 DEF Shows
  <2>4. Ext!IsInjective(<<>>)
    BY <2>1 DEF Ext!IsInjective
  <2> QED
    BY <1>4, <2>1, <2>2, <2>3, <2>4 DEF Displays
<1>6. Displaying
  BY <1>1, <1>5 DEF Displaying
<1> QED
  BY <1>3, <1>6

(* As long as no tag has been made twice, out of place or too small to be  *)
(* sorted by its value, and the text has not changed under a paste, every  *)
(* editor whose pastes are all noted has exactly the text its document     *)
(* shows, however the changes of any number of guests interleave: for      *)
(* guests who type and paste over no selection (insertText, pasteText,     *)
(* PPS.attach), and for one who also erases at the end (deleteText).       *)
THEOREM EditorsShowPieces ==
  ASSUME Gentle
  PROVE  Spec => []EditorShowsPiece
<1> DEFINE Inv == /\ Kept /\ Joining /\ Places /\ Contents /\ Fetched /\ Tidy
                  /\ Additions /\ Displaying /\ Deaf
<1>1. Trims => \E g \in Guests : Guests = {g}
  <2>1. GuestCount = 1 => \E g : Guests = {g}
    BY ColabAssumption, FS_Singleton DEF GuestCount
  <2> QED
    BY <2>1 DEF Gentle, Trims
<1>2. Init => Inv
  <2>1. Init => Kept /\ Joining /\ Places /\ Contents /\ Fetched /\ Tidy
    BY KeptInitially, ContentsInitially, TidyInitially
  <2>2. Init => Additions /\ Displaying
    BY DisplayingInitially
  <2>3. Init => Deaf
    BY DEF Init, Server!Init, Deaf, Hears
  <2> QED
    BY <2>1, <2>2, <2>3
<1>3. Inv /\ [Next]_vars => Inv'
  <2>1. Kept /\ Joining /\ Places /\ Contents /\ Fetched /\ Tidy /\ [Next]_vars
          => Kept' /\ Joining' /\ Places' /\ Contents' /\ Fetched' /\ Tidy'
    BY StepKeeps, StepContents, StepFetched, StepTidy DEF Kept
  <2>2. Kept /\ Places /\ Contents /\ Additions /\ [Next]_vars => Additions'
    BY StepAdds DEF Kept
  <2>3. Kept /\ Joining /\ Places /\ Contents /\ Fetched /\ Tidy /\ Additions /\ Displaying
          /\ Deaf /\ [Next]_vars => Displaying'
    BY StepDisplaying DEF Kept
  <2>4. Kept /\ Contents /\ Fetched /\ Deaf /\ [Next]_vars => Deaf'
    <3> SUFFICES ASSUME Kept, Contents, Fetched, Deaf, [Next]_vars, Trims
                 PROVE  \A g \in Guests : Hears(g)'
      BY DEF Deaf
    <3>1. PICK g \in Guests : Guests = {g}
      BY <1>1
    <3>2. Hears(g)
      BY <3>1 DEF Deaf
    <3>3. Hears(g)'
      BY <3>1, <3>2, AloneHears DEF Kept
    <3> QED
      BY <3>1, <3>3
  <2> QED
    BY <2>1, <2>2, <2>3, <2>4
<1>4. Inv => EditorShowsPiece
  <2> SUFFICES ASSUME Inv, Settled, NEW g \in Guests, clip[g] = NoPaste
               PROVE  text[g] = Piece(doc[g])
    BY DEF EditorShowsPiece, Settled
  <2>1. PICK d, s, n : d = doc[g] /\ s = text[g] /\ n = typed
    OBVIOUS
  <2>2. Proper(d) /\ s \in Seq(1..n) /\ Displays(d, s, NoPaste, n)
    BY <2>1 DEF Displaying, Contents, Writing, Written
  <2>3. NoPaste.from = 0 /\ NoPaste.chars = <<>>
    BY DEF NoPaste
  <2>4. PICK m : Packed(d, m) /\ Shows(d, m, 0, <<>>, s)
    BY <2>2, <2>3 DEF Displays
  <2>5. s = Piece(d)
    BY <2>2, <2>4, ShowsPiece
  <2> QED
    BY <2>1, <2>5
<1> HIDE DEF Inv
<1> QED
  BY <1>2, <1>3, <1>4, PTL DEF Spec
=============================================================================
