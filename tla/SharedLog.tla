----------------------------- MODULE SharedLog ------------------------------
(***************************************************************************)
(* What the server promises a page: a registry of names and an append-only *)
(* log of changes, on which every request takes effect at one instant.     *)
(* Module SessionRefinement shows that the handlers of module Router keep  *)
(* this promise when they run one at a time.                               *)
(***************************************************************************)
EXTENDS Integers, FiniteSets

CONSTANTS Names, Payloads, Calls

VARIABLES
  members, (* registered name -> its position in the order of registration *)
  log,     (* change id -> payload                                         *)
  own,     (* registered name -> the ids of its own changes                *)
  answer   (* per call: the answer given and not yet collected             *)

vars == <<members, log, own, answer>>

(* Answers, each with what was asked for.                                  *)
NoAnswer == [kind |-> "none"]
Done == [kind |-> "done"]
Refused(n) == [kind |-> "invalid", name |-> n]
Welcome(n, count, position) ==
  [kind |-> "welcome", name |-> n, count |-> count, position |-> position]
Logged(n, x, i) == [kind |-> "logged", name |-> n, payload |-> x, id |-> i]
News(n, k, count, position, transactions) ==
  [kind |-> "news", name |-> n, since |-> k, count |-> count,
   position |-> position, transactions |-> transactions]

With(f, k, v) == [x \in DOMAIN f \cup {k} |-> IF x = k THEN v ELSE f[x]]

Give(c, a) == answer[c] = NoAnswer /\ answer' = [answer EXCEPT ![c] = a]

Init ==
  /\ members = [n \in {} |-> 0]
  /\ log = [i \in {} |-> 0]
  /\ own = [n \in {} |-> {}]
  /\ answer = [c \in Calls |-> NoAnswer]

(* A new name gets the next position ...                                   *)
Register(c, n) ==
  LET size == Cardinality(DOMAIN members)
  IN  /\ n \notin DOMAIN members
      /\ members' = With(members, n, size)
      /\ own' = With(own, n, {})
      /\ Give(c, Welcome(n, size + 1, size))
      /\ UNCHANGED log

(* ... and a registered one is refused.                                    *)
Refuse(c, n) ==
  /\ n \in DOMAIN members
  /\ Give(c, Refused(n))
  /\ UNCHANGED <<members, log, own>>

(* A change is appended under the next id, as one of its author's own.     *)
Publish(c, n, x) ==
  LET i == Cardinality(DOMAIN log) + 1
  IN  /\ n \in DOMAIN members
      /\ log' = With(log, i, x)
      /\ own' = [own EXCEPT ![n] = @ \cup {i}]
      /\ Give(c, Logged(n, x, i))
      /\ UNCHANGED members

(* The changes of the others after id k, all of them, as they are now.     *)
Poll(c, n, k) ==
  LET fresh == {i \in DOMAIN log : i > k} \ own[n]
  IN  /\ n \in DOMAIN members
      /\ Give(c, News(n, k, Cardinality(DOMAIN members), members[n],
                      {<<i, log[i]>> : i \in fresh}))
      /\ UNCHANGED <<members, log, own>>

(* Requests that change nothing.                                           *)
Acknowledge(c) == Give(c, Done) /\ UNCHANGED <<members, log, own>>

Collect(c) ==
  /\ answer[c] # NoAnswer
  /\ answer' = [answer EXCEPT ![c] = NoAnswer]
  /\ UNCHANGED <<members, log, own>>

Next ==
  \E c \in Calls :
    \/ \E n \in Names :
         \/ Register(c, n) \/ Refuse(c, n)
         \/ \E x \in Payloads : Publish(c, n, x)
         \/ \E k \in {-1} \cup DOMAIN log : Poll(c, n, k)
    \/ Acknowledge(c)
    \/ Collect(c)

Spec == Init /\ [][Next]_vars
=============================================================================
