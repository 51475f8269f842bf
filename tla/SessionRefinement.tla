-------------------------- MODULE SessionRefinement -------------------------
(***************************************************************************)
(* With one worker, the handlers of module Router implement SharedLog: a   *)
(* request takes effect at the step that answers it.                       *)
(***************************************************************************)
EXTENDS Session

Registering(c) ==
  pc[c] \in {"add_changes", "login_count", "login_keys", "login_position"}

(* What unanswered logins and sends have written already is not yet there. *)
MembersBar ==
  [n \in DOMAIN users \ {req[c].user : c \in {d \in Calls : Registering(d)}}
     |-> users[n]]
LogBar ==
  [i \in DOMAIN changes \ {loc[c].cid : c \in {d \in Calls : Recording(d)}}
     |-> changes[i]]
OwnBar == [n \in DOMAIN MembersBar |-> OwnIds(n)]

Log == INSTANCE SharedLog
         WITH members <- MembersBar, log <- LogBar, own <- OwnBar,
              answer <- [c \in Calls |-> [kind |-> "none"]]

AnswerBar ==
  [c \in Calls |->
    CASE pc[c] = "invalid" -> Log!Refused(req[c].user)
      [] pc[c] = "replied" /\ req[c].kind = "login" ->
           Log!Welcome(req[c].user, loc[c].n, loc[c].pos)
      [] pc[c] = "replied" /\ req[c].kind = "heartbeat" ->
           Log!News(req[c].user, req[c].last, loc[c].n, loc[c].pos, loc[c].got)
      [] pc[c] = "replied" /\ req[c].kind = "sendChanges" ->
           Log!Logged(req[c].user, req[c].change, loc[c].cid)
      [] pc[c] = "replied" /\ req[c].kind \in {"deinitializeCall", "sendUserNames"} ->
           Log!Done
      [] OTHER -> Log!NoAnswer]

Abstract == INSTANCE SharedLog
              WITH members <- MembersBar, log <- LogBar, own <- OwnBar,
                   answer <- AnswerBar

(* Served one at a time, the requests behave like atomic operations on a   *)
(* shared append-only log.                                                 *)
ImplementsSharedLog == Abstract!Spec
=============================================================================
