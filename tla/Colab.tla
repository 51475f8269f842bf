-------------------------------- MODULE Colab --------------------------------
(***************************************************************************)
(* Guests editing one document: the position stamps of module Pps on each  *)
(* page, and between the pages the change log of module SharedLog, the     *)
(* promise that the server keeps when it serves one request at a time.     *)
(* Each page loses no answer and has at most one heartbeat open; module    *)
(* Session has the rest of that story.  The k-th character typed has code  *)
(* k, so that characters can be told apart.                                *)
(***************************************************************************)
EXTENDS Pps

CONSTANTS
  Guests,
  BrowserOf,   (* the browser of each guest's page: its tabs share one     *)
               (* localStorage                                             *)
  Gestures,    (* what guests do in the editor, in this instance           *)
  Patient,     (* do guests wait with editing until they know of everyone? *)
  MaxTyped,    (* bound: characters typed or pasted, by all together       *)
  MaxAnywhere, (* bound: after so many, guests only type at the front      *)
  MaxErase,    (* bound: deletions, by all guests together                 *)
  MaxBatches   (* bound: batches of changes in the log                     *)

AllGestures == {"type", "type over", "paste", "trim", "erase", "delete key"}
Browsers == {BrowserOf[g] : g \in Guests}

ASSUME ColabAssumption ==
  /\ IsFiniteSet(Guests)
  /\ BrowserOf \in [Guests -> Browsers]
  /\ Gestures \subseteq AllGestures /\ Patient \in BOOLEAN
  /\ {MaxTyped, MaxAnywhere, MaxErase, MaxBatches} \subseteq Nat

VARIABLES
  members, log, own, answer, (* the server, see SharedLog                  *)
  stage,   (* of a page: closed, open with its login form, in              *)
  doc,     (* ppsTags, pps and ppsAck of a page                            *)
  text,    (* the text in its editor                                       *)
  clip,    (* what was pasted and is not yet in the document               *)
  pending, (* pendingChanges: tag -> character                             *)
  sent,    (* the changes in the open request, NoChange if there is none   *)
  last,    (* lastReceivedGreatestSeqNum                                   *)
  told,    (* per browser: userPosition and userCount; count 0: not there  *)
  typed,   (* history: how many characters were typed or pasted so far     *)
  erased,  (* history: deletions so far                                    *)
  minted,  (* history: tags made so far                                    *)
  odd      (* history: which oddities have happened so far                 *)

server == <<members, log, own, answer>>
history == <<typed, erased, minted, odd>>
vars == <<server, stage, doc, text, clip, pending, sent, last, told, history>>

(* A tag was made twice; a tag was made that is not between its neighbours;*)
(* a character in the editor got no tag; the text of a page changed        *)
(* between a paste and the noting of what was pasted.                      *)
Oddities == {"twice", "astray", "unplaced", "shifted"}

Server == INSTANCE SharedLog
  WITH Names <- Guests, Payloads <- {}, Calls <- Guests \X {"login", "send", "heartbeat"}

NoChange == [t \in {} |-> Nul]
NoPaste == [from |-> 0, chars |-> <<>>, text |-> <<>>, running |-> FALSE]
Unknown == [index |-> 0, count |-> 0]
Told(g) == told[BrowserOf[g]]
Edits(g) == stage[g] = "in" /\ (Patient => Told(g).count = Cardinality(Guests))

Init ==
  /\ Server!Init
  /\ stage = [g \in Guests |-> "closed"]
  /\ doc = [g \in Guests |-> EmptyDoc]
  /\ text = [g \in Guests |-> <<>>]
  /\ clip = [g \in Guests |-> NoPaste]
  /\ pending = [g \in Guests |-> NoChange]
  /\ sent = [g \in Guests |-> NoChange]
  /\ last = [g \in Guests |-> -1]
  /\ told = [b \in Browsers |-> Unknown]
  /\ typed = 0 /\ erased = 0 /\ minted = {} /\ odd = {}

-----------------------------------------------------------------------------
(* window.onload: logOut takes userCount and userPosition out of           *)
(* localStorage, for all the browser's tabs.                               *)
Load(g) ==
  /\ stage[g] = "closed"
  /\ stage' = [stage EXCEPT ![g] = "open"]
  /\ told' = [told EXCEPT ![BrowserOf[g]] = Unknown]
  /\ UNCHANGED <<server, doc, text, clip, pending, sent, last, history>>

(* loginAsGuest, each guest under a name of its own, and its answer.       *)
Login(g) ==
  /\ stage[g] = "open"
  /\ Server!Register(<<g, "login">>, g)
  /\ UNCHANGED <<stage, doc, text, clip, pending, sent, last, told, history>>

Learn(g, a) ==
  told' = [told EXCEPT ![BrowserOf[g]] = [index |-> a.position, count |-> a.count]]

Joined(g) ==
  /\ Server!Collect(<<g, "login">>)
  /\ Learn(g, answer[<<g, "login">>])
  /\ stage' = [stage EXCEPT ![g] = "in"]
  /\ UNCHANGED <<doc, text, clip, pending, sent, last, history>>

-----------------------------------------------------------------------------
(***************************************************************************)
(* PPS.insert and the noting of the change it makes, by insertText and     *)
(* pasteText.  "also" is an oddity of the caller's.                        *)
(***************************************************************************)
Fails(g, pos) == Told(g).count = 0 \/ Throws(doc[g], pos)
Nowhere(g, pos) == ~ Fails(g, pos) /\ pos > CountShown(doc[g])

Mint(g, pos, c, also) ==
  LET d == doc[g]
      k == Neighbour(d, pos)
      t == NewTag(d, pos, Told(g).index, Told(g).count)
  IN  /\ ~ Fails(g, pos) /\ pos <= CountShown(d)
      /\ Whole(d, pos, Told(g).index, Told(g).count)
      /\ doc' = [doc EXCEPT ![g] = Add(d, t, c)]
      /\ pending' = [pending EXCEPT ![g] = MapSet(@, t, c)]
      /\ minted' = minted \cup {t}
      /\ odd' = odd \cup also
                    \cup (IF t \in minted \cup {0, One} THEN {"twice"} ELSE {})
                    \cup (IF d.tags[k] < t /\ t < d.tags[k + 1] THEN {} ELSE {"astray"})

(* It finds no place: a change of the tag 'null' is noted.                 *)
NoteNull(g, pos, c, also) ==
  /\ Nowhere(g, pos)
  /\ pending' = [pending EXCEPT ![g] = MapSet(@, NullTag, c)]
  /\ odd' = odd \cup also \cup {"unplaced"}
  /\ UNCHANGED <<doc, minted>>

(* It throws, and nothing is noted.                                        *)
NoteNothing(g, pos, also) ==
  /\ Fails(g, pos)
  /\ odd' = odd \cup also \cup {"unplaced"}
  /\ UNCHANGED <<doc, pending, minted>>

(* What is typed or pasted goes into the editor over the selection         *)
(* from..to, of which PPS.insert hears the start only.                     *)
Over(g, from, to, chars) ==
  SubSeq(text[g], 1, from) \o chars \o SubSeq(text[g], to + 1, Len(text[g]))

NextChars(n) == [i \in 1..n |-> typed + i]

(* insertText.                                                             *)
Type(g) ==
  /\ Edits(g) /\ typed < MaxTyped
  /\ \E from, to \in 0..Len(text[g]) :
       /\ typed < MaxAnywhere \/ (from = 0 /\ to = 0)
       /\ \/ from = to /\ "type" \in Gestures
          \/ from < to /\ "type over" \in Gestures
       /\ text' = [text EXCEPT ![g] = Over(g, from, to, NextChars(1))]
       /\ \/ Mint(g, from, typed + 1, {})
          \/ NoteNull(g, from, typed + 1, {})
          \/ NoteNothing(g, from, {})
  /\ typed' = typed + 1
  /\ UNCHANGED <<server, stage, clip, sent, last, told, erased>>

(* detectPaste, of two characters: the editor has them, and a timer of 1 ms*)
(* is set.                                                                 *)
Paste(g) ==
  /\ Edits(g) /\ typed < MaxAnywhere /\ typed + 2 <= MaxTyped
  /\ "paste" \in Gestures /\ clip[g] = NoPaste
  /\ \E from, to \in 0..Len(text[g]) :
       /\ from = to \/ (from < to /\ "type over" \in Gestures)
       /\ text' = [text EXCEPT ![g] = Over(g, from, to, NextChars(2))]
       /\ clip' = [clip EXCEPT ![g] =
            [from |-> from, chars |-> NextChars(2), text |-> text'[g], running |-> FALSE]]
  /\ typed' = typed + 2
  /\ UNCHANGED <<server, stage, doc, pending, sent, last, told, erased, minted, odd>>

(* Slip: every character at the place of the first.                        *)
PasteRestStuck(g) == [clip[g] EXCEPT !.chars = Tail(@), !.running = TRUE]

(* pasteText, one character of it; nothing else runs on the page until it  *)
(* is through.  An exception ends it.                                      *)
PasteRest(g) == [clip[g] EXCEPT !.from = @ + 1, !.chars = Tail(@), !.running = TRUE]

PasteText(g) ==
  /\ clip[g] # NoPaste
  /\ LET c == Head(clip[g].chars)   pos == clip[g].from
         rest == IF Len(clip[g].chars) = 1 THEN NoPaste ELSE PasteRest(g)
         shifted == IF text[g] = clip[g].text THEN {} ELSE {"shifted"}
     IN  \/ /\ Mint(g, pos, c, shifted) \/ NoteNull(g, pos, c, shifted)
            /\ clip' = [clip EXCEPT ![g] = rest]
         \/ /\ NoteNothing(g, pos, shifted)
            /\ clip' = [clip EXCEPT ![g] = NoPaste]
  /\ UNCHANGED <<server, stage, text, sent, last, told, typed, erased>>

(* deleteText.  Backspace removes from+1..to, the selection or the one     *)
(* character before the cursor; all tags are looked up before any is       *)
(* hidden.                                                                 *)
Erase(g) ==
  /\ Edits(g) /\ erased < MaxErase
  /\ \E from, to \in 0..Len(text[g]) :
       LET d == doc[g]
           gone == {DeleteTag(d, p) : p \in {q \in (from + 1)..to : Deletable(d, q)}}
       IN  /\ from < to
           /\ \/ "erase" \in Gestures
              \/ "trim" \in Gestures /\ to = Len(text[g])
           /\ doc' = [doc EXCEPT ![g] = Hide(d, gone)]
           /\ text' = [text EXCEPT ![g] = TextRemove(@, from, to)]
           /\ pending' = [pending EXCEPT ![g] =
                           [t \in DOMAIN @ \cup gone |-> IF t \in gone THEN Nul ELSE @[t]]]
  /\ erased' = erased + 1
  /\ UNCHANGED <<server, stage, clip, sent, last, told, typed, minted, odd>>

(* The Delete key has another key code than the one deleteText looks for.  *)
DeleteKey(g) ==
  /\ Edits(g) /\ erased < MaxErase /\ "delete key" \in Gestures
  /\ \E from, to \in 0..Len(text[g]) :
       from < to /\ text' = [text EXCEPT ![g] = TextRemove(@, from, to)]
  /\ erased' = erased + 1
  /\ UNCHANGED <<server, stage, doc, clip, pending, sent, last, told, typed, minted, odd>>

-----------------------------------------------------------------------------
(* startSendChanges: what is pending goes into one request ...             *)
Send(g) ==
  /\ stage[g] = "in" /\ sent[g] = NoChange /\ pending[g] # NoChange
  /\ Cardinality(DOMAIN log) < MaxBatches
  /\ sent' = [sent EXCEPT ![g] = pending[g]]
  /\ pending' = [pending EXCEPT ![g] = NoChange]
  /\ UNCHANGED <<server, stage, doc, text, clip, last, told, history>>

(* ... which the server logs, and whose answer admits the next request.    *)
Logged(g) ==
  /\ sent[g] # NoChange
  /\ Server!Publish(<<g, "send">>, g, sent[g])
  /\ UNCHANGED <<stage, doc, text, clip, pending, sent, last, told, history>>

(* Slip: what was typed in the meantime is forgotten.                      *)
AcknowledgedAll(g) ==
  /\ Server!Collect(<<g, "send">>)
  /\ sent' = [sent EXCEPT ![g] = NoChange]
  /\ pending' = [pending EXCEPT ![g] = NoChange]
  /\ UNCHANGED <<stage, doc, text, clip, last, told, history>>

Acknowledged(g) ==
  /\ Server!Collect(<<g, "send">>)
  /\ sent' = [sent EXCEPT ![g] = NoChange]
  /\ UNCHANGED <<stage, doc, text, clip, pending, last, told, history>>

(* heartbeat, and its answer: the batches are attached in the order of     *)
(* their ids, the tags of a batch in any order.                            *)
Heartbeat(g) ==
  /\ stage[g] = "in"
  /\ Server!Poll(<<g, "heartbeat">>, g, last[g])
  /\ UNCHANGED <<stage, doc, text, clip, pending, sent, last, told, history>>

(* Slip: in any order.                                                     *)
DeliveriesMixed(transactions) ==
  Ext!SetToSeqs(UNION {{[id |-> tr[1], tag |-> t, ch |-> tr[2][t]] :
                     t \in DOMAIN tr[2]} : tr \in transactions})

Deliveries(transactions) ==
  {s \in Ext!SetToSeqs(UNION {{[id |-> tr[1], tag |-> t, ch |-> tr[2][t]] :
                             t \in DOMAIN tr[2]} : tr \in transactions}) :
     \A i, j \in DOMAIN s : i < j => s[i].id <= s[j].id}

News(g) ==
  LET a == answer[<<g, "heartbeat">>]
      ids == {tr[1] : tr \in a.transactions}
  IN  /\ Server!Collect(<<g, "heartbeat">>)
      /\ Learn(g, a)
      /\ last' = [last EXCEPT ![g] =
                    CHOOSE k \in {@} \cup ids : \A i \in {@} \cup ids : i <= k]
      /\ \E changes \in Deliveries(a.transactions), clamps \in BOOLEAN :
           LET p == AttachAll([doc |-> doc[g], text |-> text[g]], changes, clamps)
           IN  doc' = [doc EXCEPT ![g] = p.doc] /\ text' = [text EXCEPT ![g] = p.text]
      /\ UNCHANGED <<stage, clip, pending, sent, history>>

(* The callbacks of a page run one at a time.                              *)
Next ==
  \E g \in Guests :
    \/ PasteText(g)
    \/ Logged(g)
    \/ /\ ~ clip[g].running
       /\ \/ Load(g) \/ Login(g) \/ Joined(g)
          \/ Type(g) \/ Paste(g) \/ Erase(g) \/ DeleteKey(g)
          \/ Send(g) \/ Acknowledged(g)
          \/ Heartbeat(g) \/ News(g)

Spec == Init /\ [][Next]_vars

-----------------------------------------------------------------------------
(* Types; the maps of every page cover its list of tags.                   *)
TypeOK ==
  /\ stage \in [Guests -> {"closed", "open", "in"}]
  /\ \A g \in Guests :
       /\ DocOK(doc[g])
       /\ text[g] \in Seq(1..typed) /\ clip[g].chars \in Seq(1..typed)
       /\ Told(g).index \in 0..(Cardinality(Guests) - 1)
       /\ Told(g).count \in 0..Cardinality(Guests)
       /\ last[g] \in {-1} \cup DOMAIN log
  /\ typed \in 0..MaxTyped /\ erased \in 0..MaxErase
  /\ minted \subseteq Tags /\ odd \subseteq Oddities

TinyMinted == \E t \in minted : Tiny(t)

(* What a page shows of its document is what is in its editor, unless a tag*)
(* was made twice, out of place or too small to be sorted by its value, or *)
(* the text changed under a paste.                                         *)
EditorShowsPiece ==
  odd = {} /\ ~ TinyMinted =>
    \A g \in Guests : clip[g] = NoPaste => text[g] = Piece(doc[g])

(* The text in an editor is never longer than what its document shows and  *)
(* what was just pasted, or insertText would find no place for a character:*)
(* unless one has failed to find a place before.                           *)
EditorNotAhead ==
  odd \cap {"twice", "unplaced"} = {} =>
    \A g \in Guests : Len(text[g]) <= CountShown(doc[g]) + Len(clip[g].chars)

(* The tags of a page are in strictly increasing order, down to 1e-6.      *)
TagsIncreasing ==
  ~ TinyMinted =>
    \A g \in Guests : LET tags == doc[g].tags IN
      \A i \in 1..(Len(tags) - 1) : tags[i] < tags[i + 1]

(* Guests that have not heard of each other's changes make tags in shares  *)
(* of their own, so that neither meets nor splits what the other types.    *)
(* Where a tag is sorted behind '1', Backspace can hide the '1' itself.    *)
SharesKept ==
  ~ TinyMinted =>
    \A g \in Guests : last[g] = -1 =>
      \A t \in DOMAIN doc[g].ch \ {0, One} :
        /\ Told(g).index * One < t * Told(g).count
        /\ t * Told(g).count < (Told(g).index + 1) * One

(* Every change made on a page and not yet overruled by another guest is   *)
(* on its way: it is pending, sent or logged, and nothing newer is.  A tag *)
(* of null is noted without any change of the page.                        *)
Newest(g, t) ==
  IF t \in DOMAIN pending[g] THEN pending[g][t]
  ELSE IF t \in DOMAIN sent[g] THEN sent[g][t]
  ELSE LET ids == {i \in own[g] : t \in DOMAIN log[i]}
       IN  log[CHOOSE i \in ids : \A j \in ids : j <= i][t]
Accounted ==
  \A g \in Guests : LET d == doc[g] IN
    \A t \in DOMAIN d.ack \ {NullTag} : ~ d.ack[t] =>
      /\ \/ t \in DOMAIN pending[g] \cup DOMAIN sent[g]
         \/ \E i \in own[g] : t \in DOMAIN log[i]
      /\ d.ch[t] = Newest(g, t)

(* All guests are in, have sent everything and heard everything.           *)
Quiet ==
  \A g \in Guests :
    /\ stage[g] = "in" /\ pending[g] = NoChange /\ sent[g] = NoChange
    /\ answer[<<g, "heartbeat">>] = Server!NoAnswer
    /\ \A i \in DOMAIN log \ own[g] : i <= last[g]
Converged ==
  Quiet /\ "twice" \notin odd =>
    \A g, h \in Guests : Piece(doc[g]) = Piece(doc[h])
=============================================================================
