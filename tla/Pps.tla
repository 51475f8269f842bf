--------------------------------- MODULE Pps ---------------------------------
(***************************************************************************)
(* The position stamps of app/static/js/colab.js: a document is an ordered *)
(* list of tags between '0' and '1' with a character code each.  A tag is  *)
(* counted in units of 1/One here, and only tags that come out as whole    *)
(* units are made.                                                         *)
(***************************************************************************)
EXTENDS Integers, Sequences, FiniteSets
Ext == INSTANCE SequencesExt

CONSTANT One (* the tag '1'                                                *)

(* From 2^-24 on a tag would be below 1e-7, see Rank.                      *)
ASSUME OneAssumption == One \in Nat /\ 0 < One /\ One <= 8388607

(* The character 0: a sentinel, or a tag that was deleted.                 *)
Nul == 0

(* What a tag of null becomes.                                             *)
NullTag == One + 1
Tags == 0..NullTag

(* ppsTags.sort() compares strings.  big.js writes a tag below 1e-6 with   *)
(* an exponent, d.ddde-7: such tags sort in their own order, but after '1';*)
(* and 'null' sorts after them.                                            *)
Tiny(t) == 0 < t /\ t <= (One - 1) \div 1000000
Rank(t) == IF t = NullTag THEN 3 * One ELSE IF Tiny(t) THEN One + t ELSE t

(* tags: ppsTags, sorted, possibly with repetitions; ch: the map pps; ack: *)
(* the map ppsAck.                                                         *)
EmptyDoc ==
  [tags |-> <<0, One>>, ch |-> [t \in {0, One} |-> Nul],
   ack |-> [t \in {0, One} |-> TRUE]]

DocOK(d) ==
  /\ DOMAIN d = {"tags", "ch", "ack"}
  /\ d.tags \in Seq(Tags)
  /\ d.ch \in [DOMAIN d.ch -> Nat] /\ DOMAIN d.ch \subseteq Tags
  /\ d.ack \in [DOMAIN d.ack -> BOOLEAN] /\ DOMAIN d.ack \subseteq Tags
  /\ \A k \in DOMAIN d.tags : d.tags[k] \in DOMAIN d.ch \cap DOMAIN d.ack

MapSet(m, t, v) == [u \in DOMAIN m \cup {t} |-> IF u = t THEN v ELSE m[u]]

(* Slip: pushed, and not sorted.                                           *)
PushUnsorted(tags, t) == Append(tags, t)

(* push() and sort().                                                      *)
Before(tags, t) == {k \in DOMAIN tags : Rank(tags[k]) < Rank(t)}
Push(tags, t) == Ext!InsertAt(tags, Cardinality(Before(tags, t)) + 1, t)

Shown(d, t) == d.ch[t] # Nul
CountShown(d) == Cardinality({k \in DOMAIN d.tags : Shown(d, d.tags[k])})

(* Slip: hidden tags count as well.                                        *)
IndexListed(d, t) == Cardinality(Before(d.tags, t))

(* PPS.index: how many characters are shown before the tag, -1 if the tag  *)
(* is not in the list.                                                     *)
Index(d, t) ==
  IF \E k \in DOMAIN d.tags : d.tags[k] = t
  THEN Cardinality({k \in Before(d.tags, t) : Shown(d, d.tags[k])})
  ELSE -1

(* PPS.piece(0, 1): the shown characters up to the first '1' in the list.  *)
ShownUpTo(d, k) == Cardinality({j \in 1..k : Shown(d, d.tags[j])})
Piece(d) ==
  [i \in 1..ShownUpTo(d, Cardinality(Before(d.tags, One)) + 1) |->
     d.ch[d.tags[CHOOSE k \in DOMAIN d.tags : Shown(d, d.tags[k]) /\ ShownUpTo(d, k) = i]]]

(* Slip: one too early.                                                    *)
DeleteTagBefore(d, pos) == d.tags[pos]

(* PPS.delete(pos), pos > 0: the loop counts shown characters; the count   *)
(* is then used as an index into the list of all tags.                     *)
Deletable(d, pos) == pos <= CountShown(d)
DeleteTag(d, pos) == d.tags[pos + 1]

(* Slip: the tags are to be sent, and still shown.                         *)
HideShown(d, gone) == [d EXCEPT !.ack = [t \in DOMAIN @ |-> @[t] /\ t \notin gone]]

(* PPS.hide, of each of these tags.                                        *)
Hide(d, gone) ==
  [d EXCEPT !.ch = [t \in DOMAIN @ |-> IF t \in gone THEN Nul ELSE @[t]],
            !.ack = [t \in DOMAIN @ |-> @[t] /\ t \notin gone]]

-----------------------------------------------------------------------------
(***************************************************************************)
(* PPS.insert(pos, ch).  The k-th and (k+1)-st tags are the neighbours; k  *)
(* is again a count of shown characters used as an index.                  *)
(***************************************************************************)
Neighbour(d, pos) == (IF pos <= CountShown(d) THEN pos ELSE CountShown(d)) + 1

(* The nearest acknowledged tags beyond the neighbours.                    *)
Acked(d, from, to) == {i \in from..to : d.ack[d.tags[i]]}
AckedBefore(d, k) == d.tags[Ext!Max(Acked(d, 1, k - 1))]
AckedAfter(d, k) == d.tags[Ext!Min(Acked(d, k + 2, Len(d.tags)))]

(* Slips: from the acknowledged tag instead of the neighbour, and from the *)
(* neighbour instead of the acknowledged tag.                              *)
LeftFromAcked(d, k, index, n) ==
  LET l == d.tags[k]   r == d.tags[k + 1]
  IN  IF ~ d.ack[l] THEN AckedBefore(d, k) * n
      ELSE l * n + index * ((IF d.ack[r] THEN r ELSE AckedAfter(d, k)) - l)
RightFromNeighbour(d, k, index, n) ==
  LET l == d.tags[k]   r == d.tags[k + 1]
  IN  IF ~ d.ack[r] THEN r * n ELSE l * n + (index + 1) * (r - l)

(* The interval of tags shared out among the clients, its ends times n.    *)
Left(d, k, index, n) ==
  LET l == d.tags[k]   r == d.tags[k + 1]
  IN  IF ~ d.ack[l] THEN l * n
      ELSE l * n + index * ((IF d.ack[r] THEN r ELSE AckedAfter(d, k)) - l)

Right(d, k, index, n) ==
  LET l == d.tags[k]   r == d.tags[k + 1]
      from == IF d.ack[l] THEN l ELSE AckedBefore(d, k)
  IN  IF ~ d.ack[r] THEN r * n
      ELSE from * n + (index + 1) * (r - from)

(* Half way between the two, in whole units.                               *)
Sum(d, pos, index, n) ==
  LET k == Neighbour(d, pos)
  IN  Left(d, k, index, n) + Right(d, k, index, n)
Whole(d, pos, index, n) == Sum(d, pos, index, n) % (2 * n) = 0
NewTag(d, pos, index, n) == Sum(d, pos, index, n) \div (2 * n)

(* Big('null') throws, and so does an acknowledged tag that is not there.  *)
Throws(d, pos) ==
  LET k == Neighbour(d, pos)
  IN  \/ d.tags[k + 1] = NullTag
      \/ /\ d.ack[d.tags[k]] /\ ~ d.ack[d.tags[k + 1]]
         /\ \A i \in Acked(d, k + 2, Len(d.tags)) : d.tags[i] = NullTag

(* Slip: the character is not noted.                                       *)
AddUnset(d, t, c) ==
  [d EXCEPT !.tags = Push(@, t), !.ack = MapSet(@, t, FALSE)]

(* PPS.add: an existing tag gets the new character, and is listed twice.   *)
Add(d, t, c) ==
  [tags |-> Push(d.tags, t), ch |-> MapSet(d.ch, t, c), ack |-> MapSet(d.ack, t, FALSE)]

-----------------------------------------------------------------------------
(***************************************************************************)
(* PPS.attach(tag, ch): a change of another guest goes into the document   *)
(* and into the text of the editor.  A page is a pair of the two.          *)
(***************************************************************************)
(* The editor's own operations (trix).                                     *)
TextInsert(text, pos, c) ==
  Ext!InsertAt(text, (IF pos <= Len(text) THEN pos ELSE Len(text)) + 1, c)
TextRemove(text, from, to) ==
  SubSeq(text, 1, from) \o SubSeq(text, to + 1, Len(text))

(* Slip: the next character.                                               *)
TextDeleteNext(text, pos, clamps) ==
  IF pos \in 0..(Len(text) - 2) THEN TextRemove(text, pos + 1, pos + 2) ELSE text

(* With a position beyond the end of its text the editor either goes to    *)
(* the end or stays without a selection: then nothing is deleted.          *)
TextDelete(text, pos, clamps) ==
  IF pos \in 0..(Len(text) - 1) THEN TextRemove(text, pos, pos + 1)
  ELSE IF pos >= 0 /\ clamps /\ text # <<>> THEN TextRemove(text, Len(text) - 1, Len(text))
  ELSE text

Attach(p, t, c, clamps) ==
  LET d == [p.doc EXCEPT !.ch = MapSet(@, t, c), !.ack = MapSet(@, t, TRUE),
                         !.tags = IF c = Nul THEN @ ELSE Push(@, t)]
  IN  [doc |-> d,
       text |-> IF c = Nul THEN TextDelete(p.text, Index(p.doc, t), clamps)
                ELSE TextInsert(p.text, Index(d, t), c)]

(* The changes of a heartbeat's answer, one after the other.               *)
AttachAll(p, changes, clamps) ==
  LET page[k \in 0..Len(changes)] ==
        IF k = 0 THEN p
        ELSE Attach(page[k - 1], changes[k].tag, changes[k].ch, clamps)
  IN  page[Len(changes)]
=============================================================================
