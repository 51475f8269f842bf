------------------------------ MODULE PpsProofs ------------------------------
(***************************************************************************)
(* The list of tags and its maps: what a push, a new tag and the attaching *)
(* of a whole answer do to them.                                           *)
(***************************************************************************)
EXTENDS Pps, FiniteSetTheorems, SequenceTheorems, WellFoundedInduction, TLAPS

-----------------------------------------------------------------------------
(***************************************************************************)
(* Induction up to a number, and the greatest and least of some numbers.   *)
(***************************************************************************)
(* A nonempty set of naturals has a least element ...                      *)
LEMMA Least ==
  ASSUME NEW S, S \subseteq Nat, S # {}
  PROVE  \E m \in S : \A i \in S : m <= i
<1> DEFINE R == OpToRel(<, Nat)
<1>1. PICK m \in S : \A i \in S : <<i, m>> \notin R
  <2>1. IsWellFoundedOn(R, Nat)
    BY NatLessThanWellFounded
  <2> HIDE DEF R
  <2> QED
    BY <2>1, WFMin
<1>2. \A x, y \in Nat : x < y => <<x, y>> \in R
  BY DEF OpToRel
<1>3. \A i \in S : ~ (i < m)
  BY <1>1, <1>2
<1> QED
  BY <1>3

(* ... and one that is bounded has a greatest.                             *)
LEMMA Greatest ==
  ASSUME NEW n \in Nat, NEW S, S \subseteq 0..n, S # {}
  PROVE  \E m \in S : \A i \in S : i <= m
<1> DEFINE T == {n - i : i \in S}
<1>1. T \subseteq Nat /\ T # {}
  <2>1. \A i \in S : n - i \in Nat
    OBVIOUS
  <2> QED
    BY <2>1
<1>2. PICK x \in T : \A y \in T : x <= y
  <2> HIDE DEF T
  <2> QED
    BY <1>1, Least
<1>3. PICK m \in S : x = n - m
  OBVIOUS
<1>4. ASSUME NEW i \in S PROVE i <= m
  <2>1. n - m <= n - i
    BY <1>2, <1>3
  <2> QED
    BY <2>1
<1> QED
  BY <1>4

(* What holds of 0, and of k + 1 if of k, holds up to n.                    *)
LEMMA Induction ==
  ASSUME NEW n \in Nat, NEW S, 0 \in S, \A k \in 0..n : k \in S /\ k + 1 <= n => k + 1 \in S
  PROVE  0..n \subseteq S
<1> DEFINE T == (0..n) \ S
<1> SUFFICES ASSUME T # {} PROVE FALSE
  OBVIOUS
<1>1. PICK m \in T : \A i \in T : m <= i
  <2>1. T \subseteq Nat
    OBVIOUS
  <2> HIDE DEF T
  <2> QED
    BY <2>1, Least
<1>2. m \in 1..n
  OBVIOUS
<1>3. m - 1 \in 0..n /\ m - 1 \in S
  BY <1>1, <1>2
<1>4. (m - 1) + 1 = m
  BY <1>2
<1> QED
  BY <1>2, <1>3, <1>4

(* The values of a function on a finite set are finitely many.             *)
LEMMA ImageFinite ==
  ASSUME NEW S, IsFiniteSet(S), NEW f, f = [x \in S |-> f[x]]
  PROVE  IsFiniteSet({f[x] : x \in S})
<1> DEFINE T == {f[x] : x \in S}
<1>1. f \in Surjection(S, T)
  BY DEF Surjection
<1> HIDE DEF T
<1>2. IsFiniteSet(T)
  BY <1>1, FS_Surjection
<1> QED
  BY <1>2 DEF T

-----------------------------------------------------------------------------
(***************************************************************************)
(* Attaching change after change.                                          *)
(***************************************************************************)
(* A document with its two maps, which cover the same tags.                *)
Mapped(d) ==
  /\ d = [tags |-> d.tags, ch |-> d.ch, ack |-> d.ack]
  /\ DOMAIN d.ch = DOMAIN d.ack
  /\ d.ack \in [DOMAIN d.ack -> BOOLEAN]

(* What is not acknowledged in e was not in d, and has the same character. *)
Overtaken(d, e) ==
  \A t \in DOMAIN e.ack : ~ e.ack[t] =>
    t \in DOMAIN d.ack /\ ~ d.ack[t] /\ e.ch[t] = d.ch[t]

(* The page after each of the changes.                                     *)
Attached(p, changes, clamps, page) ==
  /\ page[0] = p
  /\ \A k \in 1..Len(changes) :
       page[k] = Attach(page[k - 1], changes[k].tag, changes[k].ch, clamps)

(* AttachAll attaches them one after the other.                            *)
LEMMA AttachAllRuns ==
  ASSUME NEW p, NEW S, NEW changes \in Seq(S), NEW clamps
  PROVE  \E page : /\ Attached(p, changes, clamps, page)
                   /\ AttachAll(p, changes, clamps) = page[Len(changes)]
<1> DEFINE n == Len(changes)
           Step(f, k) == IF k = 0 THEN p
                         ELSE Attach(f[k - 1], changes[k].tag, changes[k].ch, clamps)
           All(f) == f = [k \in 0..n |-> Step(f, k)]
           UpTo(f, m) == /\ f = [k \in 0..n |-> f[k]]
                         /\ \A k \in 0..m : f[k] = Step(f, k)
           Reached == {m \in 0..n : \E f : UpTo(f, m)}
<1>1. n \in Nat
  OBVIOUS
<1>2. 0 \in Reached
  <2> DEFINE f == [k \in 0..n |-> p]
  <2>1. f = [k \in 0..n |-> f[k]] /\ \A k \in 0..0 : f[k] = p /\ k = 0
    BY <1>1
  <2>2. UpTo(f, 0)
    <3> HIDE DEF f
    <3> QED
      BY <2>1
  <2> HIDE DEF UpTo
  <2> QED
    BY <1>1, <2>2
<1>3. ASSUME NEW m \in 0..n, m \in Reached, m + 1 <= n PROVE m + 1 \in Reached
  <2>1. PICK f : UpTo(f, m)
    BY <1>3
  <2> DEFINE g == [k \in 0..n |-> IF k = m + 1 THEN Step(f, m + 1) ELSE f[k]]
  <2>2. /\ g = [k \in 0..n |-> g[k]] /\ g[m + 1] = Step(f, m + 1)
        /\ \A k \in 0..m : g[k] = f[k]
    <3>1. m + 1 \in 0..n /\ \A k \in 0..m : k # m + 1 /\ k \in 0..n
      BY <1>1, <1>3
    <3> HIDE DEF Step, UpTo, Reached
    <3> QED
      BY <1>1, <3>1
  <2>3. \A k \in 0..(m + 1) : Step(g, k) = Step(f, k)
    <3> HIDE DEF g
    <3>1. \A k \in 0..(m + 1) : k = 0 \/ k - 1 \in 0..m
      BY <1>1
    <3>2. \A k \in 0..(m + 1) : k = 0 \/ g[k - 1] = f[k - 1]
      BY <2>2, <3>1
    <3> QED
      BY <3>2
  <2>4. \A k \in 0..(m + 1) : k \in 0..m \/ k = m + 1
    BY <1>1
  <2>5. UpTo(g, m + 1)
    <3> HIDE DEF g, Step
    <3> QED
      BY <2>1, <2>2, <2>3, <2>4
  <2> HIDE DEF UpTo
  <2> QED
    BY <1>1, <1>3, <2>5
<1>4. n \in Reached
  <2> HIDE DEF Reached
  <2>1. \A m \in 0..n : m \in Reached /\ m + 1 <= n => m + 1 \in Reached
    BY <1>3
  <2>2. 0..n \subseteq Reached
    BY <1>1, <1>2, <2>1, Induction
  <2> QED
    BY <1>1, <2>2
<1>5. PICK f : All(f)
  <2>1. PICK f : UpTo(f, n)
    BY <1>4
  <2>2. All(f)
    <3> HIDE DEF Step
    <3> QED
      BY <2>1
  <2> QED
    BY <2>2
<1> DEFINE page == CHOOSE g : All(g)
<1>6. All(page)
  <2> HIDE DEF All
  <2> QED
    BY <1>5
<1>7. AttachAll(p, changes, clamps) = page[n]
  BY DEF AttachAll
<1>8. Attached(p, changes, clamps, page)
  <2> HIDE DEF page
  <2>1. \A k \in 0..n : page[k] = Step(page, k)
    <3> HIDE DEF Step
    <3> QED
      BY <1>6
  <2> QED
    BY <1>1, <2>1 DEF Attached
<1> HIDE DEF page
<1> QED
  BY <1>7, <1>8

(* No changes, no change.                                                  *)
LEMMA AttachAllNothing ==
  ASSUME NEW p, NEW clamps
  PROVE  AttachAll(p, <<>>, clamps) = p
<1>1. <<>> \in Seq({}) /\ Len(<<>>) = 0
  OBVIOUS
<1>2. PICK page : Attached(p, <<>>, clamps, page) /\ AttachAll(p, <<>>, clamps) = page[0]
  BY <1>1, AttachAllRuns
<1> QED
  BY <1>2 DEF Attached

(* A change that is attached is acknowledged from then on.                 *)
LEMMA AttachOvertakes ==
  ASSUME NEW p, NEW t, NEW c, NEW clamps, Mapped(p.doc)
  PROVE  /\ Mapped(Attach(p, t, c, clamps).doc)
         /\ Overtaken(p.doc, Attach(p, t, c, clamps).doc)
<1> DEFINE d == p.doc
           e == Attach(p, t, c, clamps).doc
<1>1. /\ e = [tags |-> e.tags, ch |-> e.ch, ack |-> e.ack]
      /\ e.ch = MapSet(d.ch, t, c) /\ e.ack = MapSet(d.ack, t, TRUE)
  BY DEF Attach, Mapped
<1> HIDE DEF d, e
<1>2. Mapped(d)
  BY DEF d
<1>3. /\ DOMAIN e.ch = DOMAIN d.ch \cup {t} /\ DOMAIN e.ack = DOMAIN d.ack \cup {t}
      /\ e.ack = [u \in DOMAIN d.ack \cup {t} |-> IF u = t THEN TRUE ELSE d.ack[u]]
      /\ \A u \in DOMAIN d.ch : u # t => e.ch[u] = d.ch[u]
  BY <1>1 DEF MapSet
<1>4. Mapped(e)
  <2>1. DOMAIN d.ch = DOMAIN d.ack /\ \A u \in DOMAIN d.ack : d.ack[u] \in BOOLEAN
    BY <1>2 DEF Mapped
  <2>2. DOMAIN e.ch = DOMAIN e.ack
    BY <1>3, <2>1
  <2>3. e.ack \in [DOMAIN e.ack -> BOOLEAN]
    <3> DEFINE f == e.ack
    <3>1. f = [u \in DOMAIN d.ack \cup {t} |-> IF u = t THEN TRUE ELSE d.ack[u]]
      BY <1>3
    <3> HIDE DEF f
    <3>2. f \in [DOMAIN d.ack \cup {t} -> BOOLEAN] /\ DOMAIN f = DOMAIN d.ack \cup {t}
      BY <2>1, <3>1
    <3>3. f \in [DOMAIN f -> BOOLEAN]
      BY <3>2
    <3> QED
      BY <3>3 DEF f
  <2> QED
    BY <1>1, <2>2, <2>3 DEF Mapped
<1>5. Overtaken(d, e)
  BY <1>2, <1>3 DEF Mapped, Overtaken
<1> QED
  BY <1>4, <1>5 DEF d, e

(* The same of all the changes of an answer.                               *)
LEMMA AttachAllOvertakes ==
  ASSUME NEW p, NEW S, NEW changes \in Seq(S), NEW clamps, Mapped(p.doc)
  PROVE  /\ Mapped(AttachAll(p, changes, clamps).doc)
         /\ Overtaken(p.doc, AttachAll(p, changes, clamps).doc)
<1>1. PICK page : /\ Attached(p, changes, clamps, page)
                  /\ AttachAll(p, changes, clamps) = page[Len(changes)]
  BY AttachAllRuns
<1> DEFINE n == Len(changes)
           Good == {k \in 0..n : Mapped(page[k].doc) /\ Overtaken(p.doc, page[k].doc)}
<1>2. n \in Nat
  OBVIOUS
<1>3. 0 \in Good
  BY <1>1, <1>2 DEF Attached, Overtaken
<1>4. ASSUME NEW k \in 0..n, k \in Good, k + 1 <= n PROVE k + 1 \in Good
  <2> DEFINE x == changes[k + 1]
  <2>1. k + 1 \in 1..n /\ (k + 1) - 1 = k
    BY <1>2, <1>4
  <2>2. page[k + 1] = Attach(page[k], x.tag, x.ch, clamps)
    BY <1>1, <2>1 DEF Attached
  <2>3. Mapped(page[k].doc) /\ Overtaken(p.doc, page[k].doc)
    BY <1>4
  <2>4. Mapped(page[k + 1].doc) /\ Overtaken(page[k].doc, page[k + 1].doc)
    BY <2>2, <2>3, AttachOvertakes
  <2>5. Overtaken(p.doc, page[k + 1].doc)
    BY <2>3, <2>4 DEF Overtaken
  <2> QED
    BY <2>1, <2>4, <2>5
<1>5. n \in Good
  <2> HIDE DEF Good
  <2>1. \A k \in 0..n : k \in Good /\ k + 1 <= n => k + 1 \in Good
    BY <1>4
  <2>2. 0..n \subseteq Good
    BY <1>2, <1>3, <2>1, Induction
  <2> QED
    BY <1>2, <2>2
<1> QED
  BY <1>1, <1>5

-----------------------------------------------------------------------------
(***************************************************************************)
(* What a page changes itself it notes as pending.                         *)
(***************************************************************************)
(* What is not acknowledged in e is the character noted in q, or was there *)
(* in d and is noted in q as in p.                                         *)
Noted(d, e, p, q) ==
  \A t \in DOMAIN e.ack \ {NullTag} : ~ e.ack[t] =>
    \/ t \in DOMAIN q /\ e.ch[t] = q[t]
    \/ /\ t \in DOMAIN d.ack /\ ~ d.ack[t] /\ e.ch[t] = d.ch[t]
       /\ t \in DOMAIN q <=> t \in DOMAIN p
       /\ t \in DOMAIN p => q[t] = p[t]

(* A tag that is added and noted.                                          *)
LEMMA AddNotes ==
  ASSUME NEW d, Mapped(d), NEW t, NEW c, NEW p
  PROVE  Mapped(Add(d, t, c)) /\ Noted(d, Add(d, t, c), p, MapSet(p, t, c))
<1> DEFINE e == Add(d, t, c)   q == MapSet(p, t, c)
<1>1. /\ e = [tags |-> e.tags, ch |-> e.ch, ack |-> e.ack]
      /\ e.ch = MapSet(d.ch, t, c) /\ e.ack = MapSet(d.ack, t, FALSE)
  BY DEF Add
<1>2. DOMAIN q = DOMAIN p \cup {t} /\ \A u \in DOMAIN q : q[u] = IF u = t THEN c ELSE p[u]
  BY DEF MapSet
<1> HIDE DEF e, q
<1>3. /\ DOMAIN e.ch = DOMAIN d.ch \cup {t} /\ DOMAIN e.ack = DOMAIN d.ack \cup {t}
      /\ \A u \in DOMAIN d.ack \cup {t} : e.ack[u] = IF u = t THEN FALSE ELSE d.ack[u]
      /\ \A u \in DOMAIN d.ch \cup {t} : e.ch[u] = IF u = t THEN c ELSE d.ch[u]
  BY <1>1 DEF MapSet
<1>4. DOMAIN d.ch = DOMAIN d.ack /\ \A u \in DOMAIN d.ack : d.ack[u] \in BOOLEAN
  BY DEF Mapped
<1>5. Mapped(e)
  <2>1. e.ack \in [DOMAIN d.ack \cup {t} -> BOOLEAN]
    BY <1>1, <1>4 DEF MapSet
  <2> QED
    BY <1>1, <1>3, <1>4, <2>1 DEF Mapped
<1>6. Noted(d, e, p, q)
  BY <1>2, <1>3, <1>4 DEF Noted
<1> QED
  BY <1>5, <1>6 DEF e, q

(* Tags that are hidden and noted.                                         *)
LEMMA HideNotes ==
  ASSUME NEW d, Mapped(d), NEW gone, NEW p
  PROVE  /\ Mapped(Hide(d, gone))
         /\ Noted(d, Hide(d, gone), p,
                  [t \in DOMAIN p \cup gone |-> IF t \in gone THEN Nul ELSE p[t]])
<1> DEFINE e == Hide(d, gone)
           q == [t \in DOMAIN p \cup gone |-> IF t \in gone THEN Nul ELSE p[t]]
<1>1. DOMAIN q = DOMAIN p \cup gone /\ \A u \in DOMAIN q : q[u] = IF u \in gone THEN Nul ELSE p[u]
  OBVIOUS
<1>2. /\ e = [tags |-> e.tags, ch |-> e.ch, ack |-> e.ack]
      /\ e.ch = [u \in DOMAIN d.ch |-> IF u \in gone THEN Nul ELSE d.ch[u]]
      /\ e.ack = [u \in DOMAIN d.ack |-> d.ack[u] /\ u \notin gone]
  <2> DEFINE ch == [u \in DOMAIN d.ch |-> IF u \in gone THEN Nul ELSE d.ch[u]]
             ack == [u \in DOMAIN d.ack |-> d.ack[u] /\ u \notin gone]
  <2>1. e = [d EXCEPT !.ch = ch, !.ack = ack]
    BY DEF Hide
  <2> HIDE DEF e, ch, ack
  <2>2. d = [tags |-> d.tags, ch |-> d.ch, ack |-> d.ack]
    BY DEF Mapped
  <2>3. e = [tags |-> e.tags, ch |-> e.ch, ack |-> e.ack] /\ e.ch = ch /\ e.ack = ack
    BY <2>1, <2>2
  <2> QED
    BY <2>3 DEF ch, ack
<1> HIDE DEF e, q
<1>3. /\ DOMAIN e.ch = DOMAIN d.ch /\ DOMAIN e.ack = DOMAIN d.ack
      /\ \A u \in DOMAIN d.ack : e.ack[u] = (d.ack[u] /\ u \notin gone)
      /\ \A u \in DOMAIN d.ch : e.ch[u] = IF u \in gone THEN Nul ELSE d.ch[u]
  BY <1>2
<1>4. DOMAIN d.ch = DOMAIN d.ack /\ \A u \in DOMAIN d.ack : d.ack[u] \in BOOLEAN
  BY DEF Mapped
<1>5. Mapped(e)
  <2>1. e.ack \in [DOMAIN d.ack -> BOOLEAN]
    BY <1>2, <1>4
  <2> QED
    BY <1>2, <1>3, <1>4, <2>1 DEF Mapped
<1>6. Noted(d, e, p, q)
  BY <1>1, <1>3, <1>4 DEF Noted
<1> QED
  BY <1>5, <1>6 DEF e, q

(* A change without a place.                                               *)
LEMMA NullNotes ==
  ASSUME NEW d, Mapped(d), NEW c, NEW p
  PROVE  Noted(d, d, p, MapSet(p, NullTag, c))
BY DEF Noted, MapSet

(* What others have overtaken, or have not touched.                        *)
LEMMA OvertakenNotes ==
  ASSUME NEW d, NEW e, Overtaken(d, e), NEW p
  PROVE  Noted(d, e, p, p)
BY DEF Noted, Overtaken

-----------------------------------------------------------------------------
(***************************************************************************)
(* Putting something into a sequence.                                      *)
(***************************************************************************)
(* The elements before the place stay, those from it on move by one.       *)
LEMMA InsertAtIs ==
  ASSUME NEW S, NEW s \in Seq(S), NEW e \in S, NEW i \in 1..(Len(s) + 1)
  PROVE  LET r == Ext!InsertAt(s, i, e)
         IN  /\ r \in Seq(S) /\ Len(r) = Len(s) + 1
             /\ \A k \in 1..(i - 1) : r[k] = s[k]
             /\ r[i] = e
             /\ \A k \in i..Len(s) : r[k + 1] = s[k]
<1> DEFINE a == SubSeq(s, 1, i - 1)   b == SubSeq(s, i, Len(s))   n == Len(s)
<1>1. n \in Nat /\ i \in 1..(n + 1)
  OBVIOUS
<1>2. a \in Seq(S) /\ Len(a) = i - 1 /\ \A k \in 1..(i - 1) : a[k] = s[k]
  OBVIOUS
<1>3. b \in Seq(S) /\ Len(b) = n - i + 1 /\ \A k \in 1..(n - i + 1) : b[k] = s[i + k - 1]
  <2>1. b \in Seq(S) /\ Len(b) = n - i + 1
    OBVIOUS
  <2>2. \A k \in 1..(n - i + 1) : b[k] = s[i + k - 1]
    OBVIOUS
  <2> QED
    BY <2>1, <2>2
<1> DEFINE m == a \o <<e>>
<1> HIDE DEF a, b, n
<1>4. /\ m \in Seq(S) /\ Len(m) = i /\ m[i] = e
      /\ \A k \in 1..(i - 1) : m[k] = a[k]
  BY <1>1, <1>2
<1> DEFINE r == m \o b
<1> HIDE DEF m
<1>5. r \in Seq(S) /\ Len(r) = n + 1
  <2>1. r \in Seq(S) /\ Len(r) = Len(m) + Len(b)
    <3> HIDE DEF r
    <3>1. r = m \o b
      BY DEF r
    <3> QED
      BY <1>3, <1>4, <3>1, ConcatProperties
  <2> QED
    BY <1>1, <1>3, <1>4, <2>1
<1>6. \A k \in 1..i : r[k] = m[k]
  BY <1>1, <1>3, <1>4
<1>7. ASSUME NEW k \in i..n PROVE r[k + 1] = s[k]
  <2>1. r[k + 1] = b[k + 1 - i]
    <3>1. \A j \in 1..(Len(m) + Len(b)) : (m \o b)[j] = IF j <= Len(m) THEN m[j] ELSE b[j - Len(m)]
      BY <1>3, <1>4, ConcatProperties
    <3>2. k + 1 \in 1..(Len(m) + Len(b)) /\ ~ k + 1 <= Len(m)
      BY <1>1, <1>3, <1>4
    <3> QED
      BY <1>4, <3>1, <3>2
  <2>2. k + 1 - i \in 1..(n - i + 1) /\ i + (k + 1 - i) - 1 = k
    BY <1>1
  <2> QED
    BY <1>3, <2>1, <2>2
<1>8. r = Ext!InsertAt(s, i, e)
  BY DEF r, m, a, b, n, Ext!InsertAt
<1> HIDE DEF r
<1>9. \A k \in 1..(i - 1) : r[k] = s[k]
  BY <1>1, <1>2, <1>4, <1>6
<1>10. r[i] = e
  BY <1>1, <1>4, <1>6
<1> QED
  BY <1>5, <1>7, <1>8, <1>9, <1>10 DEF n

(* A piece of a text may be taken out.                                     *)
LEMMA TextRemoveIs ==
  ASSUME NEW S, NEW s \in Seq(S), NEW i \in 0..Len(s), NEW j \in i..Len(s)
  PROVE  /\ TextRemove(s, i, j) \in Seq(S)
         /\ Len(TextRemove(s, i, j)) = Len(s) - (j - i)
<1> DEFINE a == SubSeq(s, 1, i)   b == SubSeq(s, j + 1, Len(s))
<1>1. a \in Seq(S) /\ Len(a) = i
  OBVIOUS
<1>2. b \in Seq(S) /\ Len(b) = Len(s) - j
  OBVIOUS
<1>3. TextRemove(s, i, j) = a \o b
  BY DEF TextRemove
<1> HIDE DEF a, b
<1>4. a \o b \in Seq(S) /\ Len(a \o b) = i + (Len(s) - j)
  BY <1>1, <1>2, ConcatProperties
<1>5. i + (Len(s) - j) = Len(s) - (j - i)
  <2>1. Len(s) \in Nat
    OBVIOUS
  <2> QED
    BY <2>1
<1> QED
  BY <1>3, <1>4, <1>5

-----------------------------------------------------------------------------
(***************************************************************************)
(* The list of tags is sorted by rank.                                     *)
(***************************************************************************)
Ranked(tags) ==
  \A i, j \in DOMAIN tags : i < j => Rank(tags[i]) <= Rank(tags[j])

(* Ranks are naturals: that of 0 is the least, that of null the greatest.   *)
LEMMA RankIs ==
  /\ \A t \in Tags : Rank(t) \in Nat
  /\ \A t \in Tags \ {NullTag} : Rank(t) < Rank(NullTag)
  /\ Rank(0) = 0 /\ Rank(One) = One
  /\ \A t \in 1..NullTag : Rank(t) > 0
<1>1. One \in Nat /\ One >= 1 /\ NullTag = One + 1 /\ Tags = 0..NullTag
  <2>1. One \in Nat /\ One >= 1
    BY OneAssumption, SMT
  <2>2. NullTag = One + 1 /\ Tags = 0..NullTag
    BY Zenon DEF NullTag, Tags
  <2> QED
    BY <2>1, <2>2
<1>2. \A t : /\ t = NullTag => Rank(t) = 3 * One
             /\ t # NullTag /\ Tiny(t) => Rank(t) = One + t
             /\ t # NullTag /\ ~ Tiny(t) => Rank(t) = t
  BY DEF Rank
<1>3. /\ \A t \in Tags : Tiny(t) => 0 < t /\ t < One
      /\ ~ Tiny(0) /\ ~ Tiny(One)
  <2>1. \A t \in Tags : t <= (One - 1) \div 1000000 => t < One
    BY <1>1, SMT
  <2>2. ~ One <= (One - 1) \div 1000000
    BY <1>1, SMT
  <2>3. ~ 0 < 0
    OBVIOUS
  <2> QED
    BY <2>1, <2>2, <2>3 DEF Tiny
<1>4. \A t \in Tags : t \in Nat
  BY <1>1
<1>5. \A t \in Tags : Rank(t) \in Nat
  BY <1>1, <1>2, <1>4, SMT
<1>6. \A t \in Tags \ {NullTag} : Rank(t) < Rank(NullTag)
  <2>1. \A t \in Tags \ {NullTag} : t <= One
    BY <1>1
  <2> QED
    BY <1>1, <1>2, <1>3, <1>4, <2>1, SMT
<1>7. Rank(0) = 0 /\ Rank(One) = One
  BY <1>1, <1>2, <1>3, SMT
<1>8. \A t \in 1..NullTag : Rank(t) > 0
  BY <1>1, <1>2, <1>3, SMT
<1> QED
  BY <1>5, <1>6, <1>7, <1>8

(* The tags that sort before t are the first ones.                         *)
LEMMA BeforePrefix ==
  ASSUME NEW tags \in Seq(Tags), Ranked(tags), NEW t \in Tags
  PROVE  \E m \in 0..Len(tags) : Before(tags, t) = 1..m /\ Cardinality(Before(tags, t)) = m
<1> DEFINE n == Len(tags)   B == Before(tags, t)
<1>1. n \in Nat /\ DOMAIN tags = 1..n
  OBVIOUS
<1>2. B \subseteq 1..n /\ \A k \in 1..n : k \in B <=> Rank(tags[k]) < Rank(t)
  BY <1>1 DEF Before
<1>3. \A k \in 1..n : Rank(tags[k]) \in Nat
  <2>1. \A k \in 1..n : tags[k] \in Tags
    OBVIOUS
  <2> QED
    BY <2>1, RankIs
<1>4. Rank(t) \in Nat
  BY RankIs
<1> HIDE DEF n, B
<1>5. \E m \in 0..n : B = 1..m
  <2>1. CASE B = {}
    <3>1. 1..0 = {} /\ 0 \in 0..n
      BY <1>1
    <3> QED
      BY <2>1, <3>1
  <2>2. CASE B # {}
    <3>1. PICK m \in B : \A i \in B : i <= m
      <4>1. B \subseteq 0..n
        BY <1>1, <1>2
      <4> QED
        BY <1>1, <2>2, <4>1, Greatest
    <3>2. ASSUME NEW k \in 1..m PROVE k \in B
      <4>1. k \in 1..n /\ m \in 1..n
        BY <1>1, <1>2
      <4>2. Rank(tags[k]) <= Rank(tags[m])
        BY <1>1, <1>3, <4>1 DEF Ranked
      <4>3. Rank(tags[m]) < Rank(t)
        BY <1>2, <3>1
      <4> QED
        BY <1>2, <1>3, <1>4, <4>1, <4>2, <4>3
    <3>3. m \in 0..n /\ B \subseteq 1..m
      BY <1>1, <1>2, <3>1
    <3> QED
      BY <3>2, <3>3
  <2> QED
    BY <2>1, <2>2
<1>6. PICK m \in 0..n : B = 1..m
  BY <1>5
<1>7. Cardinality(1..m) = m
  <2>1. m \in Int /\ 1 \in Int /\ m >= 0
    BY <1>1
  <2>2. Cardinality(1..m) = IF 1 > m THEN 0 ELSE m - 1 + 1
    BY <2>1, FS_Interval
  <2> QED
    BY <2>1, <2>2
<1> QED
  BY <1>6, <1>7 DEF n, B

(* push() and sort() put a tag before those that do not sort before it.    *)
LEMMA PushIs ==
  ASSUME NEW tags \in Seq(Tags), Ranked(tags), NEW t \in Tags
  PROVE  LET r == Push(tags, t)
         IN  /\ r \in Seq(Tags) /\ Len(r) = Len(tags) + 1 /\ Ranked(r)
             /\ \E m \in 0..Len(tags) :
                  /\ \A k \in 1..m : Rank(tags[k]) < Rank(t) /\ r[k] = tags[k]
                  /\ r[m + 1] = t
                  /\ \A k \in (m + 1)..Len(tags) : Rank(t) <= Rank(tags[k]) /\ r[k + 1] = tags[k]
<1> DEFINE n == Len(tags)   r == Push(tags, t)
<1>1. n \in Nat /\ DOMAIN tags = 1..n
  OBVIOUS
<1>2. PICK m \in 0..n : Before(tags, t) = 1..m /\ Cardinality(Before(tags, t)) = m
  BY BeforePrefix
<1>3. \A k \in 1..n : tags[k] \in Tags /\ Rank(tags[k]) \in Nat
  <2>1. \A k \in 1..n : tags[k] \in Tags
    OBVIOUS
  <2> QED
    BY <2>1, RankIs
<1>4. Rank(t) \in Nat
  BY RankIs
<1>5. r = Ext!InsertAt(tags, m + 1, t) /\ m + 1 \in 1..(Len(tags) + 1)
  BY <1>1, <1>2 DEF Push
<1> HIDE DEF r
<1>6. /\ r \in Seq(Tags) /\ Len(r) = n + 1
      /\ \A k \in 1..((m + 1) - 1) : r[k] = tags[k]
      /\ r[m + 1] = t
      /\ \A k \in (m + 1)..n : r[k + 1] = tags[k]
  <2>1. PICK i \in 1..(Len(tags) + 1) : i = m + 1
    BY <1>5
  <2>2. r = Ext!InsertAt(tags, i, t)
    BY <1>5, <2>1
  <2>3. /\ r \in Seq(Tags) /\ Len(r) = Len(tags) + 1
        /\ \A k \in 1..(i - 1) : r[k] = tags[k]
        /\ r[i] = t
        /\ \A k \in i..Len(tags) : r[k + 1] = tags[k]
    BY <2>2, InsertAtIs
  <2> QED
    BY <2>1, <2>3
<1> HIDE DEF n
<1>7. \A k \in 1..m : Rank(tags[k]) < Rank(t) /\ r[k] = tags[k] /\ k \in 1..n
  BY SMTT(30), <1>1, <1>2, <1>6 DEF Before
<1>8. \A k \in (m + 1)..n : Rank(t) <= Rank(tags[k]) /\ r[k + 1] = tags[k] /\ k \in 1..n
  <2>1. \A k \in (m + 1)..n : k \in 1..n /\ k \notin 1..m
    BY <1>1, <1>2
  <2>2. \A k \in 1..n : k \notin 1..m => ~ Rank(tags[k]) < Rank(t)
    BY <1>1, <1>2 DEF Before
  <2>3. \A k \in 1..n : k \notin 1..m => Rank(t) <= Rank(tags[k])
    BY <1>3, <1>4, <2>2
  <2> QED
    BY <1>6, <2>1, <2>3
<1>9. Ranked(r)
  <2> SUFFICES ASSUME NEW i \in 1..(n + 1), NEW j \in 1..(n + 1), i < j
               PROVE  Rank(r[i]) <= Rank(r[j])
    BY <1>6 DEF Ranked
  <2> DEFINE Old(k) == IF k <= m THEN k ELSE k - 1
  <2>1. ASSUME NEW k \in 1..(n + 1), k # m + 1
        PROVE  /\ Old(k) \in 1..n /\ r[k] = tags[Old(k)]
               /\ k <= m => Rank(r[k]) < Rank(t)
               /\ k > m => Rank(t) <= Rank(r[k])
               /\ Rank(r[k]) \in Nat
    <3>1. CASE k <= m
      <4>1. k \in 1..m
        BY <1>1, <3>1
      <4> QED
        BY <1>3, <1>7, <4>1
    <3>2. CASE k > m
      <4>1. k - 1 \in (m + 1)..n /\ (k - 1) + 1 = k /\ ~ k <= m
        BY <1>1, <2>1, <3>2
      <4> QED
        BY <1>3, <1>8, <4>1
    <3> QED
      BY <1>1, <3>1, <3>2
  <2>2. CASE i = m + 1
    BY <1>1, <1>6, <2>1, <2>2
  <2>3. CASE j = m + 1
    <3>1. i <= m /\ i # m + 1
      BY <1>1, <2>3
    <3> QED
      BY <1>4, <1>6, <2>1, <2>3, <3>1
  <2>4. CASE i # m + 1 /\ j # m + 1
    <3>1. Old(i) < Old(j)
      BY <1>1, <2>4
    <3> QED
      BY <1>1, <2>1, <2>4, <3>1 DEF Ranked
  <2> QED
    BY <2>2, <2>3, <2>4
<1> QED
  BY <1>6, <1>7, <1>8, <1>9 DEF n, r

-----------------------------------------------------------------------------
(***************************************************************************)
(* Between two tags, n times.                                              *)
(***************************************************************************)
LEMMA Times ==
  ASSUME NEW x \in Int, NEW y \in Int, NEW z \in Nat
  PROVE  /\ x * z \in Int /\ (x <= y => x * z <= y * z)
         /\ (x < y /\ z > 0 => x * z < y * z)
<1>1. x * z \in Int /\ y * z \in Int
  BY SMT
<1>2. x <= y => x * z <= y * z
  BY SMT
<1>3. x < y /\ z > 0 => x * z < y * z
  BY SMT
<1> QED
  BY <1>1, <1>2, <1>3

(* The i-th of n parts between a and b.                                    *)
LEMMA PartBetween ==
  ASSUME NEW o \in Nat, NEW n \in Nat, n > 0, NEW i \in 0..n, NEW a \in 0..o, NEW b \in 0..o
  PROVE  LET s == a * n + i * (b - a)
         IN  /\ s \in Int /\ 0 <= s /\ s <= o * n
             /\ (a < o /\ i < n => s < o * n)
             /\ (b < o /\ i > 0 => s < o * n)
             /\ (b > 0 /\ i > 0 => s > 0)
<1> DEFINE s == a * n + i * (b - a)   j == n - i   x == a * j   y == b * i
<1>1. j \in Nat /\ i \in Nat /\ a \in Int /\ b \in Int /\ o \in Int /\ n \in Int
  OBVIOUS
<1>2. s = x + y /\ o * n = o * j + o * i
  <2>1. a * n = a * j + a * i /\ o * n = o * j + o * i
    BY <1>1, SMT
  <2>2. i * (b - a) = b * i - a * i
    BY <1>1, SMT
  <2>3. a * n \in Int /\ a * j \in Int /\ a * i \in Int /\ b * i \in Int
    BY <1>1, SMT
  <2> HIDE DEF j
  <2> QED
    BY <2>1, <2>2, <2>3, SMT
<1> HIDE DEF s, j
<1>3. /\ x \in Int /\ o * j \in Int /\ 0 * j = 0 /\ 0 * j <= x /\ x <= o * j
      /\ a < o /\ j > 0 => x < o * j
  BY <1>1, Times
<1>4. /\ y \in Int /\ o * i \in Int /\ 0 * i = 0 /\ 0 * i <= y /\ y <= o * i
      /\ b < o /\ i > 0 => y < o * i
      /\ b > 0 /\ i > 0 => 0 * i < y
  BY <1>1, Times
<1>5. i < n => j > 0
  BY <1>1 DEF j
<1> HIDE DEF x, y
<1>6. s \in Int /\ 0 <= s /\ s <= o * n
  BY <1>2, <1>3, <1>4
<1>7. a < o /\ i < n => s < o * n
  BY <1>2, <1>3, <1>4, <1>5
<1>8. b < o /\ i > 0 => s < o * n
  BY <1>2, <1>3, <1>4
<1>9. b > 0 /\ i > 0 => s > 0
  BY <1>2, <1>3, <1>4
<1> QED
  BY <1>6, <1>7, <1>8, <1>9 DEF s

(* A sum of whole units is twice n times a tag.                            *)
LEMMA WholeIs ==
  ASSUME NEW n \in Nat, n > 0, NEW s \in Int, s % (2 * n) = 0
  PROVE  s \div (2 * n) \in Int /\ 2 * ((s \div (2 * n)) * n) = s
<1> DEFINE m == 2 * n   t == s \div m
<1>1. m \in Nat /\ m > 0
  OBVIOUS
<1>2. t \in Int /\ s = t * m + (s % m)
  <2> HIDE DEF m
  <2> QED
    BY <1>1, SMT
<1>3. t * m = 2 * (t * n)
  BY <1>2, SMT
<1> HIDE DEF t
<1> QED
  BY <1>2, <1>3 DEF t

-----------------------------------------------------------------------------
(***************************************************************************)
(* The documents there can be: the list is sorted and its tags are mapped; *)
(* 0 comes first and 1 is there once, and neither is ever a character.     *)
(***************************************************************************)
Listed(d) ==
  /\ d.tags \in Seq(Tags) /\ Ranked(d.tags)
  /\ \A k \in DOMAIN d.tags : d.tags[k] \in DOMAIN d.ch
Charred(d) ==
  /\ DOMAIN d.ch \subseteq Tags /\ d.ch = [t \in DOMAIN d.ch |-> d.ch[t]]
  /\ \A t \in DOMAIN d.ch : d.ch[t] \in Nat
  /\ {0, One} \subseteq DOMAIN d.ch /\ d.ch[0] = Nul /\ d.ch[One] = Nul /\ d.ack[0]
Ended(d) ==
  /\ Len(d.tags) >= 2 /\ d.tags[1] = 0
  /\ \A k \in 2..Len(d.tags) : d.tags[k] # 0
  /\ \E o \in 2..Len(d.tags) : \A k \in 1..Len(d.tags) : d.tags[k] = One <=> k = o
Proper(d) == Mapped(d) /\ Listed(d) /\ Charred(d) /\ Ended(d)

(* At least two tags of the list are not shown.                            *)
LEMMA CountShownBound ==
  ASSUME NEW d, Proper(d)
  PROVE  CountShown(d) \in 0..(Len(d.tags) - 2)
<1> DEFINE n == Len(d.tags)   K == {k \in 1..n : Shown(d, d.tags[k])}
<1>1. n \in Nat /\ n >= 2 /\ DOMAIN d.tags = 1..n
  BY DEF Proper, Listed, Ended
<1>2. PICK o \in 2..n : d.tags[o] = One
  BY DEF Proper, Ended
<1>3. 1 \notin K /\ o \notin K
  BY <1>1, <1>2 DEF Proper, Charred, Ended, Shown
<1>4. CountShown(d) = Cardinality(K)
  BY <1>1 DEF CountShown
<1> HIDE DEF n, K
<1> DEFINE A == 1..n   B == A \ {1}   C == B \ {o}
<1>5. IsFiniteSet(A) /\ Cardinality(A) = n
  <2>1. 1 \in Int /\ n \in Int
    BY <1>1
  <2>2. IsFiniteSet(A) /\ Cardinality(A) = IF 1 > n THEN 0 ELSE n - 1 + 1
    BY <2>1, FS_Interval
  <2> QED
    BY <1>1, <2>2
<1>6. 1 \in A /\ o \in B
  BY <1>1, <1>2
<1>7. IsFiniteSet(B) /\ Cardinality(B) = n - 1
  <2> HIDE DEF A
  <2> QED
    BY <1>5, <1>6, FS_RemoveElement
<1>8. IsFiniteSet(C) /\ Cardinality(C) = n - 1 - 1
  <2> HIDE DEF B
  <2> QED
    BY <1>6, <1>7, FS_RemoveElement
<1>9. K \subseteq C
  BY <1>3 DEF K
<1>10. IsFiniteSet(K) /\ Cardinality(K) <= Cardinality(C)
  <2> HIDE DEF C
  <2> QED
    BY <1>8, <1>9, FS_Subset
<1>11. Cardinality(K) \in Nat
  BY <1>10, FS_CardinalityType
<1> HIDE DEF C
<1> QED
  BY <1>1, <1>4, <1>8, <1>10, <1>11 DEF n

(* The place PPS.insert finds is between two tags of the list, ...         *)
LEMMA NeighbourIs ==
  ASSUME NEW d, Proper(d), NEW pos \in Nat
  PROVE  LET k == Neighbour(d, pos)
         IN  /\ k \in 1..(Len(d.tags) - 1) /\ k + 1 \in 2..Len(d.tags)
             /\ d.tags[k] \in DOMAIN d.ack /\ d.tags[k + 1] \in DOMAIN d.ack
             /\ Rank(d.tags[k]) <= Rank(d.tags[k + 1])
<1> DEFINE n == Len(d.tags)   k == Neighbour(d, pos)   m == CountShown(d)
<1>1. n \in Nat /\ n >= 2 /\ DOMAIN d.tags = 1..n
  BY DEF Proper, Listed, Ended
<1>2. m \in 0..(n - 2)
  BY CountShownBound
<1>3. k = (IF pos <= m THEN pos ELSE m) + 1
  BY DEF Neighbour
<1> HIDE DEF m, k, n
<1>4. k \in 1..(n - 1) /\ k + 1 \in 2..n /\ k \in 1..n /\ k + 1 \in 1..n /\ k < k + 1
  BY <1>1, <1>2, <1>3
<1>5. d.tags[k] \in DOMAIN d.ack /\ d.tags[k + 1] \in DOMAIN d.ack
  BY <1>1, <1>4 DEF Proper, Listed, Mapped
<1>6. Rank(d.tags[k]) <= Rank(d.tags[k + 1])
  BY <1>1, <1>4 DEF Proper, Listed, Ranked
<1> QED
  BY <1>4, <1>5, <1>6 DEF n, k

(* ... and beyond them are acknowledged tags.                              *)
LEMMA AckedBeforeIs ==
  ASSUME NEW d, Proper(d), NEW k \in 1..(Len(d.tags) - 1), ~ d.ack[d.tags[k]]
  PROVE  \E i \in Acked(d, 1, k - 1) :
           /\ AckedBefore(d, k) = d.tags[i] /\ i \in 1..(k - 1)
           /\ \A j \in Acked(d, 1, k - 1) : j <= i
<1> DEFINE n == Len(d.tags)   S == Acked(d, 1, k - 1)
<1>1. n \in Nat /\ k \in 1..(n - 1)
  BY DEF Proper, Listed, Ended
<1>2. d.tags[1] = 0 /\ d.ack[0]
  BY DEF Proper, Charred, Ended
<1>3. k # 1
  BY <1>2
<1>4. 1 \in 1..(k - 1)
  BY <1>1, <1>3
<1>5. 1 \in S /\ S \subseteq 1..(k - 1)
  BY <1>2, <1>4 DEF Acked
<1>6. AckedBefore(d, k) = d.tags[Ext!Max(S)]
  BY DEF AckedBefore
<1> HIDE DEF S, n
<1>7. S \subseteq 0..n /\ S \subseteq Int /\ S # {}
  BY <1>1, <1>5
<1>8. PICK m \in S : \A i \in S : i <= m
  BY <1>1, <1>7, Greatest
<1>9. \A y \in S : m >= y
  BY <1>7, <1>8
<1>10. /\ Ext!Max(S) \in S /\ \A y \in S : Ext!Max(S) >= y
  BY <1>8, <1>9 DEF Ext!Max
<1> DEFINE i == Ext!Max(S)
<1> HIDE DEF i
<1>11. i \in S /\ \A y \in S : y <= i
  BY <1>7, <1>10 DEF i
<1> QED
  BY <1>5, <1>6, <1>11 DEF i, S

(* ... and after them too, if there is one.                                 *)
LEMMA AckedAfterIs ==
  ASSUME NEW d, Proper(d), NEW k \in 1..(Len(d.tags) - 1), Acked(d, k + 2, Len(d.tags)) # {}
  PROVE  \E i \in Acked(d, k + 2, Len(d.tags)) :
           /\ AckedAfter(d, k) = d.tags[i] /\ i \in (k + 2)..Len(d.tags)
           /\ \A j \in Acked(d, k + 2, Len(d.tags)) : i <= j
<1> DEFINE n == Len(d.tags)   S == Acked(d, k + 2, n)
<1>1. n \in Nat /\ k \in 1..(n - 1)
  BY DEF Proper, Listed, Ended
<1>2. S \subseteq (k + 2)..n
  BY DEF Acked
<1>3. AckedAfter(d, k) = d.tags[Ext!Min(S)] /\ S # {}
  BY DEF AckedAfter
<1> HIDE DEF S, n
<1>4. S \subseteq Nat
  BY <1>1, <1>2
<1>5. PICK m \in S : \A i \in S : m <= i
  BY <1>3, <1>4, Least
<1>6. /\ Ext!Min(S) \in S /\ \A y \in S : Ext!Min(S) <= y
  BY <1>5 DEF Ext!Min
<1> QED
  BY <1>2, <1>3, <1>6 DEF S, n

(* The tags from 0 to 1 come before 'null'.                                *)
LEMMA NotAfter ==
  ASSUME NEW t \in Tags, NEW u \in Tags, Rank(t) <= Rank(u), u # NullTag
  PROVE  t \in 0..One
<1>1. Rank(u) < Rank(NullTag) /\ Rank(t) \in Nat /\ Rank(u) \in Nat /\ NullTag \in Tags
  <2>1. NullTag \in Tags
    BY OneAssumption, SMT DEF Tags, NullTag
  <2> QED
    BY <2>1, RankIs
<1>2. Rank(NullTag) \in Nat
  BY <1>1, RankIs
<1>3. t # NullTag
  BY <1>1, <1>2
<1> QED
  BY <1>3, OneAssumption, SMT DEF Tags, NullTag

(* A new tag is between 0 and 1, whatever the tags around it are.          *)
LEMMA NewTagBetween ==
  ASSUME NEW d, Proper(d), NEW pos \in Nat, ~ Throws(d, pos),
         NEW n \in Nat, NEW index \in 0..(n - 1), Whole(d, pos, index, n)
  PROVE  /\ NewTag(d, pos, index, n) \in 1..(One - 1)
         /\ 2 * (NewTag(d, pos, index, n) * n) = Sum(d, pos, index, n)
<1> DEFINE k == Neighbour(d, pos)   N == Len(d.tags)   l == d.tags[k]   r == d.tags[k + 1]
<1>0. n > 0
  OBVIOUS
<1>1. /\ N \in Nat /\ k \in 1..(N - 1) /\ k + 1 \in 2..N
      /\ l \in DOMAIN d.ack /\ r \in DOMAIN d.ack /\ Rank(l) <= Rank(r)
  <2>1. N \in Nat
    BY DEF Proper, Listed
  <2> HIDE DEF N
  <2>2. /\ k \in 1..(Len(d.tags) - 1) /\ k + 1 \in 2..Len(d.tags)
        /\ l \in DOMAIN d.ack /\ r \in DOMAIN d.ack /\ Rank(l) <= Rank(r)
    BY NeighbourIs
  <2> QED
    BY <2>1, <2>2 DEF N
<1>2. \A i \in 1..N : d.tags[i] \in Tags
  BY DEF Proper, Listed
<1>3. r # NullTag /\ (d.ack[l] /\ ~ d.ack[r] =>
                        \E i \in Acked(d, k + 2, N) : d.tags[i] # NullTag)
  BY DEF Throws
<1>4. One \in Nat /\ One > 0
  BY OneAssumption, SMT
<1>5. l \in 0..One /\ r \in 1..One /\ ~ (l = One /\ r = One)
  <2>1. l \in Tags /\ r \in Tags
    BY <1>1, <1>2
  <2>2. l \in 0..One
    BY <1>1, <1>3, <2>1, NotAfter
  <2>3. r \in 0..One
    <3>1. Rank(r) <= Rank(r)
      BY <2>1, RankIs
    <3> QED
      BY <1>3, <2>1, <3>1, NotAfter
  <2>4. r # 0
    BY <1>1 DEF Proper, Ended
  <2>5. ~ (l = One /\ r = One)
    <3>1. k \in 1..N /\ k + 1 \in 1..N /\ k # k + 1
      BY <1>1
    <3> QED
      BY <3>1 DEF Proper, Ended
  <2> QED
    BY <2>2, <2>3, <2>4, <2>5
<1>6. ASSUME d.ack[l], ~ d.ack[r] PROVE AckedAfter(d, k) \in 0..One
  <2>1. PICK i \in Acked(d, k + 2, N) : d.tags[i] # NullTag
    BY <1>3, <1>6
  <2>2. PICK m \in Acked(d, k + 2, N) :
          /\ AckedAfter(d, k) = d.tags[m] /\ m \in (k + 2)..N
          /\ \A j \in Acked(d, k + 2, N) : m <= j
    <3>1. Acked(d, k + 2, N) # {}
      BY <2>1
    <3> QED
      BY <1>1, <3>1, AckedAfterIs
  <2>3. m <= i /\ m \in 1..N /\ i \in 1..N
    <3>1. i \in (k + 2)..N
      BY <2>1 DEF Acked
    <3> QED
      BY <1>1, <2>2, <3>1
  <2>4. Rank(d.tags[m]) <= Rank(d.tags[i])
    <3>1. CASE m < i
      BY <2>3, <3>1 DEF Proper, Listed, Ranked
    <3>2. CASE m = i
      BY <1>2, <2>3, <3>2, RankIs
    <3> QED
      BY <2>3, <3>1, <3>2
  <2> QED
    BY <1>2, <2>1, <2>2, <2>3, <2>4, NotAfter
<1>7. ASSUME ~ d.ack[l] PROVE AckedBefore(d, k) \in 0..One
  <2>1. PICK m \in 1..(k - 1) : AckedBefore(d, k) = d.tags[m]
    BY <1>1, <1>7, AckedBeforeIs
  <2>2. m \in 1..N /\ k \in 1..N /\ m < k
    BY SMTT(30), <1>1
  <2>3. Rank(d.tags[m]) <= Rank(l)
    BY <2>2 DEF Proper, Listed, Ranked
  <2>4. l # NullTag
    <3>1. NullTag = One + 1
      BY DEF NullTag
    <3> QED
      BY <1>4, <1>5, <3>1
  <2>5. d.tags[m] \in Tags /\ l \in Tags
    BY <1>2, <2>2
  <2> QED
    BY <2>1, <2>3, <2>4, <2>5, NotAfter
<1> DEFINE L == Left(d, k, index, n)   R == Right(d, k, index, n)
<1> HIDE DEF k, N, l, r
<1>8. L \in Int /\ 0 <= L /\ L <= One * n /\ (l < One => L < One * n)
  <2>1. CASE ~ d.ack[l]
    <3>1. L = l * n
      BY <2>1 DEF Left, l
    <3>2. l \in Int /\ 0 \in Int /\ One \in Int /\ 0 * n = 0
      BY <1>4, <1>5
    <3> QED
      BY <1>0, <1>5, <3>1, <3>2, Times
  <2>2. CASE d.ack[l]
    <3> DEFINE b == IF d.ack[r] THEN r ELSE AckedAfter(d, k)
    <3>1. L = l * n + index * (b - l)
      BY <2>2 DEF Left, l, r
    <3>2. b \in 0..One /\ index \in 0..n /\ index < n
      BY <1>5, <1>6, <2>2
    <3> HIDE DEF b
    <3> QED
      BY <1>0, <1>4, <1>5, <3>1, <3>2, PartBetween
  <2> QED
    BY <2>1, <2>2
<1>9. R \in Int /\ 0 < R /\ R <= One * n /\ (r < One => R < One * n)
  <2>1. CASE ~ d.ack[r]
    <3>1. R = r * n
      BY <2>1 DEF Right, r
    <3>2. r \in Int /\ 0 \in Int /\ One \in Int /\ 0 * n = 0
      BY <1>4, <1>5
    <3> QED
      BY <1>0, <1>5, <3>1, <3>2, Times
  <2>2. CASE d.ack[r]
    <3> DEFINE a == IF d.ack[l] THEN l ELSE AckedBefore(d, k)
               i == index + 1
    <3>1. R = a * n + i * (r - a)
      BY <2>2 DEF Right, l, r
    <3>2. a \in 0..One /\ i \in 0..n /\ i > 0 /\ r \in 0..One /\ r > 0
      BY <1>5, <1>7
    <3> HIDE DEF a, i
    <3> QED
      BY <1>0, <1>4, <1>5, <3>1, <3>2, PartBetween
  <2> QED
    BY <2>1, <2>2
<1>10. Sum(d, pos, index, n) = L + R
  BY DEF Sum, k
<1> DEFINE s == Sum(d, pos, index, n)   t == NewTag(d, pos, index, n)
<1> HIDE DEF L, R
<1>11. s \in Int /\ 0 < s /\ s < 2 * (One * n)
  <2>1. One * n \in Int
    BY <1>4
  <2>2. l < One \/ r < One
    BY <1>4, <1>5
  <2> QED
    BY <1>8, <1>9, <1>10, <2>1, <2>2
<1>12. t \in Int /\ 2 * (t * n) = s
  <2>1. s % (2 * n) = 0 /\ t = s \div (2 * n)
    BY DEF Whole, NewTag
  <2> HIDE DEF s, t
  <2> QED
    BY <1>0, <1>11, <2>1, WholeIs
<1> HIDE DEF s, t
<1>13. 0 < t
  <2>1. ~ t <= 0
    <3>1. t <= 0 => t * n <= 0 * n
      BY <1>12, Times
    <3>2. 0 * n = 0 /\ t * n \in Int
      BY <1>12
    <3> QED
      BY <1>11, <1>12, <3>1, <3>2
  <2> QED
    BY <1>12, <2>1
<1>14. t < One
  <2>1. One <= t => One * n <= t * n
    BY <1>4, <1>12, Times
  <2>2. One * n \in Int /\ t * n \in Int
    BY <1>4, <1>12
  <2> QED
    BY <1>4, <1>11, <1>12, <2>1, <2>2
<1> QED
  BY <1>4, <1>12, <1>13, <1>14 DEF s, t

-----------------------------------------------------------------------------
(***************************************************************************)
(* Documents stay proper.                                                  *)
(***************************************************************************)
LEMMA PushEnded ==
  ASSUME NEW d, Proper(d), NEW t \in (1..NullTag) \ {One}, NEW e, e.tags = Push(d.tags, t)
  PROVE  /\ e.tags \in Seq(Tags) /\ Ranked(e.tags) /\ Ended(e)
         /\ \A k \in DOMAIN e.tags :
              e.tags[k] = t \/ \E j \in DOMAIN d.tags : e.tags[k] = d.tags[j]
         /\ \E k \in DOMAIN e.tags : e.tags[k] = t
<1> DEFINE tags == d.tags   n == Len(tags)   r == e.tags
<1>1. n \in Nat /\ n >= 2 /\ tags[1] = 0 /\ DOMAIN tags = 1..n
  BY DEF Proper, Listed, Ended
<1>2. t \in Tags /\ t \in Nat /\ t # 0 /\ t # One
  BY OneAssumption, SMT DEF Tags, NullTag
<1>3. /\ r \in Seq(Tags) /\ Len(r) = n + 1 /\ Ranked(r)
      /\ \E m \in 0..n :
           /\ \A k \in 1..m : Rank(tags[k]) < Rank(t) /\ r[k] = tags[k]
           /\ r[m + 1] = t
           /\ \A k \in (m + 1)..n : Rank(t) <= Rank(tags[k]) /\ r[k + 1] = tags[k]
  <2>1. tags \in Seq(Tags) /\ Ranked(tags) /\ r = Push(tags, t)
    BY DEF Proper, Listed
  <2>2. t \in Tags
    BY <1>2
  <2> HIDE DEF tags, r, n
  <2>3. LET q == Push(tags, t)
        IN  /\ q \in Seq(Tags) /\ Len(q) = Len(tags) + 1 /\ Ranked(q)
            /\ \E m \in 0..Len(tags) :
                 /\ \A k \in 1..m : Rank(tags[k]) < Rank(t) /\ q[k] = tags[k]
                 /\ q[m + 1] = t
                 /\ \A k \in (m + 1)..Len(tags) : Rank(t) <= Rank(tags[k]) /\ q[k + 1] = tags[k]
    BY <2>1, <2>2, PushIs
  <2> QED
    BY <2>1, <2>3 DEF n
<1>4. PICK m \in 0..n :
        /\ \A k \in 1..m : Rank(tags[k]) < Rank(t) /\ r[k] = tags[k]
        /\ r[m + 1] = t
        /\ \A k \in (m + 1)..n : Rank(t) <= Rank(tags[k]) /\ r[k + 1] = tags[k]
  BY <1>3
<1>5. PICK o \in 2..n : \A k \in 1..n : tags[k] = One <=> k = o
  BY DEF Proper, Ended
<1>6. \A k \in 2..n : tags[k] # 0
  BY DEF Proper, Ended
<1>7. Rank(t) > 0 /\ Rank(tags[1]) = 0
  BY <1>1, RankIs
<1> HIDE DEF tags, n, r
<1>8. m >= 1
  <2>1. m = 0 => Rank(t) <= Rank(tags[1])
    BY <1>1, <1>4
  <2>2. Rank(t) \in Nat
    BY <1>2, RankIs
  <2> QED
    BY <1>1, <1>7, <2>1, <2>2
<1> DEFINE Old(k) == IF k <= m THEN k ELSE k - 1
<1>9. ASSUME NEW k \in 1..(n + 1), k # m + 1 PROVE Old(k) \in 1..n /\ r[k] = tags[Old(k)]
  <2>1. CASE k <= m
    <3>1. k \in 1..m /\ k \in 1..n
      BY <1>1, <2>1
    <3> QED
      BY <1>4, <2>1, <3>1
  <2>2. CASE k > m
    <3>1. k - 1 \in (m + 1)..n /\ (k - 1) + 1 = k /\ ~ k <= m /\ k - 1 \in 1..n
      BY <1>1, <1>9, <2>2
    <3> QED
      BY <1>4, <3>1
  <2> QED
    BY <1>1, <2>1, <2>2
<1>10. r[1] = 0
  BY <1>1, <1>4, <1>8
<1>11. \A k \in 2..(n + 1) : r[k] # 0
  <2> SUFFICES ASSUME NEW k \in 2..(n + 1) PROVE r[k] # 0
    OBVIOUS
  <2>1. CASE k = m + 1
    BY <1>2, <1>4, <2>1
  <2>2. CASE k # m + 1
    <3>1. k \in 1..(n + 1) /\ Old(k) \in 2..n
      BY <1>1, <1>8, <2>2
    <3> QED
      BY <1>6, <1>9, <2>2, <3>1
  <2> QED
    BY <2>1, <2>2
<1>12. \E p \in 2..(n + 1) : \A k \in 1..(n + 1) : r[k] = One <=> k = p
  <2> DEFINE p == IF o <= m THEN o ELSE o + 1
  <2>1. p \in 2..(n + 1) /\ p # m + 1
    BY <1>1
  <2>2. ASSUME NEW k \in 1..(n + 1) PROVE r[k] = One <=> k = p
    <3>1. CASE k = m + 1
      BY <1>2, <1>4, <2>1, <3>1
    <3>2. CASE k # m + 1
      <4>1. r[k] = tags[Old(k)] /\ Old(k) \in 1..n
        BY <1>9, <3>2
      <4>2. Old(k) = o <=> k = p
        BY <1>1, <3>2
      <4> QED
        BY <1>5, <4>1, <4>2
    <3> QED
      BY <3>1, <3>2
  <2> HIDE DEF p
  <2> QED
    BY <2>1, <2>2
<1>13. DOMAIN r = 1..(n + 1)
  BY <1>3
<1>14. \A k \in DOMAIN r : r[k] = t \/ \E j \in DOMAIN tags : r[k] = tags[j]
  <2> HIDE DEF Old
  <2> QED
    BY <1>1, <1>4, <1>9, <1>13
<1>15. Ended(e)
  <2>1. /\ Len(r) >= 2 /\ r[1] = 0 /\ \A k \in 2..Len(r) : r[k] # 0
        /\ \E p \in 2..Len(r) : \A k \in 1..Len(r) : r[k] = One <=> k = p
    <3>1. Len(r) = n + 1 /\ n + 1 >= 2
      BY <1>1, <1>3
    <3> QED
      BY <1>10, <1>11, <1>12, <3>1
  <2> QED
    BY <2>1 DEF Ended, r
<1>16. m + 1 \in DOMAIN r
  BY <1>1, <1>13
<1> QED
  BY <1>3, <1>4, <1>14, <1>15, <1>16 DEF r, tags, n

(* With a tag that a page made.                                            *)
LEMMA AddProper ==
  ASSUME NEW d, Proper(d), NEW t \in 1..(One - 1), NEW c \in Nat
  PROVE  Proper(Add(d, t, c))
<1> DEFINE e == Add(d, t, c)
<1>1. /\ e.tags = Push(d.tags, t) /\ e.ch = MapSet(d.ch, t, c) /\ e.ack = MapSet(d.ack, t, FALSE)
  BY DEF Add
<1>2. Mapped(e)
  BY AddNotes DEF Proper
<1> HIDE DEF e
<1>3. t \in Tags /\ t \in (1..NullTag) \ {One} /\ t # 0 /\ t # One
  BY OneAssumption, SMT DEF Tags, NullTag
<1>4. /\ e.tags \in Seq(Tags) /\ Ranked(e.tags) /\ Ended(e)
      /\ \A k \in DOMAIN e.tags : e.tags[k] = t \/ \E j \in DOMAIN d.tags : e.tags[k] = d.tags[j]
  BY <1>1, <1>3, PushEnded
<1>5. /\ DOMAIN e.ch = DOMAIN d.ch \cup {t} /\ DOMAIN e.ack = DOMAIN d.ack \cup {t}
      /\ \A u \in DOMAIN d.ch : u # t => e.ch[u] = d.ch[u]
      /\ \A u \in DOMAIN d.ack : u # t => e.ack[u] = d.ack[u]
      /\ e.ch[t] = c /\ e.ch = [u \in DOMAIN e.ch |-> e.ch[u]]
  BY <1>1 DEF MapSet
<1>6. Listed(e)
  BY <1>4, <1>5 DEF Proper, Listed
<1>7. Charred(e)
  BY <1>3, <1>5 DEF Proper, Charred, Mapped
<1> QED
  BY <1>2, <1>4, <1>6, <1>7 DEF Proper, e

(* With tags that are hidden.                                              *)
LEMMA HideProper ==
  ASSUME NEW d, Proper(d), NEW gone, 0 \notin gone
  PROVE  Proper(Hide(d, gone))
<1> DEFINE e == Hide(d, gone)
<1>1. Mapped(e)
  BY HideNotes DEF Proper
<1>2. /\ e.tags = d.tags
      /\ e.ch = [u \in DOMAIN d.ch |-> IF u \in gone THEN Nul ELSE d.ch[u]]
      /\ e.ack = [u \in DOMAIN d.ack |-> d.ack[u] /\ u \notin gone]
  <2> DEFINE ch == [u \in DOMAIN d.ch |-> IF u \in gone THEN Nul ELSE d.ch[u]]
             ack == [u \in DOMAIN d.ack |-> d.ack[u] /\ u \notin gone]
  <2>1. e = [d EXCEPT !.ch = ch, !.ack = ack]
    BY DEF Hide
  <2> HIDE DEF e, ch, ack
  <2>2. d = [tags |-> d.tags, ch |-> d.ch, ack |-> d.ack]
    BY DEF Proper, Mapped
  <2>3. e.tags = d.tags /\ e.ch = ch /\ e.ack = ack
    BY <2>1, <2>2
  <2> QED
    BY <2>3 DEF ch, ack
<1> HIDE DEF e
<1>3. Listed(e) /\ Ended(e)
  BY <1>2 DEF Proper, Listed, Ended
<1>4. Charred(e)
  <2>1. 0 \in DOMAIN d.ack /\ d.ack[0]
    BY DEF Proper, Charred, Mapped
  <2>2. e.ack[0]
    BY <1>2, <2>1
  <2>3. /\ \A t \in DOMAIN e.ch : e.ch[t] \in Nat
        /\ e.ch = [u \in DOMAIN e.ch |-> e.ch[u]]
    BY <1>2 DEF Proper, Charred, Nul
  <2> QED
    BY <1>2, <2>2, <2>3 DEF Proper, Charred
<1> QED
  BY <1>1, <1>3, <1>4 DEF Proper, e

(* A tag of the list has a place in the text.                              *)
LEMMA IndexIs ==
  ASSUME NEW d, d.tags \in Seq(Tags), NEW t
  PROVE  /\ Index(d, t) \in Nat \cup {-1}
         /\ (\E k \in DOMAIN d.tags : d.tags[k] = t) => Index(d, t) \in Nat
<1> DEFINE n == Len(d.tags)   K == {k \in Before(d.tags, t) : Shown(d, d.tags[k])}
<1>1. n \in Nat /\ K \subseteq 1..n
  BY DEF Before
<1>2. Index(d, t) = IF \E k \in DOMAIN d.tags : d.tags[k] = t THEN Cardinality(K) ELSE -1
  BY DEF Index
<1> HIDE DEF n, K
<1>3. IsFiniteSet(1..n)
  <2>1. n \in Int /\ 1 \in Int
    BY <1>1
  <2> QED
    BY <2>1, FS_Interval
<1>4. Cardinality(K) \in Nat
  <2>1. IsFiniteSet(K)
    BY <1>1, <1>3, FS_Subset
  <2> QED
    BY <2>1, FS_CardinalityType
<1> QED
  BY <1>2, <1>4

(* A text stays a text.                                                    *)
LEMMA TextInsertIs ==
  ASSUME NEW S, NEW s \in Seq(S), NEW pos \in Nat, NEW c \in S
  PROVE  TextInsert(s, pos, c) \in Seq(S)
<1> DEFINE i == (IF pos <= Len(s) THEN pos ELSE Len(s)) + 1
<1>1. i \in 1..(Len(s) + 1) /\ TextInsert(s, pos, c) = Ext!InsertAt(s, i, c)
  BY DEF TextInsert
<1> HIDE DEF i
<1> QED
  BY <1>1, InsertAtIs

(* ... also when a character is deleted.                                    *)
LEMMA TextDeleteIs ==
  ASSUME NEW S, NEW s \in Seq(S), NEW pos \in Int, NEW clamps
  PROVE  TextDelete(s, pos, clamps) \in Seq(S)
<1> DEFINE n == Len(s)
<1>1. n \in Nat
  OBVIOUS
<1>2. CASE pos \in 0..(n - 1)
  <2>1. pos \in 0..n /\ pos + 1 \in pos..n
    BY <1>1, <1>2
  <2>2. TextDelete(s, pos, clamps) = TextRemove(s, pos, pos + 1)
    BY <1>2 DEF TextDelete
  <2> HIDE DEF n
  <2>3. PICK i \in 0..n : i = pos
    BY <2>1
  <2>4. PICK j \in i..n : j = pos + 1
    BY <2>1, <2>3
  <2> QED
    BY <2>2, <2>3, <2>4, TextRemoveIs DEF n
<1>3. CASE pos \notin 0..(n - 1) /\ pos >= 0 /\ clamps /\ s # <<>>
  <2>1. n # 0
    BY <1>3, EmptySeq
  <2>2. n - 1 \in 0..n /\ n \in (n - 1)..n
    BY <1>1, <2>1
  <2>3. TextDelete(s, pos, clamps) = TextRemove(s, n - 1, n)
    BY <1>3 DEF TextDelete
  <2> HIDE DEF n
  <2>4. PICK i \in 0..n : i = n - 1
    BY <2>2
  <2>5. PICK j \in i..n : j = n
    BY <2>2, <2>4
  <2> QED
    BY ZenonT(30), <2>3, <2>4, <2>5, TextRemoveIs DEF n
<1>4. CASE pos \notin 0..(n - 1) /\ ~ (pos >= 0 /\ clamps /\ s # <<>>)
  BY <1>4 DEF TextDelete
<1> QED
  BY <1>2, <1>3, <1>4

(* With a change of another guest, ...                                     *)
LEMMA AttachProper ==
  ASSUME NEW p, Proper(p.doc), NEW S \in SUBSET Nat, p.text \in Seq(S),
         NEW t \in 1..NullTag, NEW c \in S \cup {Nul}, t = One => c = Nul, NEW clamps
  PROVE  LET q == Attach(p, t, c, clamps)
         IN  Proper(q.doc) /\ q.text \in Seq(S)
<1> DEFINE d == p.doc   e == Attach(p, t, c, clamps).doc
<1>1. /\ e.ch = MapSet(d.ch, t, c) /\ e.ack = MapSet(d.ack, t, TRUE)
      /\ e.tags = IF c = Nul THEN d.tags ELSE Push(d.tags, t)
      /\ e = [d EXCEPT !.ch = MapSet(@, t, c), !.ack = MapSet(@, t, TRUE),
                       !.tags = IF c = Nul THEN @ ELSE Push(@, t)]
  BY DEF Attach, Proper, Mapped
<1>2. Mapped(e) /\ Proper(d)
  BY AttachOvertakes DEF Proper
<1>3. Attach(p, t, c, clamps).text =
        IF c = Nul THEN TextDelete(p.text, Index(d, t), clamps)
        ELSE TextInsert(p.text, Index(e, t), c)
  BY <1>1 DEF Attach
<1> HIDE DEF d, e
<1>4. t \in Tags /\ t # 0 /\ c \in Nat
  BY OneAssumption, SMT DEF Tags, NullTag, Nul
<1>5. /\ DOMAIN e.ch = DOMAIN d.ch \cup {t} /\ DOMAIN e.ack = DOMAIN d.ack \cup {t}
      /\ \A u \in DOMAIN d.ch : u # t => e.ch[u] = d.ch[u]
      /\ \A u \in DOMAIN d.ack : u # t => e.ack[u] = d.ack[u]
      /\ e.ch[t] = c /\ e.ch = [u \in DOMAIN e.ch |-> e.ch[u]]
  BY ZenonT(30), <1>1 DEF MapSet
<1>6. Charred(e)
  BY <1>2, <1>4, <1>5 DEF Proper, Charred, Mapped
<1>7. CASE c = Nul
  <2>1. e.tags = d.tags
    BY <1>1, <1>7
  <2>2. Listed(e) /\ Ended(e)
    BY <1>2, <1>5, <2>1 DEF Proper, Listed, Ended
  <2>3. Index(d, t) \in Int
    <3>1. Index(d, t) \in Nat \cup {-1}
      BY <1>2, IndexIs DEF Proper, Listed
    <3> QED
      BY <3>1
  <2>4. TextDelete(p.text, Index(d, t), clamps) \in Seq(S)
    BY <2>3, TextDeleteIs
  <2> QED
    BY <1>2, <1>3, <1>6, <1>7, <2>2, <2>4 DEF Proper, e
<1>8. CASE c # Nul
  <2>1. e.tags = Push(d.tags, t) /\ t \in (1..NullTag) \ {One} /\ c \in S
    BY <1>1, <1>8
  <2>2. /\ e.tags \in Seq(Tags) /\ Ranked(e.tags) /\ Ended(e)
        /\ \A k \in DOMAIN e.tags : e.tags[k] = t \/ \E j \in DOMAIN d.tags : e.tags[k] = d.tags[j]
        /\ \E k \in DOMAIN e.tags : e.tags[k] = t
    BY <1>2, <2>1, PushEnded
  <2>3. Listed(e)
    BY <1>2, <1>5, <2>2 DEF Proper, Listed
  <2>4. Index(e, t) \in Nat
    BY <2>2, IndexIs
  <2>5. TextInsert(p.text, Index(e, t), c) \in Seq(S)
    BY <2>1, <2>4, TextInsertIs
  <2> QED
    BY <1>2, <1>3, <1>6, <1>8, <2>2, <2>3, <2>5 DEF Proper, e
<1> QED
  BY <1>7, <1>8

(* ... and with all the changes of an answer.                              *)
LEMMA AttachAllProper ==
  ASSUME NEW p, Proper(p.doc), NEW S \in SUBSET Nat, p.text \in Seq(S),
         NEW T, NEW changes \in Seq(T), NEW clamps,
         \A k \in 1..Len(changes) :
           /\ changes[k].tag \in 1..NullTag /\ changes[k].ch \in S \cup {Nul}
           /\ changes[k].tag = One => changes[k].ch = Nul
  PROVE  LET q == AttachAll(p, changes, clamps)
         IN  Proper(q.doc) /\ q.text \in Seq(S)
<1>1. PICK page : /\ Attached(p, changes, clamps, page)
                  /\ AttachAll(p, changes, clamps) = page[Len(changes)]
  BY AttachAllRuns
<1> DEFINE n == Len(changes)
           Good == {k \in 0..n : Proper(page[k].doc) /\ page[k].text \in Seq(S)}
<1>2. n \in Nat
  OBVIOUS
<1>3. 0 \in Good
  BY <1>1, <1>2 DEF Attached
<1>4. ASSUME NEW k \in 0..n, k \in Good, k + 1 <= n PROVE k + 1 \in Good
  <2>1. k + 1 \in 1..n /\ (k + 1) - 1 = k
    BY <1>2, <1>4
  <2> DEFINE t == changes[k + 1].tag   c == changes[k + 1].ch
  <2>3. page[k + 1] = Attach(page[k], t, c, clamps)
    BY <1>1, <2>1 DEF Attached
  <2>4. t \in 1..NullTag /\ c \in S \cup {Nul} /\ (t = One => c = Nul)
    BY <2>1
  <2>5. Proper(page[k].doc) /\ page[k].text \in Seq(S)
    BY <1>4
  <2>6. Proper(page[k + 1].doc) /\ page[k + 1].text \in Seq(S)
    <3> HIDE DEF t, c
    <3> QED
      BY <2>3, <2>4, <2>5, AttachProper
  <2> QED
    BY <2>1, <2>6
<1>5. n \in Good
  <2> HIDE DEF Good
  <2>1. \A k \in 0..n : k \in Good /\ k + 1 <= n => k + 1 \in Good
    BY <1>4
  <2>2. 0..n \subseteq Good
    BY <1>2, <1>3, <2>1, Induction
  <2> QED
    BY <1>2, <2>2
<1> QED
  BY <1>1, <1>5

-----------------------------------------------------------------------------
(***************************************************************************)
(* Documents that list no tag twice: what they show can be counted by tags.*)
(***************************************************************************)
ListedTags(d) == {d.tags[k] : k \in DOMAIN d.tags}
ShownTags(d) == {t \in ListedTags(d) : Shown(d, t)}
OnceListed(d) == \A i, j \in DOMAIN d.tags : d.tags[i] = d.tags[j] => i = j
OnceAmong(d, T) ==
  \A i, j \in DOMAIN d.tags : d.tags[i] = d.tags[j] /\ d.tags[i] \in T => i = j

(* T are the tags at the places K of a list.                               *)
At(d, K, T) ==
  /\ \A k \in K : k \in DOMAIN d.tags /\ d.tags[k] \in T
  /\ \A t \in T : \E k \in K : d.tags[k] = t

(* As many tags as places, among places of tags that are listed once.      *)
LEMMA PlacesAmong ==
  ASSUME NEW d, d.tags \in Seq(Tags), NEW K, NEW T, OnceAmong(d, T), At(d, K, T)
  PROVE  IsFiniteSet(K) /\ IsFiniteSet(T) /\ Cardinality(K) = Cardinality(T)
<1> DEFINE n == Len(d.tags)   f == [k \in K |-> d.tags[k]]
<1>1. n \in Nat /\ DOMAIN d.tags = 1..n
  OBVIOUS
<1>2. IsFiniteSet(K)
  <2>1. n \in Int /\ 1 \in Int
    BY <1>1
  <2> HIDE DEF n
  <2>2. IsFiniteSet(1..n)
    BY <2>1, FS_Interval
  <2> QED
    BY <1>1, <2>2, FS_Subset DEF At
<1>3. f \in Surjection(K, T) /\ f \in Injection(K, T)
  <2>1. f \in [K -> T] /\ \A t \in T : \E k \in K : f[k] = t
    BY DEF At
  <2>2. \A i, j \in K : f[i] = f[j] => i = j
    BY DEF OnceAmong, At
  <2> HIDE DEF f
  <2> QED
    BY <2>1, <2>2 DEF Surjection, Injection, IsInjective
<1>4. Cardinality(K) = Cardinality(T) /\ IsFiniteSet(T)
  <2> HIDE DEF f
  <2> QED
    BY <1>2, <1>3, FS_Surjection
<1> QED
  BY <1>2, <1>4

(* ... and so of a list without repetition.                                *)
LEMMA PlacesCount ==
  ASSUME NEW d, d.tags \in Seq(Tags), OnceListed(d), NEW K, NEW T, At(d, K, T)
  PROVE  IsFiniteSet(K) /\ IsFiniteSet(T) /\ Cardinality(K) = Cardinality(T)
<1>1. OnceAmong(d, T)
  BY DEF OnceListed, OnceAmong
<1> QED
  BY <1>1, PlacesAmong

(* What is shown can be counted by tags.                                   *)
LEMMA CountByTags ==
  ASSUME NEW d, d.tags \in Seq(Tags), OnceListed(d)
  PROVE  /\ IsFiniteSet(ShownTags(d)) /\ CountShown(d) = Cardinality(ShownTags(d))
         /\ CountShown(d) \in Nat
<1> DEFINE K == {k \in DOMAIN d.tags : Shown(d, d.tags[k])}
<1>1. PICK T : T = ShownTags(d)
  OBVIOUS
<1>2. At(d, K, T)
  BY <1>1 DEF At, ShownTags, ListedTags
<1>3. CountShown(d) = Cardinality(K)
  BY DEF CountShown
<1> HIDE DEF K
<1>4. IsFiniteSet(K) /\ IsFiniteSet(T) /\ Cardinality(K) = Cardinality(T)
  BY <1>2, PlacesCount
<1>5. Cardinality(T) \in Nat
  BY <1>4, FS_CardinalityType
<1> QED
  BY <1>1, <1>3, <1>4, <1>5

(* A tag is pushed: of those in T, it was not listed before.               *)
LEMMA PushAmong ==
  ASSUME NEW d, d.tags \in Seq(Tags), Ranked(d.tags), NEW T, OnceAmong(d, T),
         NEW t \in Tags, t \in T => t \notin ListedTags(d), NEW e, e.tags = Push(d.tags, t)
  PROVE  OnceAmong(e, T) /\ ListedTags(e) = ListedTags(d) \cup {t}
<1> DEFINE tags == d.tags   r == e.tags   n == Len(tags)
<1>1. r = Push(tags, t) /\ tags \in Seq(Tags) /\ Ranked(tags) /\ t \in Tags
  OBVIOUS
<1> HIDE DEF r, tags, n
<1>2. LET q == Push(tags, t)
      IN  /\ q \in Seq(Tags) /\ Len(q) = Len(tags) + 1 /\ Ranked(q)
          /\ \E m \in 0..Len(tags) :
               /\ \A k \in 1..m : Rank(tags[k]) < Rank(t) /\ q[k] = tags[k]
               /\ q[m + 1] = t
               /\ \A k \in (m + 1)..Len(tags) : Rank(t) <= Rank(tags[k]) /\ q[k + 1] = tags[k]
  BY <1>1, PushIs
<1>3. r \in Seq(Tags) /\ Len(r) = n + 1 /\ n \in Nat
  BY <1>1, <1>2 DEF n
<1>4. PICK m \in 0..n :
        /\ \A k \in 1..m : r[k] = tags[k]
        /\ r[m + 1] = t
        /\ \A k \in (m + 1)..n : r[k + 1] = tags[k]
  BY <1>1, <1>2 DEF n
<1>5. /\ DOMAIN tags = 1..n /\ DOMAIN r = 1..(n + 1)
      /\ \A i, j \in 1..n : tags[i] = tags[j] /\ tags[i] \in T => i = j
      /\ \A i \in 1..n : t \in T => tags[i] # t
  <2>1. DOMAIN tags = 1..n
    BY <1>1 DEF n
  <2>2. DOMAIN r = 1..(n + 1)
    BY <1>3
  <2> QED
    BY <2>1, <2>2 DEF OnceAmong, ListedTags, tags
<1> DEFINE Old(k) == IF k <= m THEN k ELSE k - 1
<1>6. ASSUME NEW k \in 1..(n + 1), k # m + 1 PROVE Old(k) \in 1..n /\ r[k] = tags[Old(k)]
  <2>1. CASE k <= m
    <3>1. k \in 1..m /\ k \in 1..n
      BY <1>3, <2>1
    <3> QED
      BY <1>4, <2>1, <3>1
  <2>2. CASE k > m
    <3>1. k - 1 \in (m + 1)..n /\ (k - 1) + 1 = k /\ ~ k <= m /\ k - 1 \in 1..n
      BY <1>3, <1>6, <2>2
    <3> QED
      BY <1>4, <3>1
  <2> QED
    BY <1>3, <2>1, <2>2
<1>7. ASSUME NEW i \in 1..(n + 1), NEW j \in 1..(n + 1), r[i] = r[j], r[i] \in T PROVE i = j
  <2>1. CASE i # m + 1 /\ j # m + 1
    <3>1. Old(i) = Old(j)
      <4>1. /\ Old(i) \in 1..n /\ r[i] = tags[Old(i)]
            /\ Old(j) \in 1..n /\ r[j] = tags[Old(j)]
        BY <1>6, <2>1
      <4> HIDE DEF Old
      <4> QED
        BY <1>5, <1>7, <4>1
    <3> QED
      BY <1>3, <2>1, <3>1
  <2>2. CASE i = m + 1 \/ j = m + 1
    <3>1. t \in T => \A k \in 1..(n + 1) : k # m + 1 => r[k] # t
      <4> HIDE DEF Old
      <4> QED
        BY <1>5, <1>6
    <3> QED
      BY <1>4, <1>7, <2>2, <3>1
  <2> QED
    BY <2>1, <2>2
<1>8. \A k \in 1..(n + 1) : r[k] = t \/ \E j \in 1..n : r[k] = tags[j]
  <2> HIDE DEF Old
  <2> QED
    BY <1>4, <1>6
<1>9. \A j \in 1..n : \E k \in 1..(n + 1) : r[k] = tags[j]
  <2> SUFFICES ASSUME NEW j \in 1..n PROVE \E k \in 1..(n + 1) : r[k] = tags[j]
    OBVIOUS
  <2>1. CASE j <= m
    <3>1. j \in 1..m /\ j \in 1..(n + 1)
      BY <1>3, <2>1
    <3> QED
      BY <1>4, <3>1
  <2>2. CASE j > m
    <3>1. j \in (m + 1)..n /\ j + 1 \in 1..(n + 1)
      BY <1>3, <2>2
    <3> QED
      BY <1>4, <3>1
  <2> QED
    BY <1>3, <2>1, <2>2
<1>10. m + 1 \in 1..(n + 1)
  BY <1>3
<1> HIDE DEF Old
<1>11. OnceAmong(e, T)
  BY <1>5, <1>7 DEF OnceAmong, r
<1>12. ListedTags(e) = ListedTags(d) \cup {t}
  <2>1. ListedTags(d) = {tags[k] : k \in 1..n} /\ ListedTags(e) = {r[k] : k \in 1..(n + 1)}
    BY <1>5 DEF ListedTags, r, tags
  <2>2. \A u \in ListedTags(e) : u \in ListedTags(d) \cup {t}
    BY <1>8, <2>1
  <2>3. \A u \in ListedTags(d) : u \in ListedTags(e)
    BY <1>9, <2>1
  <2>4. t \in ListedTags(e)
    BY <1>4, <1>10, <2>1
  <2> QED
    BY <2>2, <2>3, <2>4
<1> QED
  BY <1>11, <1>12

(* ... and where no tag is listed twice, none is then.                     *)
LEMMA PushOnce ==
  ASSUME NEW d, d.tags \in Seq(Tags), Ranked(d.tags), OnceListed(d),
         NEW t \in Tags \ ListedTags(d), NEW e, e.tags = Push(d.tags, t)
  PROVE  e.tags \in Seq(Tags) /\ OnceListed(e) /\ ListedTags(e) = ListedTags(d) \cup {t}
<1>1. PICK tags : tags = d.tags
  OBVIOUS
<1>2. e.tags \in Seq(Tags)
  <2>1. Push(tags, t) \in Seq(Tags)
    BY <1>1, PushIs
  <2> QED
    BY <1>1, <2>1
<1>3. PICK T : T = ListedTags(d) \cup {t}
  OBVIOUS
<1>4. OnceAmong(e, T) /\ ListedTags(e) = T
  <2>1. OnceAmong(d, T) /\ t \in Tags /\ t \notin ListedTags(d)
    BY DEF OnceListed, OnceAmong
  <2>2. OnceAmong(e, T) /\ ListedTags(e) = ListedTags(d) \cup {t}
    BY <2>1, PushAmong
  <2> QED
    BY <1>3, <2>2
<1>5. OnceListed(e)
  BY <1>4 DEF OnceListed, OnceAmong, ListedTags
<1> QED
  BY <1>2, <1>3, <1>4, <1>5

(* A tag is added: one more is shown.                                      *)
LEMMA AddCount ==
  ASSUME NEW d, Proper(d), OnceListed(d), NEW t \in Tags \ ListedTags(d), NEW c \in Nat, c # Nul
  PROVE  /\ OnceListed(Add(d, t, c)) /\ ListedTags(Add(d, t, c)) = ListedTags(d) \cup {t}
         /\ CountShown(Add(d, t, c)) = CountShown(d) + 1
<1> DEFINE e == Add(d, t, c)
<1>1. /\ e.tags = Push(d.tags, t) /\ e.ch = MapSet(d.ch, t, c)
  BY DEF Add
<1> HIDE DEF e
<1>2. e.tags \in Seq(Tags) /\ OnceListed(e) /\ ListedTags(e) = ListedTags(d) \cup {t}
  BY <1>1, PushOnce DEF Proper, Listed
<1>3. ShownTags(e) = ShownTags(d) \cup {t} /\ t \notin ShownTags(d)
  <2>1. e.ch[t] = c /\ \A u \in DOMAIN d.ch : u # t => e.ch[u] = d.ch[u]
    BY <1>1 DEF MapSet
  <2>2. \A u \in ListedTags(d) : u \in DOMAIN d.ch
    BY DEF Proper, Listed, ListedTags
  <2> QED
    BY <1>2, <2>1, <2>2 DEF ShownTags, Shown
<1>4. d.tags \in Seq(Tags)
  BY DEF Proper, Listed
<1>5. /\ IsFiniteSet(ShownTags(d)) /\ CountShown(d) = Cardinality(ShownTags(d))
      /\ CountShown(e) = Cardinality(ShownTags(e))
  BY <1>2, <1>4, CountByTags
<1> QED
  BY ZenonT(30), <1>2, <1>3, <1>5, FS_AddElement DEF e

(* Tags are hidden: no more are lost than were asked for.                  *)
LEMMA HideCount ==
  ASSUME NEW d, Proper(d), OnceListed(d), NEW from \in Nat, NEW to \in Nat, from <= to, NEW gone,
         gone = {DeleteTag(d, p) : p \in {q \in (from + 1)..to : Deletable(d, q)}}
  PROVE  /\ OnceListed(Hide(d, gone)) /\ ListedTags(Hide(d, gone)) = ListedTags(d)
         /\ CountShown(d) - (to - from) <= CountShown(Hide(d, gone))
<1> DEFINE e == Hide(d, gone)
<1>1. e.tags = d.tags /\ e.ch = [u \in DOMAIN d.ch |-> IF u \in gone THEN Nul ELSE d.ch[u]]
  <2> DEFINE ch == [u \in DOMAIN d.ch |-> IF u \in gone THEN Nul ELSE d.ch[u]]
             ack == [u \in DOMAIN d.ack |-> d.ack[u] /\ u \notin gone]
  <2>1. e = [d EXCEPT !.ch = ch, !.ack = ack]
    BY DEF Hide
  <2> HIDE DEF e, ch, ack
  <2>2. d = [tags |-> d.tags, ch |-> d.ch, ack |-> d.ack]
    BY DEF Proper, Mapped
  <2>3. e.tags = d.tags /\ e.ch = ch
    BY <2>1, <2>2
  <2> QED
    BY <2>3 DEF ch
<1> HIDE DEF e
<1>2. OnceListed(e) /\ ListedTags(e) = ListedTags(d) /\ d.tags \in Seq(Tags)
  BY <1>1 DEF OnceListed, ListedTags, Proper, Listed
<1> DEFINE n == Len(d.tags)   K == {k \in (from + 2)..(to + 1) : k <= n}
           T == {d.tags[k] : k \in K}
<1>3. n \in Nat /\ DOMAIN d.tags = 1..n /\ K \in SUBSET DOMAIN d.tags
  BY <1>2
<1>4. gone \subseteq T
  <2> SUFFICES ASSUME NEW p \in (from + 1)..to, Deletable(d, p)
               PROVE  DeleteTag(d, p) \in T
    OBVIOUS
  <2>1. p <= CountShown(d) /\ CountShown(d) \in 0..(n - 2)
    BY CountShownBound DEF Deletable
  <2> HIDE DEF n
  <2>2. p + 1 \in K
    BY <1>3, <2>1
  <2> QED
    BY <2>2 DEF DeleteTag
<1>5. IsFiniteSet(K) /\ IsFiniteSet(T) /\ Cardinality(K) = Cardinality(T)
  <2> HIDE DEF K, n
  <2>1. At(d, K, T)
    BY <1>3 DEF At
  <2> HIDE DEF T
  <2> QED
    BY <1>2, <2>1, PlacesCount
<1>6. Cardinality(K) <= to - from
  <2>1. IsFiniteSet((from + 2)..(to + 1)) /\ Cardinality((from + 2)..(to + 1)) = to - from
    <3>1. PICK a \in Int : a = from + 2
      OBVIOUS
    <3>2. PICK b \in Int : b = to + 1
      OBVIOUS
    <3>3. IsFiniteSet(a..b) /\ Cardinality(a..b) = IF a > b THEN 0 ELSE b - a + 1
      BY FS_Interval
    <3> QED
      BY <3>1, <3>2, <3>3
  <2>2. K \subseteq (from + 2)..(to + 1)
    OBVIOUS
  <2> HIDE DEF K
  <2>3. Cardinality(K) <= Cardinality((from + 2)..(to + 1))
    BY <2>1, <2>2, FS_Subset
  <2> QED
    BY <2>1, <2>3
<1> HIDE DEF K, T, n
<1>7. ShownTags(e) = ShownTags(d) \ gone
  <2>1. \A u \in ListedTags(d) : u \in DOMAIN d.ch
    BY DEF Proper, Listed, ListedTags
  <2> QED
    BY <1>1, <1>2, <2>1 DEF ShownTags, Shown, Nul
<1>8. /\ IsFiniteSet(ShownTags(d)) /\ CountShown(d) = Cardinality(ShownTags(d))
      /\ IsFiniteSet(ShownTags(e)) /\ CountShown(e) = Cardinality(ShownTags(e))
  BY <1>1, <1>2, CountByTags
<1>9. Cardinality(ShownTags(d)) <= Cardinality(ShownTags(e)) + Cardinality(T)
  <2>1. ShownTags(d) \subseteq ShownTags(e) \cup T
    BY <1>4, <1>7
  <2>2. IsFiniteSet(ShownTags(e) \cup T)
    BY <1>5, <1>8, FS_Union
  <2>3. Cardinality(ShownTags(d)) <= Cardinality(ShownTags(e) \cup T)
    BY <2>1, <2>2, FS_Subset
  <2>4. Cardinality(ShownTags(e) \cup T)
          = Cardinality(ShownTags(e)) + Cardinality(T) - Cardinality(ShownTags(e) \cap T)
    BY <1>5, <1>8, FS_Union
  <2>5. IsFiniteSet(ShownTags(e) \cap T)
    BY <1>5, FS_Intersection
  <2>6. /\ Cardinality(ShownTags(e) \cap T) \in Nat /\ Cardinality(T) \in Nat
        /\ Cardinality(ShownTags(e)) \in Nat /\ Cardinality(ShownTags(d)) \in Nat
        /\ Cardinality(ShownTags(e) \cup T) \in Nat
    BY <1>5, <1>8, <2>2, <2>5, FS_CardinalityType
  <2> QED
    BY <2>3, <2>4, <2>6
<1>10. Cardinality(T) \in Nat /\ Cardinality(ShownTags(e)) \in Nat /\ Cardinality(ShownTags(d)) \in Nat
  BY <1>5, <1>8, FS_CardinalityType
<1>11. Cardinality(T) <= to - from
  BY <1>5, <1>6
<1>12. CountShown(d) - (to - from) <= CountShown(e)
  BY <1>8, <1>9, <1>10, <1>11
<1> QED
  BY <1>2, <1>12 DEF e

(* How long a text is.                                                     *)
LEMMA TextInsertLen ==
  ASSUME NEW S, NEW s \in Seq(S), NEW pos \in Nat, NEW c \in S
  PROVE  Len(TextInsert(s, pos, c)) = Len(s) + 1
<1> DEFINE i == (IF pos <= Len(s) THEN pos ELSE Len(s)) + 1
<1>1. i \in 1..(Len(s) + 1) /\ TextInsert(s, pos, c) = Ext!InsertAt(s, i, c)
  BY DEF TextInsert
<1> HIDE DEF i
<1> QED
  BY <1>1, InsertAtIs

(* A deletion takes one character, or none if its place is not in the text.*)
LEMMA TextDeleteLen ==
  ASSUME NEW S, NEW s \in Seq(S), NEW pos \in Int, NEW clamps
  PROVE  LET r == TextDelete(s, pos, clamps)
         IN  Len(r) = Len(s) - 1 \/ (Len(r) = Len(s) /\ ~ pos \in 0..(Len(s) - 1))
<1> DEFINE n == Len(s)
<1>1. n \in Nat
  OBVIOUS
<1>2. CASE pos \in 0..(n - 1)
  <2>1. pos \in 0..n /\ pos + 1 \in pos..n
    BY <1>1, <1>2
  <2>2. TextDelete(s, pos, clamps) = TextRemove(s, pos, pos + 1)
    BY <1>2 DEF TextDelete
  <2> HIDE DEF n
  <2>3. PICK i \in 0..n : i = pos
    BY <2>1
  <2>4. PICK j \in i..n : j = pos + 1
    BY <2>1, <2>3
  <2>5. Len(TextRemove(s, i, j)) = Len(s) - (j - i)
    BY TextRemoveIs DEF n
  <2> QED
    BY <2>2, <2>3, <2>4, <2>5
<1>3. CASE pos \notin 0..(n - 1) /\ pos >= 0 /\ clamps /\ s # <<>>
  <2>1. n # 0
    BY <1>3, EmptySeq
  <2>2. n - 1 \in 0..n /\ n \in (n - 1)..n
    BY <1>1, <2>1
  <2>3. TextDelete(s, pos, clamps) = TextRemove(s, n - 1, n)
    BY <1>3 DEF TextDelete
  <2> HIDE DEF n
  <2>4. PICK i \in 0..n : i = n - 1
    BY <2>2
  <2>5. PICK j \in i..n : j = n
    BY <2>2, <2>4
  <2>6. Len(TextRemove(s, i, j)) = Len(s) - (j - i)
    BY TextRemoveIs DEF n
  <2> QED
    BY <1>1, <2>3, <2>4, <2>5, <2>6 DEF n
<1>4. CASE pos \notin 0..(n - 1) /\ ~ (pos >= 0 /\ clamps /\ s # <<>>)
  BY <1>4 DEF TextDelete
<1> QED
  BY <1>2, <1>3, <1>4

(* An attached change never leaves the text longer by more than it was.    *)
LEMMA AttachCount ==
  ASSUME NEW p, Proper(p.doc), OnceListed(p.doc), NEW S \in SUBSET Nat, p.text \in Seq(S),
         NEW t \in 1..NullTag, NEW c \in S \cup {Nul}, c # Nul => t \notin ListedTags(p.doc),
         NEW clamps, NEW more \in Nat, Len(p.text) <= CountShown(p.doc) + more
  PROVE  LET q == Attach(p, t, c, clamps)
         IN  /\ OnceListed(q.doc)
             /\ ListedTags(q.doc) = ListedTags(p.doc) \cup (IF c = Nul THEN {} ELSE {t})
             /\ Len(q.text) <= CountShown(q.doc) + more
<1> DEFINE d == p.doc   e == Attach(p, t, c, clamps).doc   s == Attach(p, t, c, clamps).text
<1>1. /\ e.ch = MapSet(d.ch, t, c)
      /\ e.tags = IF c = Nul THEN d.tags ELSE Push(d.tags, t)
      /\ e = [d EXCEPT !.ch = MapSet(@, t, c), !.ack = MapSet(@, t, TRUE),
                       !.tags = IF c = Nul THEN @ ELSE Push(@, t)]
  BY DEF Attach, Proper, Mapped
<1>2. s = IF c = Nul THEN TextDelete(p.text, Index(d, t), clamps)
          ELSE TextInsert(p.text, Index(e, t), c)
  BY <1>1 DEF Attach
<1> HIDE DEF d, e, s
<1>3. Proper(d) /\ OnceListed(d) /\ d.tags \in Seq(Tags)
  BY DEF d, Proper, Listed
<1>4. /\ e.ch[t] = c /\ \A u \in DOMAIN d.ch : u # t => e.ch[u] = d.ch[u]
      /\ \A u \in ListedTags(d) : u \in DOMAIN d.ch
  <2>1. e.ch[t] = c /\ \A u \in DOMAIN d.ch : u # t => e.ch[u] = d.ch[u]
    BY <1>1 DEF MapSet
  <2> QED
    BY <1>3, <2>1 DEF Proper, Listed, ListedTags
<1>5. /\ IsFiniteSet(ShownTags(d)) /\ CountShown(d) = Cardinality(ShownTags(d))
      /\ CountShown(d) \in Nat
  BY <1>3, CountByTags
<1>6. Len(p.text) \in Nat /\ Len(p.text) <= CountShown(d) + more
  BY DEF d
<1>7. CASE c = Nul
  <2>1. e.tags = d.tags
    BY <1>1, <1>7
  <2>2. OnceListed(e) /\ ListedTags(e) = ListedTags(d)
    BY <1>3, <2>1 DEF OnceListed, ListedTags
  <2>3. ShownTags(e) = ShownTags(d) \ {t}
    BY <1>4, <1>7, <2>2 DEF ShownTags, Shown
  <2>4. CountShown(e) = Cardinality(ShownTags(e)) /\ CountShown(e) \in Nat
    BY <1>3, <2>1, <2>2, CountByTags
  <2>5. PICK pos \in Int : pos = Index(d, t)
    <3>1. Index(d, t) \in Nat \cup {-1}
      BY <1>3, IndexIs
    <3> QED
      BY <3>1
  <2>6. Len(s) = Len(p.text) - 1 \/ (Len(s) = Len(p.text) /\ ~ pos \in 0..(Len(p.text) - 1))
    BY <1>2, <1>7, <2>5, TextDeleteLen
  <2>7. ASSUME t \notin ShownTags(d)
        PROVE  Len(s) <= CountShown(e) + more
    <3>1. CountShown(e) = CountShown(d)
      <4>1. ShownTags(e) = ShownTags(d)
        BY <2>3, <2>7
      <4> QED
        BY <1>5, <2>4, <4>1
    <3> QED
      BY <1>5, <1>6, <2>6, <3>1
  <2>8. ASSUME t \in ShownTags(d)
        PROVE  Len(s) <= CountShown(e) + more
    <3>1. CountShown(e) = CountShown(d) - 1
      <4>1. Cardinality(ShownTags(d) \ {t}) = Cardinality(ShownTags(d)) - 1
        BY <1>5, <2>8, FS_RemoveElement
      <4> QED
        BY <1>5, <2>3, <2>4, <4>1
    <3> DEFINE K == {k \in Before(d.tags, t) : Shown(d, d.tags[k])}
               T == {d.tags[k] : k \in K}
    <3>2. pos = Cardinality(K)
      BY <2>5, <2>8 DEF Index, ShownTags, ListedTags
    <3>3. K \in SUBSET DOMAIN d.tags /\ T \subseteq ShownTags(e)
      <4>1. K \in SUBSET DOMAIN d.tags
        BY DEF Before
      <4>2. T \subseteq ShownTags(d) /\ t \notin T
        <5>1. \A k \in K : d.tags[k] \in ShownTags(d)
          BY <4>1 DEF ShownTags, ListedTags
        <5>2. t \in Tags
          BY OneAssumption, SMT DEF Tags, NullTag
        <5>3. Rank(t) \in Nat
          BY <5>2, RankIs
        <5>4. \A k \in K : d.tags[k] # t
          BY <5>3 DEF Before
        <5> QED
          BY <5>1, <5>4
      <4> QED
        BY <2>3, <4>1, <4>2
    <3> HIDE DEF K
    <3>4. IsFiniteSet(K) /\ Cardinality(K) = Cardinality(T)
      <4>1. At(d, K, T)
        BY <3>3 DEF At
      <4> HIDE DEF T
      <4> QED
        BY <1>3, <4>1, PlacesCount
    <3>5. Cardinality(T) <= CountShown(e)
      <4>1. IsFiniteSet(ShownTags(e))
        BY <1>3, <2>1, <2>2, CountByTags
      <4> HIDE DEF T
      <4> QED
        BY <2>4, <3>3, <4>1, FS_Subset
    <3>6. pos \in Nat
      BY <3>2, <3>4, FS_CardinalityType
    <3>7. pos <= CountShown(e)
      BY <3>2, <3>4, <3>5
    <3> HIDE DEF T
    <3>8. CASE Len(s) = Len(p.text) - 1
      BY <1>5, <1>6, <3>1, <3>8
    <3>9. CASE Len(s) = Len(p.text) /\ ~ pos \in 0..(Len(p.text) - 1)
      <4>1. Len(p.text) <= pos
        BY <1>6, <3>6, <3>9
      <4> QED
        BY <1>6, <2>4, <3>6, <3>7, <3>9, <4>1
    <3> QED
      BY <2>6, <3>8, <3>9
  <2>9. Len(s) <= CountShown(e) + more
    BY <2>7, <2>8
  <2> QED
    BY <1>7, <2>2, <2>9 DEF d, e, s
<1>8. CASE c # Nul
  <2>1. t \in Tags \ ListedTags(d) /\ e.tags = Push(d.tags, t) /\ c \in S
    <3>1. t \in Tags
      BY OneAssumption, SMT DEF Tags, NullTag
    <3> QED
      BY <1>1, <1>8, <3>1 DEF d
  <2>2. e.tags \in Seq(Tags) /\ OnceListed(e) /\ ListedTags(e) = ListedTags(d) \cup {t}
    BY <1>3, <2>1, PushOnce DEF Proper, Listed
  <2>3. ShownTags(e) = ShownTags(d) \cup {t} /\ t \notin ShownTags(d)
    BY <1>4, <1>8, <2>1, <2>2 DEF ShownTags, Shown
  <2>4. CountShown(e) = Cardinality(ShownTags(e))
    BY <2>2, CountByTags
  <2>5. CountShown(e) = CountShown(d) + 1
    <3>1. PICK A : A = ShownTags(d)
      OBVIOUS
    <3>2. IsFiniteSet(A) /\ t \notin A
      BY <1>5, <2>3, <3>1
    <3>3. Cardinality(A \cup {t}) = Cardinality(A) + 1
      BY <3>2, FS_AddElement
    <3> QED
      BY <1>5, <2>3, <2>4, <3>1, <3>3
  <2>6. Index(e, t) \in Nat
    <3>1. \E k \in DOMAIN e.tags : e.tags[k] = t
      BY <2>2 DEF ListedTags
    <3> QED
      BY <2>2, <3>1, IndexIs
  <2>7. Len(s) = Len(p.text) + 1
    BY <1>2, <1>8, <2>1, <2>6, TextInsertLen
  <2>8. Len(s) <= CountShown(e) + more
    BY <1>5, <1>6, <2>5, <2>7
  <2> QED
    BY <1>8, <2>2, <2>8 DEF d, e, s
<1> QED
  BY <1>7, <1>8

(* A page p with at most "more" characters more in its editor than in its  *)
(* document; changes that insert tags that are new to it; changes that     *)
(* insert different tags; and the page q that they make of p.              *)
Ahead(p, more, S) ==
  /\ Proper(p.doc) /\ OnceListed(p.doc) /\ p.text \in Seq(S)
  /\ Len(p.text) <= CountShown(p.doc) + more
NewTo(p, changes, S) ==
  \A k \in 1..Len(changes) :
    /\ changes[k].tag \in 1..NullTag /\ changes[k].ch \in S \cup {Nul}
    /\ changes[k].tag = One => changes[k].ch = Nul
    /\ changes[k].ch # Nul => changes[k].tag \notin ListedTags(p.doc)
StillAhead(p, q, changes, more) ==
  /\ OnceListed(q.doc) /\ Len(q.text) <= CountShown(q.doc) + more
  /\ \A t \in ListedTags(q.doc) \ ListedTags(p.doc) :
       \E k \in 1..Len(changes) : changes[k].ch # Nul /\ changes[k].tag = t
Differing(changes) ==
  \A i, j \in 1..Len(changes) :
    changes[i].ch # Nul /\ changes[j].ch # Nul /\ changes[i].tag = changes[j].tag => i = j

(* Neither do all those of an answer, if they insert different new tags.   *)
LEMMA AttachAllCount ==
  ASSUME NEW S \in SUBSET Nat, NEW more \in Nat, NEW p, Ahead(p, more, S),
         NEW T, NEW changes \in Seq(T), NewTo(p, changes, S), Differing(changes), NEW clamps
  PROVE  StillAhead(p, AttachAll(p, changes, clamps), changes, more)
<1>1. PICK page : /\ Attached(p, changes, clamps, page)
                  /\ AttachAll(p, changes, clamps) = page[Len(changes)]
  BY AttachAllRuns
<1> DEFINE n == Len(changes)
           New(k) == {t \in 1..NullTag :
                        \E i \in 1..k : changes[i].ch # Nul /\ changes[i].tag = t}
           Good == {k \in 0..n :
                      /\ Proper(page[k].doc) /\ page[k].text \in Seq(S)
                      /\ OnceListed(page[k].doc)
                      /\ Len(page[k].text) <= CountShown(page[k].doc) + more
                      /\ ListedTags(page[k].doc) \subseteq ListedTags(p.doc) \cup New(k)}
<1>2. n \in Nat
  OBVIOUS
<1>3. 0 \in Good
  BY <1>1, <1>2 DEF Attached, Ahead
<1>4. ASSUME NEW k \in 0..n, k \in Good, k + 1 <= n PROVE k + 1 \in Good
  <2>1. k + 1 \in 1..n /\ (k + 1) - 1 = k /\ k \in Nat
    BY <1>2, <1>4
  <2> DEFINE t == changes[k + 1].tag   c == changes[k + 1].ch
  <2>2. page[k + 1] = Attach(page[k], t, c, clamps)
    BY <1>1, <2>1 DEF Attached
  <2>3. t \in 1..NullTag /\ c \in S \cup {Nul} /\ (t = One => c = Nul)
    BY <2>1 DEF NewTo
  <2>4. /\ Proper(page[k].doc) /\ page[k].text \in Seq(S) /\ OnceListed(page[k].doc)
        /\ Len(page[k].text) <= CountShown(page[k].doc) + more
        /\ ListedTags(page[k].doc) \subseteq ListedTags(p.doc) \cup New(k)
    BY <1>4
  <2>5. c # Nul => t \notin ListedTags(page[k].doc)
    <3> SUFFICES ASSUME c # Nul PROVE t \notin ListedTags(p.doc) \cup New(k)
      BY <2>4
    <3>1. \A i \in 1..k : i \in 1..n /\ i # k + 1
      BY <1>2, <2>1
    <3>2. t \notin New(k)
      BY <2>1, <3>1 DEF Differing
    <3> QED
      BY <2>1, <3>2 DEF NewTo
  <2>6. New(k) \subseteq New(k + 1) /\ (c # Nul => t \in New(k + 1))
    <3>1. \A i \in 1..k : i \in 1..(k + 1)
      BY <2>1
    <3>2. k + 1 \in 1..(k + 1)
      BY <2>1
    <3> QED
      BY <2>3, <3>1, <3>2
  <2> HIDE DEF t, c, New
  <2>7. Proper(page[k + 1].doc) /\ page[k + 1].text \in Seq(S)
    BY <2>2, <2>3, <2>4, AttachProper
  <2>8. /\ OnceListed(page[k + 1].doc)
        /\ ListedTags(page[k + 1].doc) = ListedTags(page[k].doc) \cup (IF c = Nul THEN {} ELSE {t})
        /\ Len(page[k + 1].text) <= CountShown(page[k + 1].doc) + more
    <3>1. PICK r : r = page[k]
      OBVIOUS
    <3>2. /\ Proper(r.doc) /\ OnceListed(r.doc) /\ r.text \in Seq(S)
          /\ Len(r.text) <= CountShown(r.doc) + more /\ (c # Nul => t \notin ListedTags(r.doc))
      BY <2>4, <2>5, <3>1
    <3>3. LET q == Attach(r, t, c, clamps)
          IN  /\ OnceListed(q.doc)
              /\ ListedTags(q.doc) = ListedTags(r.doc) \cup (IF c = Nul THEN {} ELSE {t})
              /\ Len(q.text) <= CountShown(q.doc) + more
      BY <2>3, <3>2, AttachCount
    <3> QED
      BY <2>2, <3>1, <3>3
  <2>9. ListedTags(page[k + 1].doc) \subseteq ListedTags(p.doc) \cup New(k + 1)
    BY <2>4, <2>6, <2>8
  <2>10. k + 1 \in 0..n
    BY <2>1
  <2> QED
    BY <2>7, <2>8, <2>9, <2>10
<1>5. n \in Good
  <2> HIDE DEF Good
  <2>1. \A k \in 0..n : k \in Good /\ k + 1 <= n => k + 1 \in Good
    BY <1>4
  <2>2. 0..n \subseteq Good
    BY <1>2, <1>3, <2>1, Induction
  <2> QED
    BY <1>2, <2>2
<1>6. \A t \in New(n) : \E i \in 1..n : changes[i].ch # Nul /\ changes[i].tag = t
  OBVIOUS
<1>7. /\ OnceListed(page[n].doc) /\ Len(page[n].text) <= CountShown(page[n].doc) + more
      /\ ListedTags(page[n].doc) \subseteq ListedTags(p.doc) \cup New(n)
  BY <1>5
<1> HIDE DEF New, Good
<1>8. \A t \in ListedTags(page[n].doc) \ ListedTags(p.doc) :
        \E i \in 1..n : changes[i].ch # Nul /\ changes[i].tag = t
  BY <1>6, <1>7
<1> QED
  BY <1>1, <1>7, <1>8 DEF StillAhead

-----------------------------------------------------------------------------
(***************************************************************************)
(* Documents of one's own tags only.                                       *)
(***************************************************************************)
InShare(t, index, n) == index * One < t * n /\ t * n < (index + 1) * One

Solo(d, index, n) ==
  /\ OnceListed(d) /\ d.ack[One]
  /\ \A t \in DOMAIN d.ch \ {0, One} :
       t \in 1..(One - 1) /\ ~ Tiny(t) /\ ~ d.ack[t] /\ InShare(t, index, n)

(* Its tags are in the order of their values, from 0 to 1.                 *)
LEMMA SoloOrdered ==
  ASSUME NEW d, Proper(d), NEW index, NEW n, Solo(d, index, n)
  PROVE  /\ \A k \in DOMAIN d.tags : d.tags[k] \in 0..One
         /\ \A i, j \in DOMAIN d.tags : i < j => d.tags[i] < d.tags[j]
         /\ \A k \in DOMAIN d.tags : /\ d.ack[d.tags[k]] <=> d.tags[k] \in {0, One}
                                     /\ d.tags[k] = 0 <=> k = 1
                                     /\ d.tags[k] = One <=> k = Len(d.tags)
<1> DEFINE N == Len(d.tags)
<1>1. N \in Nat /\ N >= 2 /\ DOMAIN d.tags = 1..N
  BY DEF Proper, Listed, Ended
<1>2. One \in Nat /\ One > 0
  BY OneAssumption, SMT
<1>3. ASSUME NEW k \in DOMAIN d.tags
      PROVE  /\ d.tags[k] \in 0..One /\ d.tags[k] \in Int /\ Rank(d.tags[k]) = d.tags[k]
             /\ d.ack[d.tags[k]] <=> d.tags[k] \in {0, One}
  <2>1. d.tags[k] \in DOMAIN d.ch
    BY DEF Proper, Listed
  <2>2. CASE d.tags[k] \in {0, One}
    <3>1. d.ack[0] /\ d.ack[One]
      BY DEF Proper, Charred, Solo
    <3> QED
      BY <1>2, <2>2, <3>1, RankIs
  <2>3. CASE d.tags[k] \notin {0, One}
    <3>1. d.tags[k] \in 1..(One - 1) /\ ~ Tiny(d.tags[k]) /\ ~ d.ack[d.tags[k]]
      BY <2>1, <2>3 DEF Solo
    <3>2. d.tags[k] # NullTag
      BY <1>2, <3>1 DEF NullTag
    <3> QED
      BY <1>2, <2>3, <3>1, <3>2 DEF Rank
  <2> QED
    BY <2>2, <2>3
<1> HIDE DEF N
<1>4. ASSUME NEW i \in DOMAIN d.tags, NEW j \in DOMAIN d.tags, i < j
      PROVE  d.tags[i] < d.tags[j]
  <2>1. Rank(d.tags[i]) <= Rank(d.tags[j])
    BY <1>4 DEF Proper, Listed, Ranked
  <2>2. i # j
    BY <1>1, <1>4
  <2>3. d.tags[i] # d.tags[j]
    BY <2>2 DEF Solo, OnceListed
  <2>4. d.tags[i] <= d.tags[j] /\ d.tags[i] \in Int /\ d.tags[j] \in Int
    BY <1>3, <2>1
  <2> QED
    BY <2>3, <2>4
<1>5. ASSUME NEW k \in DOMAIN d.tags
      PROVE  d.tags[k] = 0 <=> k = 1
  <2>1. d.tags[1] = 0 /\ \A i \in 2..Len(d.tags) : d.tags[i] # 0
    BY DEF Proper, Ended
  <2> QED
    BY <1>1, <2>1 DEF N
<1>6. ASSUME NEW k \in DOMAIN d.tags
      PROVE  d.tags[k] = One <=> k = N
  <2>1. PICK o \in 2..N : \A i \in 1..N : d.tags[i] = One <=> i = o
    BY DEF Proper, Ended, N
  <2>2. o = N
    <3>1. o \in DOMAIN d.tags /\ N \in DOMAIN d.tags
      BY <1>1, <2>1
    <3>2. d.tags[o] = One
      BY <1>1, <2>1, <3>1
    <3>3. o < N => d.tags[o] < d.tags[N]
      BY <1>4, <3>1
    <3>4. d.tags[N] \in 0..One
      BY <1>3, <3>1
    <3> QED
      BY <1>1, <1>2, <2>1, <3>2, <3>3, <3>4
  <2> QED
    BY <1>1, <2>1, <2>2
<1> QED
  BY <1>3, <1>4, <1>5, <1>6 DEF N

(* The acknowledged tags around two neighbours are 0 and 1.                *)
LEMMA SoloAcked ==
  ASSUME NEW d, Proper(d), NEW index, NEW n, Solo(d, index, n),
         NEW k \in 1..(Len(d.tags) - 1)
  PROVE  /\ ~ d.ack[d.tags[k]] => AckedBefore(d, k) = 0
         /\ ~ d.ack[d.tags[k + 1]] => AckedAfter(d, k) = One
<1> DEFINE N == Len(d.tags)
<1>1. N \in Nat /\ N >= 2 /\ DOMAIN d.tags = 1..N
  BY DEF Proper, Listed, Ended
<1>2. \A i \in DOMAIN d.tags : /\ d.ack[d.tags[i]] <=> d.tags[i] \in {0, One}
                               /\ d.tags[i] = 0 <=> i = 1
                               /\ d.tags[i] = One <=> i = N
  BY SoloOrdered
<1> HIDE DEF N
<1>3. ASSUME ~ d.ack[d.tags[k]] PROVE AckedBefore(d, k) = 0
  <2>1. PICK i \in Acked(d, 1, k - 1) : AckedBefore(d, k) = d.tags[i] /\ i \in 1..(k - 1)
    BY <1>3, AckedBeforeIs
  <2>2. d.ack[d.tags[i]]
    BY DEF Acked
  <2>3. i \in 1..N /\ i # N
    BY <1>1, <2>1 DEF N
  <2> QED
    BY <1>1, <1>2, <2>1, <2>2, <2>3
<1>4. ASSUME ~ d.ack[d.tags[k + 1]] PROVE AckedAfter(d, k) = One
  <2>1. k + 1 \in 1..N /\ N \in 1..N
    BY <1>1 DEF N
  <2>2. k + 1 # N /\ d.ack[d.tags[N]]
    BY <1>1, <1>2, <1>4, <2>1
  <2>3. N \in (k + 2)..N
    BY <1>1, <2>1, <2>2
  <2>4. N \in Acked(d, k + 2, N)
    BY <2>2, <2>3 DEF Acked
  <2>5. Acked(d, k + 2, Len(d.tags)) # {}
    BY <2>4 DEF N
  <2>6. PICK i \in Acked(d, k + 2, Len(d.tags)) :
          AckedAfter(d, k) = d.tags[i] /\ i \in (k + 2)..Len(d.tags)
    BY <2>5, AckedAfterIs
  <2>7. d.ack[d.tags[i]]
    BY DEF Acked
  <2>8. i \in 1..N /\ i # 1
    BY <1>1, <2>1, <2>6 DEF N
  <2> QED
    BY <1>1, <1>2, <2>6, <2>7, <2>8
<1> QED
  BY <1>3, <1>4

(* A new tag lies between its neighbours, and in the share.                *)
LEMMA SoloNew ==
  ASSUME NEW d, Proper(d), NEW pos \in Nat, ~ Throws(d, pos),
         NEW n \in Nat, NEW index \in 0..(n - 1), Whole(d, pos, index, n), Solo(d, index, n)
  PROVE  LET t == NewTag(d, pos, index, n)
         IN  t \in 1..(One - 1) /\ InShare(t, index, n) /\ t \notin ListedTags(d)
<1> DEFINE t == NewTag(d, pos, index, n)   k == Neighbour(d, pos)
           l == d.tags[k]   r == d.tags[k + 1]   N == Len(d.tags)
           A == index * One   B == (index + 1) * One
           L == Left(d, k, index, n)   R == Right(d, k, index, n)
<1>1. t \in 1..(One - 1) /\ 2 * (t * n) = Sum(d, pos, index, n)
  BY NewTagBetween
<1>2. N \in Nat /\ N >= 2 /\ DOMAIN d.tags = 1..N
  BY DEF Proper, Listed, Ended
<1>3. k \in 1..(N - 1) /\ k + 1 \in 2..N
  BY NeighbourIs
<1>4. One \in Nat /\ One > 0 /\ n > 0
  BY OneAssumption, SMT
<1>5. Sum(d, pos, index, n) = L + R
  BY DEF Sum
<1> HIDE DEF t, k, N
<1>6. k \in DOMAIN d.tags /\ k + 1 \in DOMAIN d.tags /\ k # N /\ k + 1 # 1 /\ k < k + 1
  BY <1>2, <1>3
<1>7. /\ \A i \in DOMAIN d.tags : d.tags[i] \in 0..One
      /\ \A i, j \in DOMAIN d.tags : i < j => d.tags[i] < d.tags[j]
      /\ \A i \in DOMAIN d.tags : /\ d.ack[d.tags[i]] <=> d.tags[i] \in {0, One}
                                  /\ d.tags[i] = 0 <=> i = 1
                                  /\ d.tags[i] = One <=> i = N
  BY SoloOrdered DEF N
<1>8. /\ l \in 0..One /\ r \in 0..One /\ l < r
      /\ d.ack[l] => l = 0
      /\ d.ack[r] => r = One
  BY <1>6, <1>7
<1>9. /\ ~ d.ack[l] => AckedBefore(d, k) = 0
      /\ ~ d.ack[r] => AckedAfter(d, k) = One
  BY <1>3, SoloAcked DEF N
<1>10. l \in DOMAIN d.ch /\ r \in DOMAIN d.ch
  BY <1>6 DEF Proper, Listed
<1>11. /\ ~ d.ack[l] => InShare(l, index, n)
       /\ ~ d.ack[r] => InShare(r, index, n)
  BY <1>6, <1>7, <1>10 DEF Solo
<1>12. L = IF d.ack[l] THEN A ELSE l * n
  <2>1. CASE d.ack[l]
    <3>1. L = l * n + index * ((IF d.ack[r] THEN r ELSE AckedAfter(d, k)) - l)
      BY <2>1 DEF Left
    <3>2. (IF d.ack[r] THEN r ELSE AckedAfter(d, k)) = One /\ l = 0
      BY <1>8, <1>9, <2>1
    <3>3. L = 0 * n + index * (One - 0)
      BY <3>1, <3>2
    <3> HIDE DEF L, l
    <3> QED
      BY <1>4, <2>1, <3>3
  <2>2. CASE ~ d.ack[l]
    BY <2>2 DEF Left
  <2> QED
    BY <2>1, <2>2
<1>13. R = IF d.ack[r] THEN B ELSE r * n
  <2>1. CASE d.ack[r]
    <3>1. R = (IF d.ack[l] THEN l ELSE AckedBefore(d, k)) * n
              + (index + 1) * (r - (IF d.ack[l] THEN l ELSE AckedBefore(d, k)))
      BY <2>1 DEF Right
    <3>2. (IF d.ack[l] THEN l ELSE AckedBefore(d, k)) = 0 /\ r = One
      BY <1>8, <1>9, <2>1
    <3>3. R = 0 * n + (index + 1) * (One - 0)
      BY <3>1, <3>2
    <3> HIDE DEF R, r
    <3> QED
      BY <1>4, <2>1, <3>3
  <2>2. CASE ~ d.ack[r]
    BY <2>2 DEF Right
  <2> QED
    BY <2>1, <2>2
<1> HIDE DEF l, r, L, R
<1>14. /\ A \in Int /\ B \in Int /\ A < B /\ A >= 0 /\ B <= One * n
       /\ l * n \in Int /\ r * n \in Int /\ t * n \in Int /\ One * n \in Int /\ l * n < r * n
  <2>1. A \in Int /\ B = A + One /\ A >= 0
    BY <1>4
  <2>2. B <= One * n
    <3>1. index + 1 <= n /\ index + 1 \in Int
      OBVIOUS
    <3>2. (index + 1) * One <= n * One
      BY <1>4, <3>1, Times
    <3>3. n * One = One * n
      BY <1>4
    <3> QED
      BY <3>2, <3>3
  <2>3. l \in Int /\ r \in Int /\ t \in Int
    BY <1>1, <1>8
  <2>4. l * n < r * n /\ l * n \in Int /\ r * n \in Int /\ t * n \in Int
    BY <1>4, <1>8, <2>3, Times
  <2>5. One * n \in Int
    BY <1>4
  <2> HIDE DEF A, B
  <2> QED
    BY <1>4, <2>1, <2>2, <2>4, <2>5
<1>15. /\ ~ d.ack[l] => A < l * n /\ l * n < B
       /\ ~ d.ack[r] => A < r * n /\ r * n < B
  BY <1>11 DEF InShare
<1>16. /\ d.ack[l] => l * n = 0
       /\ d.ack[r] => r * n = One * n
  BY <1>4, <1>8
<1> DEFINE ln == l * n   rn == r * n   tn == t * n   on == One * n
<1> HIDE DEF A, B
<1>17. A <= L /\ L < R /\ R <= B /\ ln <= L /\ R <= rn /\ L \in Int /\ R \in Int
  <2>1. ln = l * n /\ rn = r * n /\ on = One * n
    OBVIOUS
  <2> HIDE DEF ln, rn, on
  <2>2. /\ A \in Int /\ B \in Int /\ A < B /\ A >= 0 /\ B <= on
        /\ ln \in Int /\ rn \in Int /\ on \in Int /\ ln < rn
        /\ L = (IF d.ack[l] THEN A ELSE ln) /\ R = (IF d.ack[r] THEN B ELSE rn)
        /\ ~ d.ack[l] => A < ln /\ ln < B
        /\ ~ d.ack[r] => A < rn /\ rn < B
        /\ d.ack[l] => ln = 0
        /\ d.ack[r] => rn = on
    BY <1>12, <1>13, <1>14, <1>15, <1>16, <2>1
  <2> QED
    BY <2>2
<1>18. ln < tn /\ tn < rn /\ A < tn /\ tn < B
  <2>1. 2 * tn = L + R
    BY <1>1, <1>5
  <2>2. tn \in Int /\ ln \in Int /\ rn \in Int /\ A \in Int /\ B \in Int
    BY <1>14
  <2> HIDE DEF ln, rn, tn
  <2> QED
    BY <1>17, <2>1, <2>2
<1>19. l < t /\ t < r
  <2>1. l \in Int /\ r \in Int /\ t \in Int
    BY <1>1, <1>8
  <2>2. (t <= l => t * n <= l * n) /\ (r <= t => r * n <= t * n)
    BY <1>4, <2>1, Times
  <2>3. l * n < t * n /\ t * n < r * n /\ l * n \in Int /\ r * n \in Int /\ t * n \in Int
    BY <1>14, <1>18
  <2> QED
    BY <2>1, <2>2, <2>3
<1>20. t \notin ListedTags(d)
  <2> SUFFICES ASSUME NEW i \in DOMAIN d.tags, d.tags[i] = t
               PROVE  FALSE
    BY DEF ListedTags
  <2>1. i < k \/ i = k \/ i = k + 1 \/ k + 1 < i
    BY <1>2, <1>3
  <2>2. i < k => t < l
    BY <1>6, <1>7 DEF l
  <2>3. k + 1 < i => r < t
    BY <1>6, <1>7 DEF r
  <2>4. (i = k => t = l) /\ (i = k + 1 => t = r)
    BY DEF l, r
  <2>5. l \in Int /\ r \in Int /\ t \in Int
    BY <1>1, <1>8
  <2> QED
    BY <1>19, <2>1, <2>2, <2>3, <2>4, <2>5
<1>21. InShare(t, index, n)
  BY <1>18 DEF InShare, A, B
<1> QED
  BY <1>1, <1>20, <1>21 DEF t

(* It is one of one's own in turn, ...                                     *)
LEMMA SoloAdd ==
  ASSUME NEW d, Proper(d), NEW index, NEW n, Solo(d, index, n),
         NEW t \in (1..(One - 1)) \ ListedTags(d), ~ Tiny(t), InShare(t, index, n), NEW c
  PROVE  /\ Solo(Add(d, t, c), index, n)
         /\ DOMAIN Add(d, t, c).ch = DOMAIN d.ch \cup {t}
<1> DEFINE e == Add(d, t, c)
<1>1. /\ e.tags = Push(d.tags, t)
      /\ e.ch = MapSet(d.ch, t, c) /\ e.ack = MapSet(d.ack, t, FALSE)
  BY DEF Add
<1> HIDE DEF e
<1>2. One \in Nat /\ t \in Tags /\ t # One
  BY OneAssumption, SMT DEF Tags, NullTag
<1>3. OnceListed(e)
  <2>1. d.tags \in Seq(Tags) /\ Ranked(d.tags) /\ OnceListed(d)
    BY DEF Proper, Listed, Solo
  <2> QED
    BY <1>1, <1>2, <2>1, PushOnce
<1>4. /\ DOMAIN e.ch = DOMAIN d.ch \cup {t}
      /\ \A u \in DOMAIN d.ack \cup {t} : e.ack[u] = IF u = t THEN FALSE ELSE d.ack[u]
  BY <1>1 DEF MapSet
<1>5. DOMAIN d.ack = DOMAIN d.ch /\ One \in DOMAIN d.ch
  BY DEF Proper, Mapped, Charred
<1>6. e.ack[One]
  BY <1>2, <1>4, <1>5 DEF Solo
<1>7. ASSUME NEW u \in DOMAIN e.ch \ {0, One}
      PROVE  u \in 1..(One - 1) /\ ~ Tiny(u) /\ ~ e.ack[u] /\ InShare(u, index, n)
  <2>1. CASE u = t
    BY <1>4, <2>1
  <2>2. CASE u # t
    BY <1>4, <1>5, <2>2 DEF Solo
  <2> QED
    BY <2>1, <2>2
<1> QED
  BY <1>3, <1>4, <1>6, <1>7 DEF Solo, e

Goes(d, gone) ==
  \E from, to \in Nat :
    gone = {DeleteTag(d, p) : p \in {q \in (from + 1)..to : Deletable(d, q)}}

(* ... and what is hidden still is, for '1' is not among it.               *)
LEMMA SoloHide ==
  ASSUME NEW d, Proper(d), NEW index, NEW n, Solo(d, index, n), NEW gone, Goes(d, gone)
  PROVE  Solo(Hide(d, gone), index, n) /\ DOMAIN Hide(d, gone).ch = DOMAIN d.ch
<1>0. PICK from \in Nat, to \in Nat :
        gone = {DeleteTag(d, p) : p \in {q \in (from + 1)..to : Deletable(d, q)}}
  BY DEF Goes
<1> DEFINE e == Hide(d, gone)   N == Len(d.tags)
<1>1. /\ e.tags = d.tags
      /\ e.ch = [u \in DOMAIN d.ch |-> IF u \in gone THEN Nul ELSE d.ch[u]]
      /\ e.ack = [u \in DOMAIN d.ack |-> d.ack[u] /\ u \notin gone]
  <2> DEFINE ch == [u \in DOMAIN d.ch |-> IF u \in gone THEN Nul ELSE d.ch[u]]
             ack == [u \in DOMAIN d.ack |-> d.ack[u] /\ u \notin gone]
  <2>1. e = [d EXCEPT !.ch = ch, !.ack = ack]
    BY DEF Hide
  <2> HIDE DEF e, ch, ack
  <2>2. d = [tags |-> d.tags, ch |-> d.ch, ack |-> d.ack]
    BY DEF Proper, Mapped
  <2>3. e.tags = d.tags /\ e.ch = ch /\ e.ack = ack
    BY <2>1, <2>2
  <2> QED
    BY <2>3 DEF ch, ack
<1> HIDE DEF e
<1>2. One \notin gone
  <2> SUFFICES ASSUME NEW p \in (from + 1)..to, Deletable(d, p)
               PROVE  DeleteTag(d, p) # One
    BY <1>0
  <2>1. N \in Nat /\ DOMAIN d.tags = 1..N
    BY DEF Proper, Listed, Ended
  <2>2. p <= CountShown(d) /\ CountShown(d) \in 0..(N - 2)
    BY CountShownBound DEF Deletable
  <2> HIDE DEF N
  <2>3. p + 1 \in DOMAIN d.tags /\ p + 1 # N
    BY <2>1, <2>2
  <2>4. d.tags[p + 1] # One
    BY <2>3, SoloOrdered DEF N
  <2> QED
    BY <2>4 DEF DeleteTag
<1>3. OnceListed(e)
  BY <1>1 DEF Solo, OnceListed
<1>4. DOMAIN e.ch = DOMAIN d.ch /\ DOMAIN d.ack = DOMAIN d.ch /\ One \in DOMAIN d.ch
  BY <1>1 DEF Proper, Mapped, Charred
<1>5. e.ack[One]
  BY <1>1, <1>2, <1>4 DEF Solo
<1>6. ASSUME NEW u \in DOMAIN e.ch \ {0, One}
      PROVE  u \in 1..(One - 1) /\ ~ Tiny(u) /\ ~ e.ack[u] /\ InShare(u, index, n)
  <2>1. ~ d.ack[u] /\ u \in DOMAIN d.ack
    BY <1>4 DEF Solo
  <2>2. ~ e.ack[u]
    BY <1>1, <2>1
  <2> QED
    BY <1>4, <2>2 DEF Solo
<1> QED
  BY <1>3, <1>4, <1>5, <1>6 DEF Solo, e

-----------------------------------------------------------------------------
(***************************************************************************)
(* The piece of a document: it depends on which tags are shown before '1', *)
(* and on their characters.                                                *)
(***************************************************************************)
(* The tags that PPS.insert makes; and those that are shown before '1'.    *)
Stamps == 1..(One - 1)
Early(d) == {t \in ShownTags(d) : Rank(t) < Rank(One)}

(* Before '1' a tag is sorted by its value; and '1' is alone in its place. *)
LEMMA EarlyRank ==
  /\ \A t \in Tags : Rank(t) < Rank(One) => Rank(t) = t /\ t \in 0..(One - 1)
  /\ \A t \in Tags : Rank(t) = Rank(One) => t = One
  /\ Rank(One) \in Nat
<1>1. One \in Nat /\ One >= 1 /\ NullTag = One + 1 /\ Tags = 0..NullTag /\ Rank(One) = One
  <2>1. One \in Nat /\ One >= 1
    BY OneAssumption, SMT
  <2>2. NullTag = One + 1 /\ Tags = 0..NullTag
    BY Zenon DEF NullTag, Tags
  <2> QED
    BY <2>1, <2>2, RankIs
<1>2. \A t : /\ t = NullTag => Rank(t) = 3 * One
             /\ t # NullTag /\ Tiny(t) => Rank(t) = One + t
             /\ t # NullTag /\ ~ Tiny(t) => Rank(t) = t
  BY DEF Rank
<1>3. \A t \in Tags : Tiny(t) => 0 < t
  BY DEF Tiny
<1>4. ASSUME NEW t \in Tags
      PROVE  /\ Rank(t) < Rank(One) => Rank(t) = t /\ t \in 0..(One - 1)
             /\ Rank(t) = Rank(One) => t = One
  <2>1. t \in Nat
    BY <1>1
  <2>2. CASE t = NullTag
    BY <1>1, <1>2, <2>2, SMT
  <2>3. CASE t # NullTag /\ Tiny(t)
    BY <1>1, <1>2, <1>3, <2>1, <2>3, SMT
  <2>4. CASE t # NullTag /\ ~ Tiny(t)
    BY <1>1, <1>2, <2>1, <2>4, SMT
  <2> QED
    BY <2>2, <2>3, <2>4
<1> QED
  BY <1>1, <1>4

(* How many are shown grows by one with each tag that is shown.            *)
LEMMA UpToIs ==
  ASSUME NEW d, d.tags \in Seq(Tags)
  PROVE  /\ ShownUpTo(d, 0) = 0
         /\ \A k \in 0..Len(d.tags) : ShownUpTo(d, k) \in Nat
         /\ \A k \in 1..Len(d.tags) :
              ShownUpTo(d, k) = ShownUpTo(d, k - 1) + (IF Shown(d, d.tags[k]) THEN 1 ELSE 0)
<1> DEFINE n == Len(d.tags)   K(k) == {j \in 1..k : Shown(d, d.tags[j])}
<1>1. n \in Nat /\ \A k : ShownUpTo(d, k) = Cardinality(K(k))
  BY DEF ShownUpTo
<1>2. ASSUME NEW k \in 0..n PROVE IsFiniteSet(K(k)) /\ Cardinality(K(k)) \in Nat
  <2>1. k \in Int /\ 1 \in Int /\ K(k) \subseteq 1..k
    BY <1>1
  <2> HIDE DEF K
  <2>2. IsFiniteSet(1..k)
    BY <2>1, FS_Interval
  <2>3. IsFiniteSet(K(k))
    BY <2>1, <2>2, FS_Subset
  <2> QED
    BY <2>3, FS_CardinalityType
<1>3. K(0) = {}
  OBVIOUS
<1>4. ASSUME NEW k \in 1..n
      PROVE  Cardinality(K(k)) = Cardinality(K(k - 1)) + (IF Shown(d, d.tags[k]) THEN 1 ELSE 0)
  <2>1. PICK j \in 0..n : j = k - 1
    BY <1>1
  <2>2. PICK T : T = K(j)
    OBVIOUS
  <2>3. k \notin T /\ K(k) = IF Shown(d, d.tags[k]) THEN T \cup {k} ELSE T
    <3>1. 1..k = (1..j) \cup {k} /\ k \notin 1..j
      BY <2>1
    <3> QED
      BY <2>2, <3>1
  <2>4. IsFiniteSet(T)
    BY <1>2, <2>2
  <2> HIDE DEF K, n
  <2>5. Cardinality(T \cup {k}) = Cardinality(T) + 1
    BY <2>3, <2>4, FS_AddElement
  <2>6. Cardinality(T) \in Nat
    BY <2>4, FS_CardinalityType
  <2> QED
    BY <2>1, <2>2, <2>3, <2>5, <2>6
<1> HIDE DEF K
<1> QED
  BY <1>1, <1>2, <1>3, <1>4, FS_EmptySet DEF n

(* It never shrinks, and two tags that are shown differ in it.             *)
LEMMA UpToGrows ==
  ASSUME NEW d, d.tags \in Seq(Tags), NEW j \in 0..Len(d.tags), NEW k \in 0..Len(d.tags), j <= k
  PROVE  /\ ShownUpTo(d, j) <= ShownUpTo(d, k)
         /\ j < k /\ Shown(d, d.tags[k]) => ShownUpTo(d, j) < ShownUpTo(d, k)
<1> DEFINE n == Len(d.tags)
           Good == {x \in 0..n : j <= x => ShownUpTo(d, j) <= ShownUpTo(d, x)}
<1>1. n \in Nat /\ \A x \in 0..n : ShownUpTo(d, x) \in Nat
  BY UpToIs
<1>2. \A x \in 1..n : ShownUpTo(d, x - 1) <= ShownUpTo(d, x)
  <2>1. \A x \in 1..n : /\ x - 1 \in 0..n /\ x \in 0..n
                        /\ ShownUpTo(d, x) = ShownUpTo(d, x - 1) + (IF Shown(d, d.tags[x]) THEN 1 ELSE 0)
    BY <1>1, UpToIs
  <2> QED
    BY <1>1, <2>1
<1>3. 0 \in Good
  BY <1>1
<1>4. \A x \in 0..n : x \in Good /\ x + 1 <= n => x + 1 \in Good
  <2> SUFFICES ASSUME NEW x \in 0..n, x \in Good, x + 1 <= n PROVE x + 1 \in Good
    OBVIOUS
  <2>1. x + 1 \in 1..n /\ (x + 1) - 1 = x
    BY <1>1
  <2>2. ShownUpTo(d, x) <= ShownUpTo(d, x + 1)
    BY <1>2, <2>1
  <2>3. CASE j <= x
    <3>1. ShownUpTo(d, j) <= ShownUpTo(d, x)
      BY <2>3
    <3> QED
      BY <1>1, <2>1, <2>2, <3>1
  <2>4. CASE ~ j <= x
    <3>1. j <= x + 1 => j = x + 1
      BY <1>1, <2>4
    <3> QED
      BY <1>1, <2>1, <3>1
  <2> QED
    BY <2>3, <2>4
<1>5. 0..n \subseteq Good
  <2> HIDE DEF Good
  <2> QED
    BY <1>1, <1>3, <1>4, Induction
<1>6. ShownUpTo(d, j) <= ShownUpTo(d, k)
  BY <1>5
<1>7. ASSUME j < k, Shown(d, d.tags[k]) PROVE ShownUpTo(d, j) < ShownUpTo(d, k)
  <2>1. k \in 1..n /\ k - 1 \in 0..n /\ j <= k - 1
    BY <1>1, <1>7
  <2>2. ShownUpTo(d, k) = ShownUpTo(d, k - 1) + 1
    BY <1>7, <2>1, UpToIs
  <2>3. ShownUpTo(d, j) <= ShownUpTo(d, k - 1)
    BY <1>5, <2>1
  <2> QED
    BY <1>1, <2>1, <2>2, <2>3
<1> QED
  BY <1>6, <1>7

(* The i-th character of the piece is that of the i-th tag that is shown   *)
(* before '1'.                                                             *)
Ordinal(S, t) == Cardinality({u \in S : u <= t})
LEMMA PieceIs ==
  ASSUME NEW d, Proper(d), OnceAmong(d, Stamps)
  PROVE  /\ IsFiniteSet(Early(d)) /\ Early(d) \subseteq Stamps
         /\ Piece(d) = [i \in 1..Cardinality(Early(d)) |-> Piece(d)[i]]
         /\ \A i \in 1..Cardinality(Early(d)) :
              \E t \in Early(d) : Piece(d)[i] = d.ch[t] /\ Ordinal(Early(d), t) = i
<1> DEFINE tags == d.tags   n == Len(tags)   K(k) == {j \in 1..k : Shown(d, tags[j])}
<1>1. /\ tags \in Seq(Tags) /\ Ranked(tags) /\ n \in Nat /\ DOMAIN tags = 1..n
      /\ \A k \in 1..n : tags[k] \in Tags
  BY DEF Proper, Listed
<1>2. PICK m \in 0..n : Before(tags, One) = 1..m /\ Cardinality(Before(tags, One)) = m
  <2>1. One \in Tags
    BY OneAssumption, SMT DEF Tags, NullTag
  <2> HIDE DEF tags
  <2> QED
    BY <1>1, <2>1, BeforePrefix
<1>3. PICK o \in 1..n : tags[o] = One
  BY DEF Proper, Ended
<1>4. \A k \in 1..n : k <= m <=> Rank(tags[k]) < Rank(One)
  <2> HIDE DEF n, tags
  <2>1. \A k \in 1..n : k \in Before(tags, One) <=> Rank(tags[k]) < Rank(One)
    BY <1>1 DEF Before
  <2>2. \A k \in 1..n : k \in 1..m <=> k <= m
    BY <1>1
  <2> QED
    BY <1>2, <2>1, <2>2
<1>5. m + 1 \in 1..n /\ tags[m + 1] = One
  <2>1. \A k \in 1..n : Rank(tags[k]) \in Nat
    BY <1>1, RankIs
  <2>2. Rank(One) \in Nat
    BY EarlyRank
  <2> HIDE DEF n
  <2>3. m < o
    BY <1>1, <1>3, <1>4, <2>1, <2>2
  <2>4. m + 1 \in 1..n /\ m + 1 <= o
    BY <1>1, <2>3
  <2>5. Rank(tags[m + 1]) <= Rank(tags[o])
    <3>1. CASE m + 1 = o
      BY <2>1, <3>1
    <3>2. CASE m + 1 # o
      <4>1. m + 1 < o
        BY <1>1, <2>4, <3>2
      <4> QED
        BY <1>1, <1>3, <2>4, <4>1 DEF Ranked
    <3> QED
      BY <3>1, <3>2
  <2>6. ~ Rank(tags[m + 1]) < Rank(One)
    BY <1>1, <1>4, <2>4
  <2>7. Rank(tags[m + 1]) = Rank(One)
    BY <1>3, <2>1, <2>2, <2>4, <2>5, <2>6
  <2> QED
    BY <1>1, <2>4, <2>7, EarlyRank
<1>6. ~ Shown(d, One) /\ ~ Shown(d, 0)
  BY DEF Proper, Charred, Shown
<1>7. Early(d) \subseteq Stamps
  <2> SUFFICES ASSUME NEW t \in Early(d) PROVE t \in Stamps
    OBVIOUS
  <2>1. t \in Tags /\ Rank(t) < Rank(One) /\ Shown(d, t)
    BY <1>1 DEF Early, ShownTags, ListedTags
  <2>2. t \in 0..(One - 1) /\ t # 0
    BY <1>6, <2>1, EarlyRank
  <2> QED
    BY <2>2, OneAssumption, SMT DEF Stamps
<1>8. ASSUME NEW k \in 1..n, k <= m + 1 PROVE At(d, K(k), {t \in Early(d) : Rank(t) <= Rank(tags[k])})
  <2>1. ASSUME NEW j \in K(k) PROVE j \in DOMAIN tags /\ tags[j] \in Early(d) /\ Rank(tags[j]) <= Rank(tags[k])
    <3>1. j \in 1..n /\ Shown(d, tags[j]) /\ j <= k
      BY <1>1, <1>8
    <3>2. j # m + 1
      BY <1>5, <1>6, <3>1
    <3>3. j <= m
      BY <1>1, <1>8, <3>1, <3>2
    <3>4. Rank(tags[j]) < Rank(One)
      BY <1>4, <3>1, <3>3
    <3>5. Rank(tags[j]) <= Rank(tags[k])
      <4>1. CASE j = k
        <5>1. Rank(tags[k]) \in Nat
          BY <1>1, RankIs
        <5> QED
          BY <4>1, <5>1
      <4>2. CASE j # k
        <5>1. j < k
          BY <1>1, <3>1, <4>2
        <5> QED
          BY <1>1, <3>1, <5>1 DEF Ranked
      <4> QED
        BY <4>1, <4>2
    <3> QED
      BY <1>1, <3>1, <3>4, <3>5 DEF Early, ShownTags, ListedTags
  <2>2. ASSUME NEW t \in Early(d), Rank(t) <= Rank(tags[k]) PROVE \E j \in K(k) : tags[j] = t
    <3>1. PICK j \in 1..n : tags[j] = t /\ Shown(d, t) /\ Rank(t) < Rank(One)
      BY <1>1 DEF Early, ShownTags, ListedTags
    <3>2. j <= k
      <4> SUFFICES ASSUME k < j PROVE FALSE
        BY <1>1
      <4>1. Rank(tags[k]) <= Rank(tags[j])
        BY <1>1 DEF Ranked
      <4>2. Rank(tags[k]) \in Nat /\ Rank(tags[j]) \in Nat /\ Rank(One) \in Nat
        BY <1>1, RankIs, EarlyRank
      <4>3. Rank(tags[k]) = Rank(tags[j]) /\ Rank(tags[k]) < Rank(One)
        BY <2>2, <3>1, <4>1, <4>2
      <4>4. tags[k] = tags[j]
        BY <1>1, <3>1, <4>3, EarlyRank
      <4>5. tags[k] \in Stamps
        BY <1>7, <3>1, <4>4
      <4> QED
        BY <1>1, <4>4, <4>5 DEF OnceAmong
    <3> QED
      BY <1>1, <3>1, <3>2
  <2> HIDE DEF K
  <2> QED
    BY <2>1, <2>2 DEF At
<1> DEFINE size == Cardinality(Early(d))
<1>9. ASSUME NEW k \in 1..n, k <= m + 1
      PROVE  /\ ShownUpTo(d, k) = Cardinality({t \in Early(d) : Rank(t) <= Rank(tags[k])})
             /\ IsFiniteSet({t \in Early(d) : Rank(t) <= Rank(tags[k])})
  <2>1. PICK T : T = {t \in Early(d) : Rank(t) <= Rank(tags[k])}
    OBVIOUS
  <2>2. OnceAmong(d, T)
    BY <1>7, <2>1 DEF OnceAmong
  <2>3. At(d, K(k), T)
    BY <1>8, <1>9, <2>1
  <2>4. ShownUpTo(d, k) = Cardinality(K(k)) /\ d.tags \in Seq(Tags)
    BY <1>1 DEF ShownUpTo
  <2> HIDE DEF K
  <2>5. Cardinality(K(k)) = Cardinality(T) /\ IsFiniteSet(T)
    BY <2>2, <2>3, <2>4, PlacesAmong
  <2> QED
    BY <2>1, <2>4, <2>5
<1>10. IsFiniteSet(Early(d)) /\ ShownUpTo(d, m + 1) = size /\ size \in Nat
  <2>1. \A t \in Early(d) : Rank(t) <= Rank(tags[m + 1])
    <3> SUFFICES ASSUME NEW t \in Early(d) PROVE Rank(t) <= Rank(tags[m + 1])
      OBVIOUS
    <3>1. t \in Tags /\ Rank(t) < Rank(One)
      BY <1>1 DEF Early, ShownTags, ListedTags
    <3>2. Rank(t) \in Nat /\ Rank(One) \in Nat
      BY <3>1, RankIs, EarlyRank
    <3> QED
      BY <1>5, <3>1, <3>2
  <2>2. {t \in Early(d) : Rank(t) <= Rank(tags[m + 1])} = Early(d)
    BY <2>1
  <2>3. PICK k \in 1..n : k = m + 1 /\ k <= m + 1
    BY <1>1, <1>5
  <2>4. ShownUpTo(d, m + 1) = size /\ IsFiniteSet(Early(d))
    <3>1. {t \in Early(d) : Rank(t) <= Rank(tags[k])} = Early(d)
      BY <2>2, <2>3
    <3> QED
      BY <1>9, <2>3, <3>1
  <2> QED
    BY <2>4, FS_CardinalityType
<1> DEFINE Nth(i) == CHOOSE k \in DOMAIN tags : Shown(d, tags[k]) /\ ShownUpTo(d, k) = i
<1>11. Piece(d) = [i \in 1..size |-> d.ch[tags[Nth(i)]]]
  BY <1>2, <1>10 DEF Piece
<1> HIDE DEF size, K, n
<1>12. ASSUME NEW i \in 1..size
       PROVE  \E t \in Early(d) : d.ch[tags[Nth(i)]] = d.ch[t] /\ Ordinal(Early(d), t) = i
  <2>1. \A k \in 0..n : ShownUpTo(d, k) \in Nat
    BY <1>1, UpToIs DEF n
  <2>2. \E k \in 1..n : Shown(d, tags[k]) /\ ShownUpTo(d, k) = i
    <3> DEFINE R == {k \in 1..n : i <= ShownUpTo(d, k)}
    <3>1. PICK k \in R : \A x \in R : k <= x
      <4>1. m + 1 \in R /\ R \subseteq Nat
        BY <1>1, <1>5, <1>10
      <4> HIDE DEF R
      <4> QED
        BY <4>1, Least
    <3>2. k - 1 \in 0..n /\ k \in 1..n /\ i <= ShownUpTo(d, k)
      BY <1>1
    <3>3. ShownUpTo(d, k - 1) < i
      <4>1. CASE k = 1
        <5>1. ShownUpTo(d, k - 1) = 0
          BY <1>1, <4>1, UpToIs
        <5> QED
          BY <5>1
      <4>2. CASE k # 1
        <5>1. k - 1 \in 1..n /\ ~ k <= k - 1
          BY <1>1, <3>2, <4>2
        <5>2. ~ i <= ShownUpTo(d, k - 1)
          BY <3>1, <5>1
        <5> QED
          BY <1>10, <2>1, <3>2, <5>2
      <4> QED
        BY <4>1, <4>2
    <3>4. ShownUpTo(d, k) = ShownUpTo(d, k - 1) + (IF Shown(d, tags[k]) THEN 1 ELSE 0)
      BY <1>1, <3>2, UpToIs DEF n
    <3> HIDE DEF R
    <3>5. ShownUpTo(d, k - 1) \in Nat /\ ShownUpTo(d, k) \in Nat /\ i \in Nat
      BY <1>10, <2>1, <3>2
    <3>6. Shown(d, tags[k])
      BY <3>2, <3>3, <3>4, <3>5
    <3>7. ShownUpTo(d, k) = i
      BY <3>2, <3>3, <3>4, <3>5, <3>6
    <3> QED
      BY <3>2, <3>6, <3>7
  <2>3. Nth(i) \in 1..n /\ Shown(d, tags[Nth(i)]) /\ ShownUpTo(d, Nth(i)) = i
    BY <1>1, <2>2
  <2>4. PICK k \in 1..n : k = Nth(i)
    BY <2>3
  <2> HIDE DEF Nth
  <2>5. k <= m
    <3> SUFFICES ASSUME ~ k <= m PROVE FALSE
      OBVIOUS
    <3>1. k # m + 1
      BY <1>5, <1>6, <2>3, <2>4
    <3>2. m + 1 < k /\ m + 1 \in 0..n /\ k \in 0..n
      BY <1>1, <3>1
    <3>3. PICK j \in 0..n : j = m + 1
      BY <3>2
    <3>4. ShownUpTo(d, j) < ShownUpTo(d, k)
      <4>1. j < k /\ j <= k /\ Shown(d, d.tags[k]) /\ k \in 0..Len(d.tags) /\ j \in 0..Len(d.tags) /\ d.tags \in Seq(Tags)
        BY <1>1, <2>3, <2>4, <3>2, <3>3 DEF n
      <4> QED
        BY <4>1, UpToGrows
    <3> QED
      BY <1>10, <2>3, <2>4, <3>3, <3>4
  <2> DEFINE t == tags[k]
  <2>6. t \in Early(d)
    BY <1>1, <1>4, <2>3, <2>4, <2>5 DEF Early, ShownTags, ListedTags
  <2>7. {u \in Early(d) : Rank(u) <= Rank(t)} = {u \in Early(d) : u <= t}
    <3>1. \A u \in Early(d) : Rank(u) = u
      <4> SUFFICES ASSUME NEW u \in Early(d) PROVE Rank(u) = u
        OBVIOUS
      <4>1. u \in Tags /\ Rank(u) < Rank(One)
        BY <1>1 DEF Early, ShownTags, ListedTags
      <4> QED
        BY <4>1, EarlyRank
    <3> HIDE DEF t
    <3> QED
      BY <2>6, <3>1
  <2>8. k <= m + 1
    BY <1>1, <2>5
  <2>9. Ordinal(Early(d), t) = i
    BY <1>9, <2>3, <2>4, <2>7, <2>8 DEF Ordinal
  <2> QED
    BY <2>4, <2>6, <2>9
<1> HIDE DEF Nth
<1>13. /\ Piece(d) = [i \in 1..size |-> Piece(d)[i]]
       /\ \A i \in 1..size : Piece(d)[i] = d.ch[tags[Nth(i)]]
  BY <1>11
<1> QED
  BY <1>7, <1>10, <1>12, <1>13 DEF size

(* Documents that show the same tags, with the same characters, have the   *)
(* same piece.                                                             *)
LEMMA SamePiece ==
  ASSUME NEW d, Proper(d), OnceAmong(d, Stamps), NEW e, Proper(e), OnceAmong(e, Stamps),
         Early(d) = Early(e), \A t \in Early(d) : d.ch[t] = e.ch[t]
  PROVE  Piece(d) = Piece(e)
<1>1. PICK S : S = Early(d)
  OBVIOUS
<1> DEFINE n == Cardinality(S)
<1>2. /\ IsFiniteSet(S) /\ S \subseteq Stamps
      /\ Piece(d) = [i \in 1..n |-> Piece(d)[i]]
      /\ \A i \in 1..n : \E t \in S : Piece(d)[i] = d.ch[t] /\ Ordinal(S, t) = i
  BY <1>1, PieceIs
<1>3. /\ Piece(e) = [i \in 1..n |-> Piece(e)[i]]
      /\ \A i \in 1..n : \E t \in S : Piece(e)[i] = e.ch[t] /\ Ordinal(S, t) = i
  BY <1>1, PieceIs
<1>4. \A t \in S : t \in Int
  BY <1>2 DEF Stamps
<1>5. ASSUME NEW t \in S, NEW u \in S, t < u PROVE Ordinal(S, t) # Ordinal(S, u)
  <2> DEFINE A == {x \in S : x <= t}   B == {x \in S : x <= u}
  <2>1. A \subseteq B /\ u \in B /\ u \notin A /\ B \subseteq S
    BY <1>4, <1>5
  <2>2. Ordinal(S, t) = Cardinality(A) /\ Ordinal(S, u) = Cardinality(B)
    BY DEF Ordinal
  <2> HIDE DEF A, B
  <2>3. IsFiniteSet(B)
    BY <1>2, <2>1, FS_Subset
  <2>4. Cardinality(B) = Cardinality(A) => B = A
    BY <2>1, <2>3, FS_Subset
  <2> QED
    BY <2>1, <2>2, <2>4
<1>6. ASSUME NEW i \in 1..n PROVE Piece(d)[i] = Piece(e)[i]
  <2>1. PICK t \in S : Piece(d)[i] = d.ch[t] /\ Ordinal(S, t) = i
    BY <1>2
  <2>2. PICK u \in S : Piece(e)[i] = e.ch[u] /\ Ordinal(S, u) = i
    BY <1>3
  <2>3. t = u
    <3>1. ~ t < u /\ ~ u < t
      BY <1>5, <2>1, <2>2
    <3> QED
      BY <1>4, <3>1
  <2> QED
    BY <1>1, <2>1, <2>2, <2>3
<1> HIDE DEF n
<1> QED
  BY <1>2, <1>3, <1>6

-----------------------------------------------------------------------------
(***************************************************************************)
(* What an answer brings: each tag gets the character of its last change.  *)
(***************************************************************************)
(* The changes of an answer, for a page p and characters S: those that     *)
(* insert a stamp insert different ones, that the page does not list.      *)
Fresh(p, changes, S) ==
  /\ \A k \in 1..Len(changes) :
       /\ changes[k].tag \in 1..NullTag /\ changes[k].ch \in S \cup {Nul}
       /\ changes[k].tag = One => changes[k].ch = Nul
       /\ changes[k].ch # Nul /\ changes[k].tag \in Stamps => changes[k].tag \notin ListedTags(p.doc)
  /\ \A i, j \in 1..Len(changes) :
       /\ changes[i].ch # Nul /\ changes[j].ch # Nul
       /\ changes[i].tag = changes[j].tag /\ changes[i].tag \in Stamps
       => i = j

(* The first n of them have made the document e of d.                      *)
Brought(d, e, changes, n) ==
  /\ DOMAIN e.ch = DOMAIN d.ch \cup {changes[k].tag : k \in 1..n}
  /\ \A t \in DOMAIN d.ch : (\A k \in 1..n : changes[k].tag # t) => e.ch[t] = d.ch[t]
  /\ \A k \in 1..n : (\A j \in 1..n : k < j => changes[j].tag # changes[k].tag)
                       => e.ch[changes[k].tag] = changes[k].ch
  /\ ListedTags(d) \subseteq ListedTags(e)
  /\ \A k \in 1..n : changes[k].ch # Nul => changes[k].tag \in ListedTags(e)
  /\ \A t \in ListedTags(e) \ ListedTags(d) :
       \E k \in 1..n : changes[k].ch # Nul /\ changes[k].tag = t
  /\ OnceAmong(e, Stamps)

(* One more is attached.                                                   *)
LEMMA AttachBrings ==
  ASSUME NEW d, NEW p, Proper(p.doc), NEW changes, NEW n \in Nat, Brought(d, p.doc, changes, n),
         NEW t, NEW c, changes[n + 1].tag = t, changes[n + 1].ch = c,
         t \in 1..NullTag, c # Nul /\ t \in Stamps => t \notin ListedTags(p.doc), NEW clamps
  PROVE  Brought(d, Attach(p, t, c, clamps).doc, changes, n + 1)
<1>1. PICK b : b = p.doc
  OBVIOUS
<1>2. PICK e : e = Attach(p, t, c, clamps).doc
  OBVIOUS
<1>3. /\ e.ch = MapSet(b.ch, t, c)
      /\ e.tags = IF c = Nul THEN b.tags ELSE Push(b.tags, t)
  <2>1. p.doc = [tags |-> p.doc.tags, ch |-> p.doc.ch, ack |-> p.doc.ack]
    BY DEF Proper, Mapped
  <2> QED
    BY <1>1, <1>2, <2>1 DEF Attach
<1>4. /\ DOMAIN e.ch = DOMAIN b.ch \cup {t} /\ e.ch[t] = c
      /\ \A u \in DOMAIN b.ch : u # t => e.ch[u] = b.ch[u]
  BY <1>3 DEF MapSet
<1>5. OnceAmong(e, Stamps) /\ ListedTags(e) = ListedTags(b) \cup (IF c = Nul THEN {} ELSE {t})
  <2>1. OnceAmong(b, Stamps) /\ b.tags \in Seq(Tags) /\ Ranked(b.tags)
    BY <1>1 DEF Brought, Proper, Listed
  <2>2. CASE c = Nul
    <3>1. e.tags = b.tags
      BY <1>3, <2>2
    <3> QED
      BY <2>1, <2>2, <3>1 DEF OnceAmong, ListedTags
  <2>3. CASE c # Nul
    <3>1. t \in Tags /\ (t \in Stamps => t \notin ListedTags(b)) /\ e.tags = Push(b.tags, t)
      BY <1>1, <1>3, <2>3 DEF Tags
    <3>2. OnceAmong(e, Stamps) /\ ListedTags(e) = ListedTags(b) \cup {t}
      BY <2>1, <3>1, PushAmong
    <3> QED
      BY <2>3, <3>2
  <2> QED
    BY <2>2, <2>3
<1>6. 1..(n + 1) = (1..n) \cup {n + 1} /\ \A k \in 1..n : k < n + 1
  OBVIOUS
<1>7. Brought(d, b, changes, n)
  BY <1>1
<1>8. DOMAIN e.ch = DOMAIN d.ch \cup {changes[k].tag : k \in 1..(n + 1)}
  <2>1. DOMAIN b.ch = DOMAIN d.ch \cup {changes[k].tag : k \in 1..n}
    BY <1>7 DEF Brought
  <2> QED
    BY <1>4, <1>6, <2>1
<1>9. ASSUME NEW u \in DOMAIN d.ch, \A k \in 1..(n + 1) : changes[k].tag # u
      PROVE  e.ch[u] = d.ch[u]
  <2>1. u # t /\ \A k \in 1..n : changes[k].tag # u
    BY <1>6, <1>9
  <2>2. b.ch[u] = d.ch[u] /\ u \in DOMAIN b.ch
    BY <1>7, <2>1 DEF Brought
  <2> QED
    BY <1>4, <2>1, <2>2
<1>10. ASSUME NEW k \in 1..(n + 1), \A j \in 1..(n + 1) : k < j => changes[j].tag # changes[k].tag
       PROVE  e.ch[changes[k].tag] = changes[k].ch
  <2>1. CASE k = n + 1
    BY <1>4, <2>1
  <2>2. CASE k # n + 1
    <3>1. k \in 1..n /\ changes[k].tag # t /\ \A j \in 1..n : k < j => changes[j].tag # changes[k].tag
      BY <1>6, <1>10, <2>2
    <3>2. b.ch[changes[k].tag] = changes[k].ch /\ changes[k].tag \in DOMAIN b.ch
      BY <1>7, <3>1 DEF Brought
    <3> QED
      BY <1>4, <3>1, <3>2
  <2> QED
    BY <2>1, <2>2
<1>11. ListedTags(d) \subseteq ListedTags(e)
  BY <1>5, <1>7 DEF Brought
<1>12. \A k \in 1..(n + 1) : changes[k].ch # Nul => changes[k].tag \in ListedTags(e)
  <2>1. \A k \in 1..n : changes[k].ch # Nul => changes[k].tag \in ListedTags(b)
    BY <1>7 DEF Brought
  <2> QED
    BY <1>5, <1>6, <2>1
<1>13. \A u \in ListedTags(e) \ ListedTags(d) :
         \E k \in 1..(n + 1) : changes[k].ch # Nul /\ changes[k].tag = u
  <2>1. \A u \in ListedTags(b) \ ListedTags(d) :
          \E k \in 1..n : changes[k].ch # Nul /\ changes[k].tag = u
    BY <1>7 DEF Brought
  <2> QED
    BY <1>5, <1>6, <2>1
<1>14. Brought(d, e, changes, n + 1)
  BY <1>5, <1>8, <1>9, <1>10, <1>11, <1>12, <1>13 DEF Brought
<1> QED
  BY <1>2, <1>14

(* All of them are attached.                                               *)
LEMMA AttachAllBrings ==
  ASSUME NEW S \in SUBSET Nat, NEW p, Proper(p.doc), OnceAmong(p.doc, Stamps), p.text \in Seq(S),
         NEW T, NEW changes \in Seq(T), Fresh(p, changes, S), NEW clamps
  PROVE  Brought(p.doc, AttachAll(p, changes, clamps).doc, changes, Len(changes))
<1>1. PICK page : /\ Attached(p, changes, clamps, page)
                  /\ AttachAll(p, changes, clamps) = page[Len(changes)]
  BY AttachAllRuns
<1> DEFINE n == Len(changes)
           Good == {k \in 0..n : /\ Proper(page[k].doc) /\ page[k].text \in Seq(S)
                                 /\ Brought(p.doc, page[k].doc, changes, k)}
<1>2. n \in Nat
  OBVIOUS
<1>3. 0 \in Good
  <2>1. page[0] = p /\ 1..0 = {} /\ 0 \in 0..n
    BY <1>1, <1>2 DEF Attached
  <2>2. Brought(p.doc, p.doc, changes, 0)
    BY <2>1 DEF Brought
  <2> QED
    BY <2>1, <2>2
<1>4. ASSUME NEW k \in 0..n, k \in Good, k + 1 <= n PROVE k + 1 \in Good
  <2>1. k + 1 \in 1..n /\ (k + 1) - 1 = k /\ k \in Nat /\ k + 1 \in 0..n
    BY <1>2, <1>4
  <2> DEFINE t == changes[k + 1].tag   c == changes[k + 1].ch
  <2>2. page[k + 1] = Attach(page[k], t, c, clamps)
    BY <1>1, <2>1 DEF Attached
  <2>3. t \in 1..NullTag /\ c \in S \cup {Nul} /\ (t = One => c = Nul)
    BY <2>1 DEF Fresh
  <2>4. Proper(page[k].doc) /\ page[k].text \in Seq(S) /\ Brought(p.doc, page[k].doc, changes, k)
    BY <1>4
  <2>5. ASSUME c # Nul, t \in Stamps, t \in ListedTags(page[k].doc) PROVE FALSE
    <3>1. t \notin ListedTags(p.doc)
      BY <2>1, <2>5 DEF Fresh
    <3>2. PICK i \in 1..k : changes[i].ch # Nul /\ changes[i].tag = t
      BY <2>4, <2>5, <3>1 DEF Brought
    <3>3. i \in 1..n /\ i # k + 1
      BY <1>2, <2>1
    <3> QED
      BY <2>1, <2>5, <3>2, <3>3 DEF Fresh
  <2>6. t = changes[k + 1].tag /\ c = changes[k + 1].ch
    OBVIOUS
  <2> HIDE DEF t, c
  <2>7. Proper(page[k + 1].doc) /\ page[k + 1].text \in Seq(S)
    BY <2>2, <2>3, <2>4, AttachProper
  <2>8. Brought(p.doc, page[k + 1].doc, changes, k + 1)
    <3>1. PICK r : r = page[k]
      OBVIOUS
    <3>2. Proper(r.doc) /\ Brought(p.doc, r.doc, changes, k)
      BY <2>4, <3>1
    <3>3. c # Nul /\ t \in Stamps => t \notin ListedTags(r.doc)
      BY <2>5, <3>1
    <3>4. PICK d : d = p.doc
      OBVIOUS
    <3>5. Brought(d, Attach(r, t, c, clamps).doc, changes, k + 1)
      BY <2>1, <2>3, <2>6, <3>2, <3>3, <3>4, AttachBrings
    <3> QED
      BY <2>2, <3>1, <3>4, <3>5
  <2> QED
    BY <2>1, <2>7, <2>8
<1>5. n \in Good
  <2> HIDE DEF Good
  <2>1. \A k \in 0..n : k \in Good /\ k + 1 <= n => k + 1 \in Good
    BY <1>4
  <2>2. 0..n \subseteq Good
    BY <1>2, <1>3, <2>1, Induction
  <2> QED
    BY <1>2, <2>2
<1> QED
  BY <1>1, <1>5
-----------------------------------------------------------------------------
(***************************************************************************)
(* Documents that show the first tags of the list after 0 and no others:   *)
(* the count of shown characters is then the place in the list.            *)
(***************************************************************************)
Packed(d, m) ==
  /\ m \in Nat /\ m + 2 <= Len(d.tags)
  /\ \A k \in DOMAIN d.tags : Shown(d, d.tags[k]) <=> k \in 2..(m + 1)

(* The text s is what d shows, with the characters still to be noted after *)
(* the first "from".                                                       *)
Shows(d, m, from, chars, s) ==
  /\ from \in 0..m /\ Len(s) = m + Len(chars)
  /\ \A i \in 1..from : s[i] = d.ch[d.tags[i + 1]]
  /\ \A i \in 1..Len(chars) : s[from + i] = chars[i]
  /\ \A i \in (from + 1)..m : s[i + Len(chars)] = d.ch[d.tags[i + 1]]

(* The text r is s, with the characters put in after the first "from".     *)
Spliced(s, from, chars, r) ==
  /\ Len(r) = Len(s) + Len(chars)
  /\ \A i \in 1..from : r[i] = s[i]
  /\ \A i \in 1..Len(chars) : r[from + i] = chars[i]
  /\ \A i \in (from + 1)..Len(s) : r[i + Len(chars)] = s[i]

(* The document e is d, with one more tag shown, after "pos" of them.      *)
Grown(d, e, m, pos, c) ==
  /\ pos \in 0..m /\ Packed(e, m + 1) /\ Len(e.tags) = Len(d.tags) + 1
  /\ \A i \in 1..pos : e.ch[e.tags[i + 1]] = d.ch[d.tags[i + 1]]
  /\ e.ch[e.tags[pos + 2]] = c
  /\ \A i \in (pos + 1)..m : e.ch[e.tags[i + 2]] = d.ch[d.tags[i + 1]]

(* How many are shown up to a place of the list.                           *)
LEMMA PackedUpTo ==
  ASSUME NEW d, d.tags \in Seq(Tags), NEW m, Packed(d, m), NEW k \in 1..Len(d.tags)
  PROVE  ShownUpTo(d, k) = IF k <= m + 1 THEN k - 1 ELSE m
<1>1. Len(d.tags) \in Nat /\ DOMAIN d.tags = 1..Len(d.tags) /\ m \in Nat
  BY DEF Packed
<1>2. PICK n \in Nat : n = IF k <= m + 1 THEN k ELSE m + 1
  BY <1>1
<1>3. {j \in 1..k : Shown(d, d.tags[j])} = 2..n
  <2>1. ASSUME NEW j \in 1..k PROVE Shown(d, d.tags[j]) <=> j \in 2..n
    <3>1. j \in DOMAIN d.tags
      BY <1>1
    <3>2. Shown(d, d.tags[j]) <=> j \in 2..(m + 1)
      BY <3>1 DEF Packed
    <3>3. j \in 2..(m + 1) <=> j \in 2..n
      BY <1>1, <1>2
    <3> QED
      BY <3>2, <3>3
  <2>2. ASSUME NEW j \in 2..n PROVE j \in 1..k
    BY <1>1, <1>2
  <2> QED
    BY <2>1, <2>2
<1>4. Cardinality(2..n) = n - 1
  <2>1. n >= 1
    BY <1>1, <1>2
  <2>2. Cardinality(2..n) = IF 2 > n THEN 0 ELSE n - 2 + 1
    BY FS_Interval
  <2> QED
    BY <2>1, <2>2
<1>5. n - 1 = IF k <= m + 1 THEN k - 1 ELSE m
  BY <1>1, <1>2
<1> QED
  BY <1>3, <1>4, <1>5 DEF ShownUpTo

(* ... and in the whole of it.                                             *)
LEMMA PackedCount ==
  ASSUME NEW d, d.tags \in Seq(Tags), NEW m, Packed(d, m)
  PROVE  CountShown(d) = m
<1>1. m \in Nat /\ Len(d.tags) \in Nat /\ m + 2 <= Len(d.tags) /\ DOMAIN d.tags = 1..Len(d.tags)
  BY DEF Packed
<1>2. ShownUpTo(d, Len(d.tags)) = m
  <2>1. PICK k \in 1..Len(d.tags) : k = Len(d.tags)
    BY <1>1
  <2>2. ~ k <= m + 1
    BY <1>1, <2>1
  <2> QED
    BY <2>1, <2>2, PackedUpTo
<1> QED
  BY <1>1, <1>2 DEF CountShown, ShownUpTo

(* The piece is in the order of the list.                                  *)
LEMMA PackedPiece ==
  ASSUME NEW d, Proper(d), NEW m, Packed(d, m)
  PROVE  Piece(d) = [i \in 1..m |-> d.ch[d.tags[i + 1]]]
<1>1. /\ d.tags \in Seq(Tags) /\ Ranked(d.tags) /\ Len(d.tags) \in Nat
      /\ DOMAIN d.tags = 1..Len(d.tags) /\ m \in Nat /\ m + 2 <= Len(d.tags)
  BY DEF Proper, Listed, Packed
<1>2. One \in Tags /\ d.ch[One] = Nul
  <2>1. One \in 0..(One + 1)
    BY OneAssumption, SMT
  <2> QED
    BY <2>1 DEF Tags, NullTag, Proper, Charred
<1>3. PICK p \in 0..Len(d.tags) :
        Before(d.tags, One) = 1..p /\ Cardinality(Before(d.tags, One)) = p
  BY <1>1, <1>2, BeforePrefix
<1>4. PICK o \in 2..Len(d.tags) : \A k \in 1..Len(d.tags) : d.tags[k] = One <=> k = o
  BY DEF Proper, Ended
<1>5. o >= m + 2
  <2>1. o \in DOMAIN d.tags /\ d.tags[o] = One
    BY <1>1, <1>4
  <2>2. o \notin 2..(m + 1)
    BY <1>2, <2>1 DEF Packed, Shown
  <2> QED
    BY <1>1, <2>2
<1>6. p + 1 \in 1..Len(d.tags) /\ p + 1 > m + 1
  <2>1. ASSUME NEW k \in 1..(m + 1) PROVE k \in 1..p
    <3>1. k \in DOMAIN d.tags /\ o \in DOMAIN d.tags /\ k < o
      BY <1>1, <1>5
    <3>2. d.tags[k] \in Tags /\ d.tags[k] # One /\ Rank(d.tags[k]) <= Rank(One)
      BY <1>1, <1>4, <3>1 DEF Ranked
    <3>3. Rank(d.tags[k]) # Rank(One) /\ Rank(d.tags[k]) \in Nat /\ Rank(One) \in Nat
      BY <3>2, EarlyRank, RankIs
    <3>4. Rank(d.tags[k]) < Rank(One)
      BY <3>2, <3>3
    <3> QED
      BY <1>3, <3>1, <3>4 DEF Before
  <2>2. m + 1 <= p
    BY <1>1, <2>1
  <2>3. o \notin 1..p
    <3>1. d.tags[o] = One
      BY <1>1, <1>4
    <3>2. o \notin Before(d.tags, One)
      BY <3>1, EarlyRank DEF Before
    <3> QED
      BY <1>3, <3>2
  <2>4. p < o
    BY <2>3
  <2> QED
    BY <1>1, <2>2, <2>4
<1>7. ShownUpTo(d, p + 1) = m
  <2>1. ~ p + 1 <= m + 1
    BY <1>1, <1>6
  <2> QED
    BY <1>1, <1>6, <2>1, PackedUpTo
<1>8. ASSUME NEW i \in 1..m
      PROVE  (CHOOSE k \in DOMAIN d.tags : Shown(d, d.tags[k]) /\ ShownUpTo(d, k) = i) = i + 1
  <2>1. ASSUME NEW k \in DOMAIN d.tags, Shown(d, d.tags[k]) PROVE ShownUpTo(d, k) = k - 1
    <3>1. k \in 2..(m + 1) /\ k \in 1..Len(d.tags)
      BY <1>1, <2>1 DEF Packed
    <3>2. k <= m + 1
      BY <3>1
    <3> QED
      BY <1>1, <3>1, <3>2, PackedUpTo
  <2>2. PICK j \in Nat : j = i + 1
    OBVIOUS
  <2>3. j \in DOMAIN d.tags /\ j \in 2..(m + 1)
    BY <1>1, <2>2
  <2>4. Shown(d, d.tags[j])
    BY <2>3 DEF Packed
  <2>5. ShownUpTo(d, j) = i
    <3>1. ShownUpTo(d, j) = j - 1
      BY <2>1, <2>3, <2>4
    <3> QED
      BY <2>2, <3>1
  <2>6. ASSUME NEW k \in DOMAIN d.tags, Shown(d, d.tags[k]), ShownUpTo(d, k) = i PROVE k = j
    <3>1. k - 1 = i /\ k \in Nat
      BY <1>1, <2>1, <2>6
    <3> QED
      BY <2>2, <3>1
  <2> QED
    BY <2>2, <2>3, <2>4, <2>5, <2>6
<1>9. Cardinality(Before(d.tags, One)) + 1 = p + 1
  BY <1>3
<1> DEFINE Place(i) ==
      CHOOSE k \in DOMAIN d.tags : Shown(d, d.tags[k]) /\ ShownUpTo(d, k) = i
<1>10. ShownUpTo(d, Cardinality(Before(d.tags, One)) + 1) = m
  BY <1>7, <1>9
<1>11. Piece(d) = [i \in 1..m |-> d.ch[d.tags[Place(i)]]]
  BY <1>10, Zenon DEF Piece
<1>12. \A i \in 1..m : Place(i) = i + 1
  BY <1>8
<1> HIDE DEF Place
<1> QED
  BY <1>11, <1>12

(* A text that is what a document shows is its piece.                      *)
LEMMA ShowsPiece ==
  ASSUME NEW d, Proper(d), NEW m, Packed(d, m), NEW S, NEW s \in Seq(S), Shows(d, m, 0, <<>>, s)
  PROVE  s = Piece(d)
<1>1. m \in Nat /\ Len(<<>>) = 0 /\ Len(s) \in Nat
  BY EmptySeq DEF Packed
<1>2. Len(s) = m
  BY <1>1 DEF Shows
<1>3. ASSUME NEW i \in 1..m PROVE s[i] = d.ch[d.tags[i + 1]]
  <2>1. s[i + Len(<<>>)] = d.ch[d.tags[i + 1]]
    BY <1>1 DEF Shows
  <2>2. i + Len(<<>>) = i
    BY <1>1
  <2> QED
    BY <2>1, <2>2
<1>4. s = [i \in 1..m |-> s[i]]
  BY <1>2
<1> QED
  BY <1>3, <1>4, PackedPiece
(* A tag is pushed behind the 0 and at most all that is shown, and gets a  *)
(* character.                                                              *)
LEMMA PushGrows ==
  ASSUME NEW d, Proper(d), NEW m, Packed(d, m), NEW pos \in 0..m,
         NEW t \in Tags \ ListedTags(d), Before(d.tags, t) = 1..(pos + 1), NEW c, c # Nul,
         NEW e, e.tags = Push(d.tags, t), e.ch = MapSet(d.ch, t, c)
  PROVE  Grown(d, e, m, pos, c) /\ Before(e.tags, t) = 1..(pos + 1) /\ t \in ListedTags(e)
<1>1. /\ d.tags \in Seq(Tags) /\ Ranked(d.tags) /\ Len(d.tags) \in Nat
      /\ DOMAIN d.tags = 1..Len(d.tags) /\ m \in Nat /\ m + 2 <= Len(d.tags) /\ pos \in Nat
  BY DEF Proper, Listed, Packed
<1>2. /\ e.tags \in Seq(Tags) /\ Len(e.tags) = Len(d.tags) + 1
      /\ DOMAIN e.tags = 1..(Len(d.tags) + 1)
      /\ \A k \in 1..(pos + 1) : e.tags[k] = d.tags[k]
      /\ e.tags[pos + 2] = t
      /\ \A k \in (pos + 2)..Len(d.tags) : e.tags[k + 1] = d.tags[k]
  <2>1. PICK r : r = e.tags
    OBVIOUS
  <2>2. t \in Tags /\ r = Push(d.tags, t)
    BY <2>1
  <2>3. PICK tags, u : tags = d.tags /\ u = t
    OBVIOUS
  <2>4. /\ tags \in Seq(Tags) /\ Ranked(tags) /\ u \in Tags /\ r = Push(tags, u)
    BY <1>1, <2>2, <2>3
  <2>5. LET q == Push(tags, u)
        IN  /\ q \in Seq(Tags) /\ Len(q) = Len(tags) + 1 /\ Ranked(q)
            /\ \E n \in 0..Len(tags) :
                 /\ \A k \in 1..n : Rank(tags[k]) < Rank(u) /\ q[k] = tags[k]
                 /\ q[n + 1] = u
                 /\ \A k \in (n + 1)..Len(tags) : Rank(u) <= Rank(tags[k]) /\ q[k + 1] = tags[k]
    BY <2>4, PushIs
  <2>6. /\ r \in Seq(Tags) /\ Len(r) = Len(d.tags) + 1
    BY <2>3, <2>4, <2>5
  <2>7. PICK n \in 0..Len(d.tags) :
          /\ \A k \in 1..n : Rank(d.tags[k]) < Rank(t) /\ r[k] = d.tags[k]
          /\ r[n + 1] = t
          /\ \A k \in (n + 1)..Len(d.tags) : Rank(t) <= Rank(d.tags[k]) /\ r[k + 1] = d.tags[k]
    BY <2>3, <2>4, <2>5
  <2>8. n = pos + 1
    <3>1. ASSUME NEW k \in 1..Len(d.tags) PROVE Rank(d.tags[k]) < Rank(t) <=> k \in 1..(pos + 1)
      BY <1>1 DEF Before
    <3>2. \A k \in 1..Len(d.tags) : Rank(d.tags[k]) \in Nat /\ Rank(t) \in Nat
      BY <1>1, RankIs
    <3>3. n <= pos + 1
      <4> SUFFICES ASSUME n >= 1 PROVE n <= pos + 1
        BY <1>1
      <4>1. n \in 1..n /\ n \in 1..Len(d.tags)
        BY <1>1
      <4> QED
        BY <1>1, <2>7, <3>1, <4>1
    <3>4. pos + 1 <= n
      <4> SUFFICES ASSUME n < pos + 1 PROVE FALSE
        BY <1>1
      <4>1. n + 1 \in (n + 1)..Len(d.tags) /\ n + 1 \in 1..Len(d.tags) /\ n + 1 \in 1..(pos + 1)
        BY <1>1
      <4> QED
        BY <2>7, <3>1, <3>2, <4>1
    <3> QED
      BY <1>1, <3>3, <3>4
  <2>9. DOMAIN r = 1..(Len(d.tags) + 1) /\ n + 1 = pos + 2
    BY <1>1, <2>6, <2>8
  <2> QED
    BY <2>1, <2>6, <2>7, <2>8, <2>9
<1>3. \A k \in 1..Len(d.tags) : /\ d.tags[k] # t /\ d.tags[k] \in DOMAIN d.ch
                                /\ e.ch[d.tags[k]] = d.ch[d.tags[k]]
  <2>1. \A k \in 1..Len(d.tags) : d.tags[k] # t /\ d.tags[k] \in DOMAIN d.ch
    BY <1>1 DEF ListedTags, Proper, Listed
  <2> QED
    BY <2>1 DEF MapSet
<1>4. e.ch[t] = c
  BY DEF MapSet
<1>5. Packed(e, m + 1)
  <2>1. ASSUME NEW k \in DOMAIN e.tags PROVE Shown(e, e.tags[k]) <=> k \in 2..(m + 2)
    <3>1. CASE k \in 1..(pos + 1)
      <4>1. k \in 1..Len(d.tags) /\ (k \in 2..(m + 1) <=> k \in 2..(m + 2))
        BY <1>1, <3>1
      <4>2. e.tags[k] = d.tags[k] /\ (Shown(d, d.tags[k]) <=> k \in 2..(m + 1))
        BY <1>1, <1>2, <3>1, <4>1 DEF Packed
      <4> QED
        BY <1>3, <4>1, <4>2 DEF Shown
    <3>2. CASE k = pos + 2
      <4>1. k \in 2..(m + 2)
        BY <1>1, <3>2
      <4>2. e.tags[k] = t
        BY <1>2, <3>2
      <4> QED
        BY <1>4, <4>1, <4>2 DEF Shown
    <3>3. CASE k \in (pos + 3)..(Len(d.tags) + 1)
      <4>1. PICK j \in (pos + 2)..Len(d.tags) : k = j + 1
        <5>1. k - 1 \in (pos + 2)..Len(d.tags) /\ k = (k - 1) + 1
          BY <1>1, <3>3
        <5> QED
          BY <5>1
      <4>2. j \in 1..Len(d.tags) /\ (j \in 2..(m + 1) <=> k \in 2..(m + 2))
        BY <1>1, <4>1
      <4>3. e.tags[k] = d.tags[j] /\ (Shown(d, d.tags[j]) <=> j \in 2..(m + 1))
        BY <1>1, <1>2, <4>1, <4>2 DEF Packed
      <4> QED
        BY <1>3, <4>2, <4>3 DEF Shown
    <3>4. k \in 1..(pos + 1) \/ k = pos + 2 \/ k \in (pos + 3)..(Len(d.tags) + 1)
      BY <1>1, <1>2
    <3> QED
      BY <3>1, <3>2, <3>3, <3>4
  <2>2. m + 1 \in Nat /\ (m + 1) + 2 <= Len(e.tags) /\ (m + 1) + 1 = m + 2
    BY <1>1, <1>2
  <2> QED
    BY <2>1, <2>2 DEF Packed
<1>6. ASSUME NEW i \in 1..pos PROVE e.ch[e.tags[i + 1]] = d.ch[d.tags[i + 1]]
  <2>1. i + 1 \in 1..(pos + 1) /\ i + 1 \in 1..Len(d.tags)
    BY <1>1
  <2> QED
    BY <1>2, <1>3, <2>1
<1>7. ASSUME NEW i \in (pos + 1)..m PROVE e.ch[e.tags[i + 2]] = d.ch[d.tags[i + 1]]
  <2>1. i + 1 \in (pos + 2)..Len(d.tags) /\ i + 1 \in 1..Len(d.tags) /\ (i + 1) + 1 = i + 2
    BY <1>1
  <2>2. e.tags[(i + 1) + 1] = d.tags[i + 1]
    BY <1>2, <2>1
  <2> QED
    BY <1>3, <2>1, <2>2
<1>8. Before(e.tags, t) = 1..(pos + 1)
  <2>1. Ranked(e.tags)
    <3>1. PICK tags, u : tags = d.tags /\ u = t
      OBVIOUS
    <3>2. tags \in Seq(Tags) /\ Ranked(tags) /\ u \in Tags /\ e.tags = Push(tags, u)
      BY <1>1, <3>1
    <3>3. LET q == Push(tags, u) IN Ranked(q)
      BY <3>2, PushIs
    <3> QED
      BY <3>2, <3>3
  <2>2. PICK n \in 0..Len(e.tags) : Before(e.tags, t) = 1..n
    BY <1>2, <2>1, BeforePrefix
  <2>3. pos + 1 \in Before(e.tags, t)
    <3>1. pos + 1 \in DOMAIN e.tags /\ pos + 1 \in Before(d.tags, t)
      BY <1>1, <1>2
    <3>2. e.tags[pos + 1] = d.tags[pos + 1]
      BY <1>1, <1>2
    <3> QED
      BY <3>1, <3>2 DEF Before
  <2>4. pos + 2 \notin Before(e.tags, t)
    <3>1. Rank(t) \in Nat
      BY RankIs
    <3> QED
      BY <1>2, <3>1 DEF Before
  <2>5. n = pos + 1
    BY <1>1, <2>2, <2>3, <2>4
  <2> QED
    BY <2>2, <2>5
<1>9. t \in ListedTags(e)
  <2>1. pos + 2 \in DOMAIN e.tags
    BY <1>1, <1>2
  <2> QED
    BY <1>2, <2>1 DEF ListedTags
<1> QED
  BY <1>2, <1>4, <1>5, <1>6, <1>7, <1>8, <1>9 DEF Grown

(* Between two neighbours in the order of their values.                    *)
LEMMA BetweenBefore ==
  ASSUME NEW d, Proper(d), NEW k, k \in 1..(Len(d.tags) - 1), NEW t \in Stamps, ~ Tiny(t),
         \A j \in DOMAIN d.tags : ~ Tiny(d.tags[j]) /\ d.tags[j] \in 0..One,
         d.tags[k] < t, t < d.tags[k + 1]
  PROVE  Before(d.tags, t) = 1..k
<1>1. /\ d.tags \in Seq(Tags) /\ Ranked(d.tags) /\ Len(d.tags) \in Nat
      /\ DOMAIN d.tags = 1..Len(d.tags) /\ One \in Nat
  <2>1. One \in Nat
    BY OneAssumption, SMT
  <2> QED
    BY <2>1 DEF Proper, Listed
<1>2. /\ t \in 0..One /\ t \in Tags /\ Rank(t) = t
      /\ \A j \in DOMAIN d.tags : Rank(d.tags[j]) = d.tags[j] /\ d.tags[j] \in 0..One
  <2>1. t \in 0..One /\ t \in Tags
    BY <1>1 DEF Stamps, Tags, NullTag
  <2>2. \A u \in 0..One : ~ Tiny(u) => Rank(u) = u
    <3>1. \A u \in 0..One : u # NullTag
      BY <1>1 DEF NullTag
    <3> QED
      BY <3>1 DEF Rank
  <2> QED
    BY <2>1, <2>2
<1>3. PICK n \in 0..Len(d.tags) : Before(d.tags, t) = 1..n
  BY <1>1, <1>2, BeforePrefix
<1>4. PICK j : j = k + 1
  OBVIOUS
<1>5. k \in 1..Len(d.tags) /\ j \in 1..Len(d.tags)
  BY <1>1, <1>4
<1>6. k \in Before(d.tags, t) /\ j \notin Before(d.tags, t)
  <2>1. Rank(d.tags[k]) < Rank(t) /\ ~ Rank(d.tags[j]) < Rank(t)
    BY <1>1, <1>2, <1>4, <1>5
  <2> QED
    BY <1>1, <1>5, <2>1 DEF Before
<1>7. n = k
  BY <1>1, <1>3, <1>4, <1>5, <1>6
<1> QED
  BY <1>3, <1>7
(* One sequence after the other.                                           *)
Joins(S, u, v, w) ==
  /\ w \in Seq(S) /\ Len(w) = Len(u) + Len(v)
  /\ \A i \in 1..Len(u) : w[i] = u[i]
  /\ \A i \in 1..Len(v) : w[Len(u) + i] = v[i]

(* This is what their concatenation is.                                   *)
LEMMA JoinIs ==
  ASSUME NEW S, NEW u \in Seq(S), NEW v \in Seq(S)
  PROVE  Joins(S, u, v, u \o v)
<1> DEFINE w == u \o v
<1>1. Len(w) = Len(u) + Len(v) /\ w \in Seq(S)
  BY ConcatProperties
<1>2. \A i \in 1..(Len(u) + Len(v)) : w[i] = IF i <= Len(u) THEN u[i] ELSE v[i - Len(u)]
  BY ConcatProperties
<1> HIDE DEF w
<1>3. ASSUME NEW i \in 1..Len(u) PROVE w[i] = u[i]
  <2>1. i \in 1..(Len(u) + Len(v)) /\ i <= Len(u)
    OBVIOUS
  <2> QED
    BY <1>2, <2>1
<1>4. ASSUME NEW i \in 1..Len(v) PROVE w[Len(u) + i] = v[i]
  <2>1. PICK j \in 1..(Len(u) + Len(v)) : j = Len(u) + i
    OBVIOUS
  <2>2. ~ j <= Len(u) /\ j - Len(u) = i
    BY <2>1
  <2> QED
    BY <1>2, <2>1, <2>2
<1>5. Joins(S, u, v, w)
  BY <1>1, <1>3, <1>4 DEF Joins
<1> QED
  BY <1>5 DEF w

(* Between the beginning and the end of a sequence.                        *)
LEMMA SplicedJoin ==
  ASSUME NEW S, NEW s \in Seq(S), NEW from \in 0..Len(s), NEW chars \in Seq(S),
         NEW u \in Seq(S), Len(u) = from, \A i \in 1..from : u[i] = s[i],
         NEW v \in Seq(S), Len(v) = Len(s) - from, \A i \in 1..(Len(s) - from) : v[i] = s[from + i]
  PROVE  Spliced(s, from, chars, (u \o chars) \o v)
<1>1. Len(s) \in Nat /\ Len(chars) \in Nat /\ from \in Nat /\ from <= Len(s)
  OBVIOUS
<1>2. PICK w : w = u \o chars
  OBVIOUS
<1>3. /\ w \in Seq(S) /\ Len(w) = Len(u) + Len(chars)
      /\ \A i \in 1..Len(u) : w[i] = u[i]
      /\ \A i \in 1..Len(chars) : w[Len(u) + i] = chars[i]
  <2>1. Joins(S, u, chars, w)
    BY <1>2, JoinIs
  <2> QED
    BY <2>1 DEF Joins
<1>4. /\ Len(w) = from + Len(chars)
      /\ \A i \in 1..from : w[i] = s[i]
      /\ \A i \in 1..Len(chars) : w[from + i] = chars[i]
  BY <1>3
<1>5. w \in Seq(S)
  BY <1>3
<1>6. PICK r : r = w \o v
  OBVIOUS
<1>7. /\ Len(r) = Len(w) + Len(v)
      /\ \A i \in 1..Len(w) : r[i] = w[i]
      /\ \A i \in 1..Len(v) : r[Len(w) + i] = v[i]
  <2>1. Joins(S, w, v, r)
    BY <1>5, <1>6, JoinIs
  <2> QED
    BY <2>1 DEF Joins
<1>8. Len(r) = Len(s) + Len(chars)
  <2>1. Len(r) = (from + Len(chars)) + (Len(s) - from)
    BY <1>4, <1>7
  <2> QED
    BY <1>1, <2>1
<1>9. /\ \A i \in 1..from : r[i] = s[i]
      /\ \A i \in 1..Len(chars) : r[from + i] = chars[i]
  <2>1. \A i \in 1..from : i \in 1..Len(w)
    BY <1>1, <1>4
  <2>2. \A i \in 1..Len(chars) : from + i \in 1..Len(w)
    BY <1>1, <1>4
  <2> QED
    BY <1>4, <1>7, <2>1, <2>2
<1>10. ASSUME NEW i \in (from + 1)..Len(s) PROVE r[i + Len(chars)] = s[i]
  <2>1. PICK j \in 1..(Len(s) - from) : j = i - from
    BY <1>1
  <2>2. Len(w) + j = i + Len(chars) /\ from + j = i /\ j \in 1..Len(v)
    BY <1>1, <1>4, <2>1
  <2>3. r[Len(w) + j] = v[j] /\ v[j] = s[from + j]
    BY <1>7, <2>1, <2>2
  <2> QED
    BY <2>2, <2>3
<1>11. r = (u \o chars) \o v
  BY <1>2, <1>6, Zenon
<1>12. Spliced(s, from, chars, r)
  BY <1>8, <1>9, <1>10 DEF Spliced
<1> QED
  BY <1>11, <1>12

(* What is put in at the place of a selection without a length.            *)
LEMMA SplicedOver ==
  ASSUME NEW S, NEW s \in Seq(S), NEW from \in 0..Len(s), NEW chars \in Seq(S)
  PROVE  Spliced(s, from, chars, SubSeq(s, 1, from) \o chars \o SubSeq(s, from + 1, Len(s)))
<1>1. Len(s) \in Nat /\ from \in Nat /\ from <= Len(s) /\ from + 1 \in Nat
  OBVIOUS
<1>2. PICK n, k \in Nat : n = from /\ k = from + 1 /\ n \in Nat
  BY <1>1
<1>3. PICK u : u = SubSeq(s, 1, n)
  OBVIOUS
<1>4. PICK v : v = SubSeq(s, k, Len(s))
  OBVIOUS
<1>5. u \in Seq(S) /\ Len(u) = n /\ \A i \in 1..n : u[i] = s[i]
  <2>1. \A i \in 1..n : s[i] \in S
    BY <1>1, <1>2
  <2>2. u \in Seq(S) /\ Len(u) = n
    BY <1>1, <1>2, <1>3, <2>1
  <2>3. \A i \in 1..n : u[i] = s[i]
    BY <1>1, <1>2, <1>3
  <2> QED
    BY <2>2, <2>3
<1>6. v \in Seq(S) /\ Len(v) = Len(s) - n /\ \A i \in 1..(Len(s) - n) : v[i] = s[n + i]
  <2>1. \A i \in k..Len(s) : s[i] \in S
    BY <1>1, <1>2
  <2>2. v \in Seq(S) /\ Len(v) = Len(s) - n
    BY <1>1, <1>2, <1>4, <2>1
  <2>3. \A i \in 1..(Len(s) - n) : v[i] = s[n + i]
    BY <1>1, <1>2, <1>4, <2>2
  <2> QED
    BY <2>2, <2>3
<1>7. Spliced(s, from, chars, (u \o chars) \o v)
  <2>1. /\ Len(u) = from /\ \A i \in 1..from : u[i] = s[i]
        /\ Len(v) = Len(s) - from /\ \A i \in 1..(Len(s) - from) : v[i] = s[from + i]
    BY <1>2, <1>5, <1>6
  <2> QED
    BY <1>5, <1>6, <2>1, SplicedJoin
<1>8. (u \o chars) \o v = SubSeq(s, 1, from) \o chars \o SubSeq(s, from + 1, Len(s))
  BY <1>2, <1>3, <1>4, Zenon
<1> QED
  BY <1>7, <1>8, Zenon

(* What the editor puts in at a place of its text.                         *)
LEMMA SplicedInsert ==
  ASSUME NEW S, NEW s \in Seq(S), NEW pos \in 0..Len(s), NEW c \in S
  PROVE  Spliced(s, pos, <<c>>, TextInsert(s, pos, c))
<1>1. Len(s) \in Nat /\ pos \in Nat /\ pos <= Len(s)
  OBVIOUS
<1>2. PICK k : k = pos + 1
  OBVIOUS
<1>3. k \in 1..(Len(s) + 1) /\ k \in Nat
  BY <1>1, <1>2
<1>4. PICK r : r = TextInsert(s, pos, c)
  OBVIOUS
<1>5. r = Ext!InsertAt(s, k, c)
  BY <1>1, <1>2, <1>4 DEF TextInsert
<1>6. LET q == Ext!InsertAt(s, k, c)
      IN  /\ q \in Seq(S) /\ Len(q) = Len(s) + 1
          /\ \A i \in 1..(k - 1) : q[i] = s[i]
          /\ q[k] = c
          /\ \A i \in k..Len(s) : q[i + 1] = s[i]
  BY <1>3, InsertAtIs
<1>7. /\ Len(r) = Len(s) + 1 /\ r[k] = c
      /\ \A i \in 1..(k - 1) : r[i] = s[i]
      /\ \A i \in k..Len(s) : r[i + 1] = s[i]
  BY <1>5, <1>6
<1>8. Len(<<c>>) = 1 /\ <<c>>[1] = c
  OBVIOUS
<1>9. /\ \A i \in 1..pos : r[i] = s[i]
      /\ \A i \in 1..1 : r[pos + i] = <<c>>[i]
      /\ \A i \in (pos + 1)..Len(s) : r[i + 1] = s[i]
  <2>1. \A i \in 1..1 : i = 1
    OBVIOUS
  <2> QED
    BY <1>1, <1>2, <1>7, <1>8, <2>1
<1> QED
  BY <1>4, <1>7, <1>8, <1>9 DEF Spliced

(* A character that is noted at once, where the text is what is shown.     *)
LEMMA ShowsInserted ==
  ASSUME NEW d, NEW e, NEW m \in Nat, NEW pos, NEW c, Grown(d, e, m, pos, c),
         NEW s, Shows(d, m, 0, <<>>, s), NEW r, Spliced(s, pos, <<c>>, r)
  PROVE  Shows(e, m + 1, 0, <<>>, r)
<1>1. Len(<<>>) = 0 /\ Len(<<c>>) = 1 /\ <<c>>[1] = c /\ pos \in 0..m
  BY EmptySeq DEF Grown
<1>2. Len(s) = m /\ \A i \in 1..m : s[i] = d.ch[d.tags[i + 1]]
  <2>1. Len(s) = m + 0
    BY <1>1 DEF Shows
  <2>2. ASSUME NEW i \in 1..m PROVE s[i] = d.ch[d.tags[i + 1]]
    <3>1. i + Len(<<>>) = i /\ i \in (0 + 1)..m
      BY <1>1
    <3> QED
      BY <3>1 DEF Shows
  <2> QED
    BY <2>1, <2>2
<1>3. /\ Len(r) = m + 1
      /\ \A i \in 1..pos : r[i] = s[i]
      /\ r[pos + 1] = c
      /\ \A i \in (pos + 1)..m : r[i + 1] = s[i]
  BY <1>1, <1>2 DEF Spliced
<1>4. ASSUME NEW i \in 1..(m + 1) PROVE r[i] = e.ch[e.tags[i + 1]]
  <2>1. CASE i \in 1..pos
    <3>1. r[i] = d.ch[d.tags[i + 1]]
      <4>1. i \in 1..m
        BY <1>1, <2>1
      <4> QED
        BY <1>2, <1>3, <2>1, <4>1
    <3> QED
      BY <2>1, <3>1 DEF Grown
  <2>2. CASE i = pos + 1
    <3>1. i + 1 = pos + 2
      BY <1>1, <2>2
    <3>2. e.ch[e.tags[pos + 2]] = c
      BY DEF Grown
    <3> QED
      BY <1>3, <2>2, <3>1, <3>2
  <2>3. CASE i \in (pos + 2)..(m + 1)
    <3>1. PICK j \in (pos + 1)..m : i = j + 1
      <4>1. i - 1 \in (pos + 1)..m /\ i = (i - 1) + 1
        BY <1>1, <2>3
      <4> QED
        BY <4>1
    <3>2. r[j + 1] = s[j] /\ s[j] = d.ch[d.tags[j + 1]]
      <4>1. j \in 1..m
        BY <1>1
      <4> QED
        BY <1>2, <1>3, <4>1
    <3>3. e.ch[e.tags[j + 2]] = d.ch[d.tags[j + 1]]
      BY DEF Grown
    <3>4. i + 1 = j + 2
      BY <1>1, <3>1
    <3> QED
      BY <3>1, <3>2, <3>3, <3>4
  <2> QED
    BY <1>1, <2>1, <2>2, <2>3
<1>5. Len(r) = (m + 1) + 0 /\ 0 \in 0..(m + 1)
  BY <1>3
<1>6. /\ \A i \in 1..0 : r[i] = e.ch[e.tags[i + 1]]
      /\ \A i \in 1..0 : r[0 + i] = <<>>[i]
      /\ \A i \in (0 + 1)..(m + 1) : r[i + 0] = e.ch[e.tags[i + 1]]
  BY <1>4
<1> QED
  BY <1>1, <1>5, <1>6 DEF Shows

(* Characters that are pasted, and not noted yet.                          *)
LEMMA ShowsPasted ==
  ASSUME NEW d, NEW m \in Nat, NEW s, Shows(d, m, 0, <<>>, s),
         NEW from \in 0..m, NEW n \in Nat, NEW chars, Len(chars) = n,
         NEW r, Spliced(s, from, chars, r)
  PROVE  Shows(d, m, from, chars, r)
<1>1. Len(s) = m /\ \A i \in 1..m : s[i] = d.ch[d.tags[i + 1]]
  <2>1. Len(<<>>) = 0
    BY EmptySeq
  <2>2. Len(s) = m + 0
    BY <2>1 DEF Shows
  <2>3. ASSUME NEW i \in 1..m PROVE s[i] = d.ch[d.tags[i + 1]]
    <3>1. i + Len(<<>>) = i /\ i \in (0 + 1)..m
      BY <2>1
    <3> QED
      BY <3>1 DEF Shows
  <2> QED
    BY <2>2, <2>3
<1>2. Len(r) = m + Len(chars)
  BY <1>1 DEF Spliced
<1>3. /\ \A i \in 1..from : r[i] = d.ch[d.tags[i + 1]]
      /\ \A i \in (from + 1)..m : r[i + Len(chars)] = d.ch[d.tags[i + 1]]
  <2>1. /\ \A i \in 1..from : i \in 1..m
        /\ \A i \in (from + 1)..m : i \in 1..m
    OBVIOUS
  <2> QED
    BY <1>1, <2>1 DEF Spliced
<1> QED
  BY <1>2, <1>3 DEF Shows, Spliced

(* The first of them is noted, ...                                         *)
LEMMA ShowsNoted ==
  ASSUME NEW d, NEW e, NEW m \in Nat, NEW from, NEW S, NEW chars \in Seq(S), chars # <<>>,
         Grown(d, e, m, from, Head(chars)), NEW s, Shows(d, m, from, chars, s)
  PROVE  Shows(e, m + 1, from + 1, Tail(chars), s)
<1>1. PICK n \in Nat : Len(chars) = n + 1
  <2>1. Len(chars) \in Nat /\ Len(chars) # 0
    BY EmptySeq
  <2>2. Len(chars) - 1 \in Nat /\ Len(chars) = (Len(chars) - 1) + 1
    BY <2>1
  <2> QED
    BY <2>2
<1>2. /\ Head(chars) = chars[1] /\ Len(Tail(chars)) = n
      /\ \A i \in 1..n : Tail(chars)[i] = chars[i + 1]
  <2>1. Head(chars) = chars[1]
    OBVIOUS
  <2>2. Len(Tail(chars)) = n
    BY <1>1
  <2>3. \A i \in 1..n : Tail(chars)[i] = chars[i + 1]
    BY <1>1, <2>2
  <2> QED
    BY <2>1, <2>2, <2>3
<1>3. from \in 0..m
  BY DEF Shows
<1>4. Len(s) = (m + 1) + n /\ from + 1 \in 0..(m + 1)
  BY <1>1, <1>3 DEF Shows
<1>5. ASSUME NEW i \in 1..(from + 1) PROVE s[i] = e.ch[e.tags[i + 1]]
  <2>1. CASE i \in 1..from
    BY <2>1 DEF Shows, Grown
  <2>2. CASE i = from + 1
    <3>1. s[from + 1] = chars[1]
      <4>1. 1 \in 1..Len(chars)
        BY <1>1
      <4> QED
        BY <4>1 DEF Shows
    <3>2. e.ch[e.tags[from + 2]] = Head(chars)
      BY DEF Grown
    <3>3. i + 1 = from + 2
      BY <1>3, <2>2
    <3> QED
      BY <1>2, <2>2, <3>1, <3>2, <3>3
  <2> QED
    BY <1>3, <2>1, <2>2
<1>6. ASSUME NEW i \in 1..n PROVE s[(from + 1) + i] = Tail(chars)[i]
  <2>1. PICK j \in 1..Len(chars) : j = i + 1
    BY <1>1
  <2>2. s[from + j] = chars[j]
    BY DEF Shows
  <2>3. (from + 1) + i = from + j
    BY <1>3, <2>1
  <2> QED
    BY <1>2, <2>1, <2>2, <2>3
<1>7. ASSUME NEW i \in ((from + 1) + 1)..(m + 1) PROVE s[i + n] = e.ch[e.tags[i + 1]]
  <2>1. PICK j \in (from + 1)..m : i = j + 1
    <3>1. i - 1 \in (from + 1)..m /\ i = (i - 1) + 1
      BY <1>3
    <3> QED
      BY <3>1
  <2>2. s[j + Len(chars)] = d.ch[d.tags[j + 1]]
    BY DEF Shows
  <2>3. e.ch[e.tags[j + 2]] = d.ch[d.tags[j + 1]]
    BY DEF Grown
  <2>4. i + n = j + Len(chars) /\ i + 1 = j + 2
    BY <1>1, <1>3, <2>1
  <2> QED
    BY <2>2, <2>3, <2>4
<1> QED
  BY <1>2, <1>4, <1>5, <1>6, <1>7 DEF Shows

(* ... and when all are, the text is what is shown.                        *)
LEMMA ShowsAll ==
  ASSUME NEW d, NEW m \in Nat, NEW from, NEW s, Shows(d, m, from, <<>>, s)
  PROVE  Shows(d, m, 0, <<>>, s)
<1>1. Len(<<>>) = 0 /\ from \in 0..m /\ Len(s) = m + Len(<<>>)
  BY EmptySeq DEF Shows
<1>2. ASSUME NEW i \in 1..m PROVE s[i] = d.ch[d.tags[i + 1]]
  <2>1. CASE i \in 1..from
    BY <2>1 DEF Shows
  <2>2. CASE i \in (from + 1)..m
    <3>1. s[i + Len(<<>>)] = d.ch[d.tags[i + 1]]
      BY <2>2 DEF Shows
    <3>2. i + Len(<<>>) = i
      BY <1>1
    <3> QED
      BY <3>1, <3>2
  <2> QED
    BY <1>1, <2>1, <2>2
<1>3. /\ \A i \in 1..0 : s[i] = d.ch[d.tags[i + 1]]
      /\ \A i \in 1..0 : s[0 + i] = <<>>[i]
      /\ \A i \in (0 + 1)..m : s[i + 0] = d.ch[d.tags[i + 1]]
  BY <1>2
<1> QED
  BY <1>1, <1>3 DEF Shows
(* PPS.insert and PPS.add: the new tag is between its neighbours.          *)
LEMMA AddGrows ==
  ASSUME NEW d, Proper(d), NEW m, Packed(d, m), NEW pos \in 0..m,
         NEW t \in Stamps \ ListedTags(d), ~ Tiny(t),
         \A j \in DOMAIN d.tags : ~ Tiny(d.tags[j]) /\ d.tags[j] \in 0..One,
         d.tags[pos + 1] < t, t < d.tags[pos + 2], NEW c, c # Nul
  PROVE  Grown(d, Add(d, t, c), m, pos, c)
<1>1. Len(d.tags) \in Nat /\ m \in Nat /\ m + 2 <= Len(d.tags)
  BY DEF Proper, Listed, Packed
<1>2. PICK k : k = pos + 1
  OBVIOUS
<1>3. k \in 1..(Len(d.tags) - 1) /\ k + 1 = pos + 2
  BY <1>1, <1>2
<1>4. d.tags[k] < t /\ t < d.tags[k + 1]
  BY <1>2, <1>3
<1>5. Before(d.tags, t) = 1..(pos + 1)
  BY <1>2, <1>3, <1>4, BetweenBefore
<1>6. t \in Tags
  BY OneAssumption, SMT DEF Stamps, Tags, NullTag
<1>7. PICK e : e = Add(d, t, c)
  OBVIOUS
<1>8. e.tags = Push(d.tags, t) /\ e.ch = MapSet(d.ch, t, c)
  BY <1>7 DEF Add
<1>9. Grown(d, e, m, pos, c)
  BY <1>5, <1>6, <1>8, PushGrows
<1> QED
  BY <1>7, <1>9

(* The tags that deleteText hides.                                         *)
Erased(d, from, to, gone) ==
  gone = {DeleteTag(d, p) : p \in {q \in (from + 1)..to : Deletable(d, q)}}

(* The document e shows the first k characters of d, and no others.        *)
Cut(d, e, k) == Packed(e, k) /\ \A i \in 1..k : e.ch[e.tags[i + 1]] = d.ch[d.tags[i + 1]]

(* This is what it does from a place to the end.                           *)
LEMMA HidePacked ==
  ASSUME NEW d, Proper(d), OnceListed(d), NEW m, Packed(d, m),
         NEW from \in Nat, NEW to \in Nat, m <= to, NEW gone, Erased(d, from, to, gone),
         NEW k \in Nat, k = IF from <= m THEN from ELSE m
  PROVE  Cut(d, Hide(d, gone), k)
<1> DEFINE e == Hide(d, gone)
<1>1. /\ d.tags \in Seq(Tags) /\ Len(d.tags) \in Nat /\ DOMAIN d.tags = 1..Len(d.tags)
      /\ m \in Nat /\ m + 2 <= Len(d.tags) /\ k <= m
  BY DEF Proper, Listed, Packed
<1>2. e.tags = d.tags /\ e.ch = [u \in DOMAIN d.ch |-> IF u \in gone THEN Nul ELSE d.ch[u]]
  <2> DEFINE ch == [u \in DOMAIN d.ch |-> IF u \in gone THEN Nul ELSE d.ch[u]]
             ack == [u \in DOMAIN d.ack |-> d.ack[u] /\ u \notin gone]
  <2>1. e = [d EXCEPT !.ch = ch, !.ack = ack]
    BY DEF Hide
  <2> HIDE DEF e, ch, ack
  <2>2. d = [tags |-> d.tags, ch |-> d.ch, ack |-> d.ack]
    BY DEF Proper, Mapped
  <2>3. e.tags = d.tags /\ e.ch = ch
    BY <2>1, <2>2
  <2> QED
    BY <2>3 DEF ch
<1> HIDE DEF e
<1>3. ASSUME NEW j \in DOMAIN d.tags
      PROVE  d.tags[j] \in gone <=> j \in (from + 2)..(m + 1)
  <2>1. CountShown(d) = m
    BY <1>1, PackedCount
  <2>2. ASSUME d.tags[j] \in gone PROVE j \in (from + 2)..(m + 1)
    <3>1. PICK p \in (from + 1)..to : p <= m /\ d.tags[j] = d.tags[p + 1]
      BY <2>1, <2>2 DEF Deletable, DeleteTag, Erased
    <3>2. p + 1 \in DOMAIN d.tags
      BY <1>1, <3>1
    <3>3. j = p + 1
      BY <3>1, <3>2 DEF OnceListed
    <3> QED
      BY <1>1, <3>1, <3>3
  <2>3. ASSUME j \in (from + 2)..(m + 1) PROVE d.tags[j] \in gone
    <3>1. PICK p \in (from + 1)..to : j = p + 1 /\ p <= m
      <4>1. j - 1 \in (from + 1)..to /\ j = (j - 1) + 1 /\ j - 1 <= m
        BY <1>1, <2>3
      <4> QED
        BY <4>1
    <3>2. Deletable(d, p) /\ DeleteTag(d, p) = d.tags[j]
      BY <2>1, <3>1 DEF Deletable, DeleteTag
    <3> QED
      BY <3>2 DEF Erased
  <2> QED
    BY <2>2, <2>3
<1>4. ASSUME NEW j \in DOMAIN d.tags
      PROVE  e.ch[d.tags[j]] = IF j \in (from + 2)..(m + 1) THEN Nul ELSE d.ch[d.tags[j]]
  <2>1. d.tags[j] \in DOMAIN d.ch
    BY DEF Proper, Listed
  <2> QED
    BY <1>2, <1>3, <2>1
<1>5. ASSUME NEW j \in DOMAIN e.tags PROVE Shown(e, e.tags[j]) <=> j \in 2..(k + 1)
  <2>1. Shown(d, d.tags[j]) <=> j \in 2..(m + 1)
    BY <1>2 DEF Packed
  <2>2. Shown(e, e.tags[j]) <=> j \in 2..(m + 1) /\ j \notin (from + 2)..(m + 1)
    BY <1>2, <1>4, <2>1 DEF Shown
  <2>3. j \in 2..(m + 1) /\ j \notin (from + 2)..(m + 1) <=> j \in 2..(k + 1)
    BY <1>1
  <2> QED
    BY <2>2, <2>3
<1>6. ASSUME NEW i \in 1..k PROVE e.ch[e.tags[i + 1]] = d.ch[d.tags[i + 1]]
  <2>1. i + 1 \in DOMAIN d.tags /\ i + 1 \notin (from + 2)..(m + 1)
    BY <1>1
  <2> QED
    BY <1>2, <1>4, <2>1
<1>7. Packed(e, k)
  <2>1. k + 2 <= Len(e.tags)
    BY <1>1, <1>2
  <2> QED
    BY <1>5, <2>1 DEF Packed
<1> QED
  BY <1>6, <1>7 DEF e, Cut

(* The text without its end is what is shown then.                         *)
LEMMA ShowsTrimmed ==
  ASSUME NEW d, NEW e, NEW m \in Nat, NEW s, Shows(d, m, 0, <<>>, s), NEW k \in 0..m,
         Cut(d, e, k), NEW r, Len(r) = k, \A i \in 1..k : r[i] = s[i]
  PROVE  Shows(e, k, 0, <<>>, r)
<1>1. Len(<<>>) = 0 /\ k \in Nat
  BY EmptySeq
<1>2. ASSUME NEW i \in 1..k PROVE r[i] = e.ch[e.tags[i + 1]]
  <2>1. i \in (0 + 1)..m /\ i + Len(<<>>) = i
    BY <1>1
  <2>2. s[i + Len(<<>>)] = d.ch[d.tags[i + 1]]
    BY <2>1 DEF Shows
  <2> QED
    BY <2>1, <2>2 DEF Cut
<1>3. /\ \A i \in 1..0 : r[i] = e.ch[e.tags[i + 1]]
      /\ \A i \in 1..0 : r[0 + i] = <<>>[i]
      /\ \A i \in (0 + 1)..k : r[i + 0] = e.ch[e.tags[i + 1]]
  BY <1>2
<1>4. 0 \in 0..k /\ Len(r) = k + 0
  BY <1>1
<1> QED
  BY <1>1, <1>3, <1>4 DEF Shows

(* Another guest's character goes to the same place of document and text.  *)
LEMMA AttachGrows ==
  ASSUME NEW p, Proper(p.doc), NEW S, p.text \in Seq(S),
         NEW m, Packed(p.doc, m), Len(p.doc.tags) = m + 2, m <= Len(p.text),
         NEW t \in Stamps \ ListedTags(p.doc), ~ Tiny(t), NEW c \in S, c # Nul, NEW clamps
  PROVE  \E pos \in 0..m :
           /\ Grown(p.doc, Attach(p, t, c, clamps).doc, m, pos, c)
           /\ Spliced(p.text, pos, <<c>>, Attach(p, t, c, clamps).text)
<1> DEFINE d == p.doc   e == Attach(p, t, c, clamps).doc   s == Attach(p, t, c, clamps).text
<1>1. e.ch = MapSet(d.ch, t, c) /\ e.tags = Push(d.tags, t)
  BY DEF Attach, Proper, Mapped
<1>2. s = TextInsert(p.text, Index(e, t), c)
  <2> HIDE DEF e
  <2>1. e = [d EXCEPT !.ch = MapSet(@, t, c), !.ack = MapSet(@, t, TRUE),
                      !.tags = IF c = Nul THEN @ ELSE Push(@, t)]
    BY DEF Attach, e
  <2> QED
    BY <2>1 DEF Attach
<1> HIDE DEF d, e, s
<1>3. /\ Proper(d) /\ Packed(d, m) /\ d.tags \in Seq(Tags) /\ Ranked(d.tags)
      /\ Len(d.tags) = m + 2 /\ m \in Nat /\ DOMAIN d.tags = 1..(m + 2)
      /\ t \in Stamps \ ListedTags(d)
  BY DEF d, Proper, Listed, Packed
<1>4. t \in Tags /\ Rank(t) = t /\ 0 < t /\ t < One /\ Rank(0) = 0 /\ Rank(One) = One
  <2>1. t \in Tags /\ 0 < t /\ t < One /\ t # NullTag
    BY OneAssumption, SMT DEF Stamps, Tags, NullTag
  <2> QED
    BY <2>1, RankIs DEF Rank
<1>5. PICK n \in 0..Len(d.tags) : Before(d.tags, t) = 1..n
  BY <1>3, <1>4, BeforePrefix
<1>6. d.tags[1] = 0 /\ d.tags[m + 2] = One
  <2>1. PICK o \in 2..Len(d.tags) : \A k \in 1..Len(d.tags) : d.tags[k] = One <=> k = o
    BY <1>3 DEF Proper, Ended
  <2>2. d.tags[o] = One /\ o \in DOMAIN d.tags
    BY <1>3, <2>1
  <2>3. o \notin 2..(m + 1)
    <3>1. ~ Shown(d, d.tags[o])
      BY <1>3, <2>2 DEF Proper, Charred, Shown
    <3> QED
      BY <1>3, <2>2, <3>1 DEF Packed
  <2>4. o = m + 2
    BY <1>3, <2>3
  <2> QED
    BY <1>3, <2>2, <2>4 DEF Proper, Ended
<1>7. 1 \in Before(d.tags, t) /\ m + 2 \notin Before(d.tags, t)
  <2>1. 1 \in DOMAIN d.tags
    BY <1>3
  <2>2. Rank(d.tags[1]) < Rank(t) /\ ~ Rank(d.tags[m + 2]) < Rank(t)
    <3>1. One \in Nat
      BY OneAssumption, SMT
    <3> QED
      BY <1>4, <1>6, <3>1 DEF Stamps
  <2> QED
    BY <2>1, <2>2 DEF Before
<1>8. PICK pos \in 0..m : n = pos + 1
  <2>1. n >= 1 /\ n <= m + 1
    BY <1>3, <1>5, <1>7
  <2>2. n - 1 \in 0..m /\ n = (n - 1) + 1
    BY <1>3, <2>1
  <2> QED
    BY <2>2
<1>9. Grown(d, e, m, pos, c) /\ Before(e.tags, t) = 1..(pos + 1) /\ t \in ListedTags(e)
  <2>1. Before(d.tags, t) = 1..(pos + 1) /\ t \in Tags \ ListedTags(d)
    BY <1>3, <1>4, <1>5, <1>8
  <2> QED
    BY <1>1, <1>3, <2>1, PushGrows
<1>10. Index(e, t) = pos
  <2>1. \E k \in DOMAIN e.tags : e.tags[k] = t
    BY <1>9 DEF ListedTags
  <2>2. Index(e, t) = Cardinality({k \in 1..(pos + 1) : Shown(e, e.tags[k])})
    BY <1>9, <2>1 DEF Index
  <2>3. {k \in 1..(pos + 1) : Shown(e, e.tags[k])} = 2..(pos + 1)
    <3>1. ASSUME NEW k \in 1..(pos + 1) PROVE Shown(e, e.tags[k]) <=> k \in 2..(pos + 1)
      <4>1. k \in DOMAIN e.tags
        BY <1>9, <3>1 DEF Before
      <4>2. Shown(e, e.tags[k]) <=> k \in 2..((m + 1) + 1)
        BY <1>9, <4>1 DEF Grown, Packed
      <4>3. k \in 2..((m + 1) + 1) <=> k \in 2..(pos + 1)
        BY <1>3
      <4> QED
        BY <4>2, <4>3
    <3>2. 2..(pos + 1) \subseteq 1..(pos + 1)
      OBVIOUS
    <3> QED
      BY <3>1, <3>2
  <2>4. Cardinality(2..(pos + 1)) = pos
    <3>1. PICK b \in Nat : b = pos + 1
      BY <1>3
    <3>2. Cardinality(2..b) = IF 2 > b THEN 0 ELSE b - 2 + 1
      BY FS_Interval
    <3> QED
      BY <1>3, <3>1, <3>2
  <2> QED
    BY <2>2, <2>3, <2>4
<1>11. pos \in 0..Len(p.text)
  BY <1>3
<1>12. Spliced(p.text, pos, <<c>>, s)
  BY <1>2, <1>10, <1>11, SplicedInsert
<1> QED
  BY <1>9, <1>12 DEF d, e, s
(* The changes of an answer go to the same places of document and text.    *)
LEMMA AttachAllGrows ==
  ASSUME NEW S \in SUBSET Nat, NEW p, Proper(p.doc), OnceListed(p.doc), p.text \in Seq(S),
         NEW m, Packed(p.doc, m), Len(p.doc.tags) = m + 2, m <= Len(p.text),
         NEW T, NEW changes \in Seq(T), NewTo(p, changes, S), Differing(changes),
         \A k \in 1..Len(changes) :
           changes[k].ch # Nul /\ changes[k].tag \in Stamps /\ ~ Tiny(changes[k].tag),
         NEW clamps
  PROVE  LET q == AttachAll(p, changes, clamps)
         IN  /\ Packed(q.doc, m + Len(changes)) /\ Len(q.doc.tags) = (m + Len(changes)) + 2
             /\ Len(q.text) = Len(p.text) + Len(changes)
             /\ Shows(p.doc, m, 0, <<>>, p.text) => Shows(q.doc, m + Len(changes), 0, <<>>, q.text)
<1>1. PICK page : /\ Attached(p, changes, clamps, page)
                  /\ AttachAll(p, changes, clamps) = page[Len(changes)]
  BY AttachAllRuns
<1> DEFINE n == Len(changes)
           New(k) == {t \in 1..NullTag : \E i \in 1..k : changes[i].tag = t}
           Good == {k \in 0..n :
                      /\ Proper(page[k].doc) /\ page[k].text \in Seq(S)
                      /\ OnceListed(page[k].doc)
                      /\ ListedTags(page[k].doc) \subseteq ListedTags(p.doc) \cup New(k)
                      /\ Packed(page[k].doc, m + k) /\ Len(page[k].doc.tags) = (m + k) + 2
                      /\ Len(page[k].text) = Len(p.text) + k
                      /\ Shows(p.doc, m, 0, <<>>, p.text)
                           => Shows(page[k].doc, m + k, 0, <<>>, page[k].text)}
<1>2. n \in Nat /\ m \in Nat /\ Len(p.text) \in Nat
  BY DEF Packed
<1>3. 0 \in Good
  <2>1. page[0] = p
    BY <1>1 DEF Attached
  <2>2. m + 0 = m /\ Len(p.text) + 0 = Len(p.text) /\ 0 \in 0..n
    BY <1>2
  <2> QED
    BY <2>1, <2>2
<1>4. ASSUME NEW k \in 0..n, k \in Good, k + 1 <= n PROVE k + 1 \in Good
  <2>1. k + 1 \in 1..n /\ (k + 1) - 1 = k /\ k \in Nat
    BY <1>2, <1>4
  <2> DEFINE t == changes[k + 1].tag   c == changes[k + 1].ch
  <2>2. page[k + 1] = Attach(page[k], t, c, clamps)
    BY <1>1, <2>1 DEF Attached
  <2>3. /\ t \in 1..NullTag /\ c \in S \cup {Nul} /\ (t = One => c = Nul)
        /\ c # Nul /\ t \in Stamps /\ ~ Tiny(t)
    BY <2>1 DEF NewTo
  <2>4. /\ Proper(page[k].doc) /\ page[k].text \in Seq(S) /\ OnceListed(page[k].doc)
        /\ ListedTags(page[k].doc) \subseteq ListedTags(p.doc) \cup New(k)
        /\ Packed(page[k].doc, m + k) /\ Len(page[k].doc.tags) = (m + k) + 2
        /\ Len(page[k].text) = Len(p.text) + k
        /\ Shows(p.doc, m, 0, <<>>, p.text) => Shows(page[k].doc, m + k, 0, <<>>, page[k].text)
    BY <1>4
  <2>5. t \notin ListedTags(page[k].doc)
    <3>1. \A i \in 1..k : i \in 1..n /\ i # k + 1
      BY <1>2, <2>1
    <3>2. t \notin New(k)
      BY <2>1, <3>1 DEF Differing
    <3> QED
      BY <2>1, <2>3, <2>4, <3>2 DEF NewTo
  <2>6. New(k) \cup {t} \subseteq New(k + 1)
    <3>1. \A i \in 1..k : i \in 1..(k + 1)
      BY <2>1
    <3>2. k + 1 \in 1..(k + 1)
      BY <2>1
    <3> QED
      BY <2>3, <3>1, <3>2
  <2> HIDE DEF t, c, New
  <2>7. Proper(page[k + 1].doc) /\ page[k + 1].text \in Seq(S)
    BY <2>2, <2>3, <2>4, AttachProper
  <2>8. PICK r : r = page[k]
    OBVIOUS
  <2>9. PICK l \in Nat : l = m + k
    BY <1>2, <2>1
  <2>10. /\ Proper(r.doc) /\ OnceListed(r.doc) /\ r.text \in Seq(S) /\ t \notin ListedTags(r.doc)
         /\ Packed(r.doc, l) /\ Len(r.doc.tags) = l + 2 /\ Len(r.text) = Len(p.text) + k
         /\ l <= Len(r.text)
    BY <1>2, <2>1, <2>4, <2>5, <2>8, <2>9
  <2>11. /\ OnceListed(page[k + 1].doc)
         /\ ListedTags(page[k + 1].doc) = ListedTags(r.doc) \cup {t}
    <3>1. PICK more \in Nat : Len(r.text) <= CountShown(r.doc) + more
      <4>1. CountShown(r.doc) \in Nat
        BY <2>10, CountByTags DEF Proper, Listed
      <4>2. Len(r.text) \in Nat
        BY <2>10
      <4>3. Len(r.text) <= CountShown(r.doc) + Len(r.text)
        BY <4>1, <4>2
      <4> QED
        BY <4>2, <4>3
    <3>2. LET q == Attach(r, t, c, clamps)
          IN  /\ OnceListed(q.doc)
              /\ ListedTags(q.doc) = ListedTags(r.doc) \cup (IF c = Nul THEN {} ELSE {t})
              /\ Len(q.text) <= CountShown(q.doc) + more
      BY <2>3, <2>10, <3>1, AttachCount
    <3> QED
      BY <2>2, <2>3, <2>8, <3>2
  <2>12. PICK pos \in 0..l : /\ Grown(r.doc, page[k + 1].doc, l, pos, c)
                             /\ Spliced(r.text, pos, <<c>>, page[k + 1].text)
    <3>1. c \in S /\ t \in Stamps \ ListedTags(r.doc)
      BY <2>3, <2>10
    <3>2. \E pos \in 0..l : /\ Grown(r.doc, Attach(r, t, c, clamps).doc, l, pos, c)
                            /\ Spliced(r.text, pos, <<c>>, Attach(r, t, c, clamps).text)
      BY <2>3, <2>10, <3>1, AttachGrows
    <3> QED
      BY <2>2, <2>8, <3>2
  <2>13. Packed(page[k + 1].doc, l + 1) /\ Len(page[k + 1].doc.tags) = (l + 1) + 2
    <3>1. Packed(page[k + 1].doc, l + 1) /\ Len(page[k + 1].doc.tags) = Len(r.doc.tags) + 1
      BY <2>12 DEF Grown
    <3> QED
      BY <2>9, <2>10, <3>1
  <2>14. Len(page[k + 1].text) = Len(p.text) + (k + 1)
    <3>1. Len(page[k + 1].text) = Len(r.text) + Len(<<c>>) /\ Len(<<c>>) = 1
      BY <2>12 DEF Spliced
    <3> QED
      BY <1>2, <2>1, <2>10, <3>1
  <2>15. Shows(p.doc, m, 0, <<>>, p.text) => Shows(page[k + 1].doc, l + 1, 0, <<>>, page[k + 1].text)
    <3> SUFFICES ASSUME Shows(p.doc, m, 0, <<>>, p.text)
                 PROVE  Shows(page[k + 1].doc, l + 1, 0, <<>>, page[k + 1].text)
      OBVIOUS
    <3>1. Shows(r.doc, l, 0, <<>>, r.text)
      BY <2>4, <2>8, <2>9
    <3> QED
      BY <2>9, <2>12, <3>1, ShowsInserted
  <2>16. k + 1 \in 0..n /\ l + 1 = m + (k + 1)
    BY <1>2, <2>1, <2>9
  <2>17. ListedTags(page[k + 1].doc) \subseteq ListedTags(p.doc) \cup New(k + 1)
    BY <2>4, <2>6, <2>8, <2>11
  <2> QED
    BY <2>7, <2>11, <2>13, <2>14, <2>15, <2>16, <2>17
<1>5. n \in Good
  <2> HIDE DEF Good
  <2>1. \A k \in 0..n : k \in Good /\ k + 1 <= n => k + 1 \in Good
    BY <1>4
  <2>2. 0..n \subseteq Good
    BY <1>2, <1>3, <2>1, Induction
  <2> QED
    BY <1>2, <2>2
<1> QED
  BY <1>1, <1>5
-----------------------------------------------------------------------------
(***************************************************************************)
(* A text that has become another one than it was when something was       *)
(* pasted: it lacks one of the characters of then, or has a new one before *)
(* one of them.  Typing and trimming never lead back.                      *)
(***************************************************************************)
Lacks(s, o) == \E c \in Ext!Range(o) : c \notin Ext!Range(s)
Mixed(s, o) ==
  \E i, j \in DOMAIN s : i < j /\ s[i] \notin Ext!Range(o) /\ s[j] \in Ext!Range(o)
Strays(s, o) == Lacks(s, o) \/ Mixed(s, o)

(* It is another one.                                                      *)
LEMMA StraysDiffers ==
  ASSUME NEW s, NEW o, Strays(s, o)
  PROVE  s # o
BY DEF Strays, Lacks, Mixed, Ext!Range

(* Where the characters of a text are after something is put in.           *)
LEMMA SplicedPlaces ==
  ASSUME NEW S, NEW s \in Seq(S), NEW chars \in Seq(S), NEW from \in 0..Len(s),
         NEW r \in Seq(S), Spliced(s, from, chars, r)
  PROVE  /\ \A j \in DOMAIN r :
              \/ j \in DOMAIN s /\ j <= from /\ r[j] = s[j]
              \/ \E i \in DOMAIN chars : j = from + i /\ r[j] = chars[i]
              \/ \E i \in DOMAIN s : i > from /\ j = i + Len(chars) /\ r[j] = s[i]
         /\ \A i \in DOMAIN s :
              \E j \in DOMAIN r : /\ r[j] = s[i]
                                  /\ j = IF i <= from THEN i ELSE i + Len(chars)
<1>1. /\ Len(s) \in Nat /\ Len(chars) \in Nat /\ from \in Nat /\ from <= Len(s)
      /\ DOMAIN s = 1..Len(s) /\ DOMAIN chars = 1..Len(chars)
      /\ DOMAIN r = 1..(Len(s) + Len(chars))
  BY DEF Spliced
<1>2. ASSUME NEW j \in DOMAIN r
      PROVE  \/ j \in DOMAIN s /\ j <= from /\ r[j] = s[j]
             \/ \E i \in DOMAIN chars : j = from + i /\ r[j] = chars[i]
             \/ \E i \in DOMAIN s : i > from /\ j = i + Len(chars) /\ r[j] = s[i]
  <2>1. CASE j <= from
    <3>1. j \in 1..from /\ j \in DOMAIN s
      BY <1>1, <2>1
    <3> QED
      BY <2>1, <3>1 DEF Spliced
  <2>2. CASE from < j /\ j <= from + Len(chars)
    <3>1. j - from \in 1..Len(chars) /\ j = from + (j - from)
      BY <1>1, <2>2
    <3>2. r[from + (j - from)] = chars[j - from]
      BY <3>1 DEF Spliced
    <3> QED
      BY <1>1, <3>1, <3>2
  <2>3. CASE from + Len(chars) < j
    <3>1. PICK i \in (from + 1)..Len(s) : j = i + Len(chars)
      <4>1. j - Len(chars) \in (from + 1)..Len(s) /\ j = (j - Len(chars)) + Len(chars)
        BY <1>1, <2>3
      <4> QED
        BY <4>1
    <3>2. r[i + Len(chars)] = s[i]
      BY DEF Spliced
    <3>3. i \in DOMAIN s /\ i > from
      BY <1>1
    <3> QED
      BY <3>1, <3>2, <3>3
  <2> QED
    BY <1>1, <2>1, <2>2, <2>3
<1>3. ASSUME NEW i \in DOMAIN s
      PROVE  \E j \in DOMAIN r : /\ r[j] = s[i]
                                 /\ j = IF i <= from THEN i ELSE i + Len(chars)
  <2>1. CASE i <= from
    <3>1. i \in 1..from /\ i \in DOMAIN r
      BY <1>1, <2>1
    <3> QED
      BY <2>1, <3>1 DEF Spliced
  <2>2. CASE ~ i <= from
    <3>1. i \in (from + 1)..Len(s) /\ i + Len(chars) \in DOMAIN r
      BY <1>1, <2>2
    <3> QED
      BY <2>2, <3>1 DEF Spliced
  <2> QED
    BY <2>1, <2>2
<1> QED
  BY <1>2, <1>3

(* Something new is put in, before the end of a text that has not strayed  *)
(* yet.                                                                    *)
LEMMA SplicedStrays ==
  ASSUME NEW S, NEW s \in Seq(S), NEW chars \in Seq(S), NEW from \in 0..Len(s),
         NEW r \in Seq(S), Spliced(s, from, chars, r), NEW o,
         \A i \in DOMAIN chars : chars[i] \notin Ext!Range(o),
         Strays(s, o) \/ (s = o /\ from < Len(s) /\ chars # <<>>)
  PROVE  Strays(r, o)
<1>1. /\ Len(s) \in Nat /\ Len(chars) \in Nat /\ from \in Nat
      /\ DOMAIN s = 1..Len(s) /\ DOMAIN chars = 1..Len(chars)
      /\ DOMAIN r = 1..(Len(s) + Len(chars))
  BY DEF Spliced
<1>2. CASE Lacks(s, o)
  <2>1. PICK c \in Ext!Range(o) : c \notin Ext!Range(s)
    BY <1>2 DEF Lacks
  <2>2. ASSUME NEW j \in DOMAIN r, r[j] = c PROVE FALSE
    <3>1. \/ \E i \in DOMAIN s : r[j] = s[i]
          \/ \E i \in DOMAIN chars : r[j] = chars[i]
      BY SplicedPlaces
    <3> QED
      BY <2>1, <2>2, <3>1 DEF Ext!Range
  <2>3. c \notin Ext!Range(r)
    BY <2>2 DEF Ext!Range
  <2> QED
    BY <2>3 DEF Strays, Lacks
<1>3. CASE Mixed(s, o)
  <2>1. PICK i, k \in DOMAIN s : i < k /\ s[i] \notin Ext!Range(o) /\ s[k] \in Ext!Range(o)
    BY <1>3 DEF Mixed
  <2>2. PICK j \in DOMAIN r : r[j] = s[i] /\ j = IF i <= from THEN i ELSE i + Len(chars)
    BY SplicedPlaces
  <2>3. PICK l \in DOMAIN r : r[l] = s[k] /\ l = IF k <= from THEN k ELSE k + Len(chars)
    BY SplicedPlaces
  <2>4. j < l
    BY <1>1, <2>1, <2>2, <2>3
  <2> QED
    BY <2>1, <2>2, <2>3, <2>4 DEF Strays, Mixed
<1>4. CASE s = o /\ from < Len(s) /\ chars # <<>>
  <2>1. Len(chars) # 0
    BY <1>4, EmptySeq
  <2>2. PICK k \in DOMAIN s : k = from + 1
    BY <1>1, <1>4
  <2>3. PICK l \in DOMAIN r : r[l] = s[k] /\ l = IF k <= from THEN k ELSE k + Len(chars)
    BY SplicedPlaces
  <2>4. 1 \in DOMAIN chars /\ 1 \in 1..Len(chars) /\ from + 1 \in DOMAIN r
    BY <1>1, <2>1
  <2>5. r[from + 1] = chars[1]
    BY <2>4 DEF Spliced
  <2>6. from + 1 < l
    BY <1>1, <2>1, <2>2, <2>3
  <2>7. r[l] \in Ext!Range(o)
    BY <1>4, <2>3 DEF Ext!Range
  <2> QED
    BY <2>4, <2>5, <2>6, <2>7 DEF Strays, Mixed
<1> QED
  BY <1>2, <1>3, <1>4 DEF Strays

(* A text of different characters loses its end.                           *)
LEMMA TrimStrays ==
  ASSUME NEW S, NEW s \in Seq(S), Ext!IsInjective(s), NEW k \in 0..Len(s), k < Len(s),
         NEW r \in Seq(S), Len(r) = k, \A i \in 1..k : r[i] = s[i], NEW o,
         Strays(s, o) \/ s = o
  PROVE  Strays(r, o)
<1>1. Len(s) \in Nat /\ DOMAIN s = 1..Len(s) /\ DOMAIN r = 1..k /\ k \in Nat
  OBVIOUS
<1>2. \A c \in Ext!Range(r) : \E i \in DOMAIN s : i <= k /\ s[i] = c
  <2>1. \A i \in DOMAIN r : r[i] = s[i] /\ i \in DOMAIN s /\ i <= k
    BY <1>1
  <2> QED
    BY <2>1 DEF Ext!Range
<1>3. ASSUME NEW j \in DOMAIN s, j > k, s[j] \in Ext!Range(o) PROVE Lacks(r, o)
  <2>1. ASSUME s[j] \in Ext!Range(r) PROVE FALSE
    <3>1. PICK i \in DOMAIN s : i <= k /\ s[i] = s[j]
      BY <1>2, <2>1
    <3>2. i = j
      BY <3>1 DEF Ext!IsInjective
    <3> QED
      BY <1>1, <1>3, <3>1, <3>2
  <2> QED
    BY <1>3, <2>1 DEF Lacks
<1>4. CASE Lacks(s, o)
  <2>1. Ext!Range(r) \subseteq Ext!Range(s)
    BY <1>2 DEF Ext!Range
  <2> QED
    BY <1>4, <2>1 DEF Strays, Lacks
<1>5. CASE Mixed(s, o)
  <2>1. PICK i, j \in DOMAIN s : i < j /\ s[i] \notin Ext!Range(o) /\ s[j] \in Ext!Range(o)
    BY <1>5 DEF Mixed
  <2>2. CASE j > k
    BY <1>3, <2>1, <2>2 DEF Strays
  <2>3. CASE ~ j > k
    <3>1. i \in 1..k /\ j \in 1..k
      BY <1>1, <2>1, <2>3
    <3>2. r[i] = s[i] /\ r[j] = s[j] /\ i \in DOMAIN r /\ j \in DOMAIN r
      BY <1>1, <3>1
    <3> QED
      BY <2>1, <3>2 DEF Strays, Mixed
  <2> QED
    BY <2>2, <2>3
<1>6. CASE s = o
  <2>1. Len(s) \in DOMAIN s /\ Len(s) > k
    BY <1>1
  <2>2. s[Len(s)] \in Ext!Range(o)
    BY <1>6, <2>1 DEF Ext!Range
  <2> QED
    BY <1>3, <2>1, <2>2 DEF Strays
<1> QED
  BY <1>4, <1>5, <1>6 DEF Strays

(* A text stays one of different characters.                               *)
LEMMA SplicedInjective ==
  ASSUME NEW S, NEW s \in Seq(S), NEW chars \in Seq(S), NEW from \in 0..Len(s),
         NEW r \in Seq(S), Spliced(s, from, chars, r),
         Ext!IsInjective(s), Ext!IsInjective(chars),
         \A i \in DOMAIN chars : chars[i] \notin Ext!Range(s)
  PROVE  Ext!IsInjective(r)
<1>1. /\ Len(s) \in Nat /\ Len(chars) \in Nat /\ from \in Nat
      /\ DOMAIN s = 1..Len(s) /\ DOMAIN chars = 1..Len(chars)
  OBVIOUS
<1>2. \A i \in DOMAIN chars : \A k \in DOMAIN s : chars[i] # s[k]
  BY DEF Ext!Range
<1>3. ASSUME NEW a \in DOMAIN r, NEW b \in DOMAIN r, r[a] = r[b] PROVE a = b
  <2>1. /\ \/ a \in DOMAIN s /\ a <= from /\ r[a] = s[a]
           \/ \E i \in DOMAIN chars : a = from + i /\ r[a] = chars[i]
           \/ \E i \in DOMAIN s : i > from /\ a = i + Len(chars) /\ r[a] = s[i]
        /\ \/ b \in DOMAIN s /\ b <= from /\ r[b] = s[b]
           \/ \E i \in DOMAIN chars : b = from + i /\ r[b] = chars[i]
           \/ \E i \in DOMAIN s : i > from /\ b = i + Len(chars) /\ r[b] = s[i]
    BY SplicedPlaces
  <2>2. CASE \E i \in DOMAIN chars : a = from + i /\ r[a] = chars[i]
    <3>1. PICK i \in DOMAIN chars : a = from + i /\ r[a] = chars[i]
      BY <2>2
    <3>2. PICK j \in DOMAIN chars : b = from + j /\ r[b] = chars[j]
      BY <1>2, <1>3, <2>1, <3>1
    <3>3. i = j
      BY <1>3, <3>1, <3>2 DEF Ext!IsInjective
    <3> QED
      BY <3>1, <3>2, <3>3
  <2>3. CASE ~ \E i \in DOMAIN chars : a = from + i /\ r[a] = chars[i]
    <3>1. PICK i \in DOMAIN s : r[a] = s[i] /\ a = IF i <= from THEN i ELSE i + Len(chars)
      BY <1>1, <2>1, <2>3
    <3>2. PICK j \in DOMAIN s : r[b] = s[j] /\ b = IF j <= from THEN j ELSE j + Len(chars)
      <4>1. ~ \E j \in DOMAIN chars : b = from + j /\ r[b] = chars[j]
        BY <1>2, <1>3, <3>1
      <4> QED
        BY <1>1, <2>1, <4>1
    <3>3. i = j
      BY <1>3, <3>1, <3>2 DEF Ext!IsInjective
    <3> QED
      BY <3>1, <3>2, <3>3
  <2> QED
    BY <2>2, <2>3
<1> QED
  BY <1>3 DEF Ext!IsInjective

(* ... without its end as well.                                            *)
LEMMA TrimInjective ==
  ASSUME NEW S, NEW s \in Seq(S), Ext!IsInjective(s), NEW k \in 0..Len(s),
         NEW r \in Seq(S), Len(r) = k, \A i \in 1..k : r[i] = s[i]
  PROVE  Ext!IsInjective(r)
<1>1. \A i \in DOMAIN r : i \in DOMAIN s /\ r[i] = s[i]
  OBVIOUS
<1> QED
  BY <1>1 DEF Ext!IsInjective
(* Backspace at the end of a text.                                         *)
LEMMA TrimIs ==
  ASSUME NEW S, NEW s \in Seq(S), NEW from \in 0..Len(s)
  PROVE  LET r == TextRemove(s, from, Len(s))
         IN  r \in Seq(S) /\ Len(r) = from /\ \A i \in 1..from : r[i] = s[i]
<1>1. Len(s) \in Nat /\ from \in Nat /\ from <= Len(s)
  OBVIOUS
<1>2. PICK n, k : n = from /\ k = Len(s) + 1 /\ n \in Nat /\ k \in Nat
  BY <1>1
<1>3. PICK u : u = SubSeq(s, 1, n)
  OBVIOUS
<1>4. PICK v : v = SubSeq(s, k, Len(s))
  OBVIOUS
<1>5. u \in Seq(S) /\ Len(u) = n /\ \A i \in 1..n : u[i] = s[i]
  <2>1. \A i \in 1..n : s[i] \in S
    BY <1>1, <1>2
  <2>2. u \in Seq(S) /\ Len(u) = n
    BY <1>1, <1>2, <1>3, <2>1
  <2>3. \A i \in 1..n : u[i] = s[i]
    BY <1>1, <1>2, <1>3
  <2> QED
    BY <2>2, <2>3
<1>6. v \in Seq(S) /\ Len(v) = 0
  <2>1. k > Len(s)
    BY <1>1, <1>2
  <2>2. v = <<>>
    BY <1>1, <1>2, <1>4, <2>1
  <2> QED
    BY <2>2, EmptySeq
<1>7. PICK w : w = u \o v
  OBVIOUS
<1>8. Joins(S, u, v, w)
  BY <1>5, <1>6, <1>7, JoinIs
<1>9. w \in Seq(S) /\ Len(w) = from /\ \A i \in 1..from : w[i] = s[i]
  BY <1>1, <1>2, <1>5, <1>6, <1>8 DEF Joins
<1>10. w = TextRemove(s, from, Len(s))
  BY <1>2, <1>3, <1>4, <1>7, Zenon DEF TextRemove
<1> QED
  BY <1>9, <1>10
=============================================================================
