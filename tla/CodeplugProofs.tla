--------------------------- MODULE CodeplugProofs ---------------------------
(***************************************************************************)
(* Proofs about Codeplug, for any bounds of the tables and any names:      *)
(* after any sequence of calls that does not damage it, the file holds the *)
(* tables and nothing else, at the places the offsets give, and each call, *)
(* with its arguments, does to the tables and returns what the interface   *)
(* promises.                                                               *)
(*                                                                         *)
(* Layout says of a file that each kind of item is in its part, and that   *)
(* each bank begins where the one before it ends; Ordered draws from it    *)
(* where the banks are, and in what order.  A call that inserts is one     *)
(* lemma (ContactInserted to EntryInserted): the file it leaves has the    *)
(* layout of the new header, and every other bank is read as before,       *)
(* wherever it has moved to (BankAs).  From these the second part shows    *)
(* what each call that returns 0 does to the tables that are read from the *)
(* file, and that it is what CodeplugTables says (insertContactActs to     *)
(* writeBankDataActs); the third, that a call is refused when its place is *)
(* not there, and then changes nothing (PlacesRead to AllCallsAct).        *)
(***************************************************************************)
EXTENDS Codeplug, SequenceTheorems, WellFoundedInduction, TLAPS

-----------------------------------------------------------------------------
(* Sequences, by positions from 0. *)

LEMMA InsertAtIs ==
  ASSUME NEW S, NEW s \in Seq(S), NEW i \in 1 .. Len(s) + 1, NEW e \in S
  PROVE  /\ InsertAt(s, i, e) \in Seq(S)
         /\ Len(InsertAt(s, i, e)) = Len(s) + 1
         /\ \A j \in 1 .. Len(s) + 1 : InsertAt(s, i, e)[j] =
              IF j < i THEN s[j] ELSE IF j = i THEN e ELSE s[j - 1]
<1> DEFINE a == SubSeq(s, 1, i - 1)
           c == SubSeq(s, i, Len(s))
           ae == a \o <<e>>
<1>0. Len(s) \in Nat /\ i \in Int /\ 1 <= i /\ i <= Len(s) + 1
  OBVIOUS
<1>1. /\ a \in Seq(S) /\ Len(a) = i - 1
      /\ \A j \in 1 .. i - 1 : a[j] = s[j]
  <2>1. \A j \in 1 .. i - 1 : s[j] \in S
    BY <1>0, ElementOfSeq
  <2>2. /\ a \in Seq(S) /\ Len(a) = IF 1 <= i - 1 THEN i - 1 - 1 + 1 ELSE 0
        /\ \A j \in 1 .. i - 1 - 1 + 1 : a[j] = s[1 + j - 1]
    BY <1>0, <2>1, SubSeqProperties
  <2> HIDE DEF a
  <2> QED BY <1>0, <2>2
<1>2. /\ c \in Seq(S) /\ Len(c) = Len(s) - i + 1
      /\ \A j \in 1 .. Len(s) - i + 1 : c[j] = s[i + j - 1]
  <2>1. \A j \in i .. Len(s) : s[j] \in S
    BY <1>0, ElementOfSeq
  <2>2. /\ c \in Seq(S) /\ Len(c) = IF i <= Len(s) THEN Len(s) - i + 1 ELSE 0
        /\ \A j \in 1 .. Len(s) - i + 1 : c[j] = s[i + j - 1]
    BY <1>0, <2>1, SubSeqProperties
  <2> HIDE DEF c
  <2> QED BY <1>0, <2>2
<1> HIDE DEF a, c
<1>3. /\ ae \in Seq(S) /\ Len(ae) = i
      /\ \A j \in 1 .. i : ae[j] = IF j < i THEN s[j] ELSE e
  <2>1. <<e>> \in Seq(S) /\ Len(<<e>>) = 1 /\ <<e>>[1] = e
    OBVIOUS
  <2>2. /\ ae \in Seq(S) /\ Len(ae) = Len(a) + 1
        /\ \A j \in 1 .. Len(a) + 1 :
             ae[j] = IF j <= Len(a) THEN a[j] ELSE <<e>>[j - Len(a)]
    BY <1>1, <2>1, ConcatProperties
  <2> HIDE DEF ae
  <2> QED BY <1>0, <1>1, <2>1, <2>2
<1>4. InsertAt(s, i, e) = ae \o c
  BY DEF InsertAt, a, c
<1> HIDE DEF ae
<1>5. /\ ae \o c \in Seq(S) /\ Len(ae \o c) = Len(ae) + Len(c)
      /\ \A j \in 1 .. Len(ae) + Len(c) :
           (ae \o c)[j] = IF j <= Len(ae) THEN ae[j] ELSE c[j - Len(ae)]
  BY <1>2, <1>3, ConcatProperties
<1>6. ASSUME NEW j \in 1 .. Len(s) + 1
      PROVE  (ae \o c)[j] = IF j < i THEN s[j] ELSE IF j = i THEN e ELSE s[j - 1]
  <2>1. CASE j <= i
    BY <1>0, <1>2, <1>3, <1>5, <2>1
  <2>2. CASE j > i
    <3>1. (ae \o c)[j] = c[j - i] /\ j - i \in 1 .. Len(s) - i + 1
      BY <1>0, <1>2, <1>3, <1>5, <2>2
    <3>2. c[j - i] = s[i + (j - i) - 1] /\ i + (j - i) - 1 = j - 1
      BY <1>0, <1>2, <3>1
    <3> QED BY <1>0, <2>2, <3>1, <3>2
  <2>3. j <= i \/ j > i
    OBVIOUS
  <2> QED BY <2>1, <2>2, <2>3, Zenon
<1> QED BY <1>0, <1>2, <1>3, <1>4, <1>5, <1>6

LEMMA InsertedIs ==
  ASSUME NEW S, NEW f \in Seq(S), NEW p \in 0 .. Len(f), NEW item \in S
  PROVE  /\ Inserted(f, p, item) \in Seq(S)
         /\ Len(Inserted(f, p, item)) = Len(f) + 1
         /\ \A q \in 0 .. Len(f) : At(Inserted(f, p, item), q) =
              IF q < p THEN At(f, q) ELSE IF q = p THEN item ELSE At(f, q - 1)
<1> DEFINE g == InsertAt(f, p + 1, item)
<1>1. Len(f) \in Nat /\ p \in Nat /\ p + 1 \in 1 .. Len(f) + 1
  OBVIOUS
<1>2. /\ g \in Seq(S) /\ Len(g) = Len(f) + 1
      /\ \A j \in 1 .. Len(f) + 1 : g[j] =
           IF j < p + 1 THEN f[j] ELSE IF j = p + 1 THEN item ELSE f[j - 1]
  <2> DEFINE i == p + 1
  <2>1. i \in 1 .. Len(f) + 1
    BY <1>1
  <2> HIDE DEF i
  <2>2. /\ InsertAt(f, i, item) \in Seq(S) /\ Len(InsertAt(f, i, item)) = Len(f) + 1
        /\ \A j \in 1 .. Len(f) + 1 : InsertAt(f, i, item)[j] =
             IF j < i THEN f[j] ELSE IF j = i THEN item ELSE f[j - 1]
    BY <2>1, InsertAtIs
  <2> QED BY <2>2 DEF i
<1> HIDE DEF g
<1>3. ASSUME NEW q \in 0 .. Len(f)
      PROVE  At(g, q) = IF q < p THEN At(f, q) ELSE IF q = p THEN item ELSE At(f, q - 1)
  <2>1. /\ q + 1 \in 1 .. Len(f) + 1 /\ (q + 1) - 1 = (q - 1) + 1
        /\ (q + 1 < p + 1 <=> q < p) /\ (q + 1 = p + 1 <=> q = p)
    BY <1>1
  <2> QED BY <1>2, <2>1 DEF At
<1>4. Inserted(f, p, item) = g
  BY DEF Inserted, g
<1> QED BY <1>2, <1>3, <1>4

LEMMA OverwrittenIs ==
  ASSUME NEW f \in Seq(Items), NEW p \in 0 .. Len(f) - 1, NEW item \in Items
  PROVE  /\ Overwritten(f, p, item) \in Seq(Items)
         /\ Len(Overwritten(f, p, item)) = Len(f)
         /\ At(Overwritten(f, p, item), p) = item
         /\ \A q \in 0 .. Len(f) - 1 :
              q # p => At(Overwritten(f, p, item), q) = At(f, q)
<1> DEFINE g == [f EXCEPT ![p + 1] = item]
<1>1. Len(f) \in Nat /\ p \in Nat /\ p + 1 \in 1 .. Len(f)
  OBVIOUS
<1>2. /\ g \in Seq(Items) /\ Len(g) = Len(f)
      /\ \A j \in 1 .. Len(f) : g[j] = IF j = p + 1 THEN item ELSE f[j]
  BY <1>1, ExceptSeq
<1> HIDE DEF g
<1>3. ASSUME NEW q \in 0 .. Len(f) - 1
      PROVE  At(g, q) = IF q = p THEN item ELSE At(f, q)
  <2>1. q + 1 \in 1 .. Len(f) /\ (q + 1 = p + 1 <=> q = p)
    BY <1>1
  <2> QED BY <1>2, <2>1 DEF At
<1>4. Overwritten(f, p, item) = g
  BY DEF Overwritten, g
<1>5. At(g, p) = item
  BY <1>3
<1> QED BY <1>2, <1>3, <1>4, <1>5

LEMMA RaisedItem ==
  ASSUME NEW r \in Items
  PROVE  LET up == [kind |-> r.kind, name |-> r.name, num |-> r.num + 1]
         IN  up = [r EXCEPT !.num = @ + 1] /\ up \in Items
<1> DEFINE up == [kind |-> r.kind, name |-> r.name, num |-> r.num + 1]
<1>1. Items = [kind : Kinds, name : Texts, num : Int]
  BY DEF Items
<1>2. r = [kind |-> r.kind, name |-> r.name, num |-> r.num]
  BY <1>1
<1>3. up = [r EXCEPT !.num = @ + 1]
  BY <1>1, <1>2
<1>4. up \in Items
  BY <1>1
<1> QED BY <1>3, <1>4

LEMMA RaisedIs ==
  ASSUME NEW f \in Seq(Items), NEW P
  PROVE  /\ Raised(f, P) \in Seq(Items)
         /\ Len(Raised(f, P)) = Len(f)
         /\ \A q \in 0 .. Len(f) - 1 :
              /\ At(Raised(f, P), q).kind = At(f, q).kind
              /\ At(Raised(f, P), q).name = At(f, q).name
              /\ At(Raised(f, P), q).num = At(f, q).num + (IF q \in P THEN 1 ELSE 0)
              /\ q \notin P => At(Raised(f, P), q) = At(f, q)
<1> DEFINE n == Len(f)
           up(i) == [kind |-> f[i].kind, name |-> f[i].name, num |-> f[i].num + 1]
           g == [i \in 1 .. n |-> IF i - 1 \in P THEN up(i) ELSE f[i]]
<1>1. n \in Nat /\ DOMAIN f = 1 .. n /\ \A i \in 1 .. n : f[i] \in Items
  OBVIOUS
<1>2. \A i \in 1 .. n : up(i) = [f[i] EXCEPT !.num = @ + 1] /\ up(i) \in Items
  BY <1>1, RaisedItem
<1>3. Raised(f, P) = g
  BY <1>1, <1>2 DEF Raised
<1>4. g \in Seq(Items) /\ Len(g) = n
  <2>1. g \in [1 .. n -> Items]
    BY <1>1, <1>2
  <2> HIDE DEF g
  <2> QED BY <1>1, <2>1
<1>5. \A i \in 1 .. n : g[i] = IF i - 1 \in P THEN up(i) ELSE f[i]
  OBVIOUS
<1> HIDE DEF g
<1>6. ASSUME NEW q \in 0 .. n - 1
      PROVE  /\ At(g, q).kind = At(f, q).kind
             /\ At(g, q).name = At(f, q).name
             /\ At(g, q).num = At(f, q).num + (IF q \in P THEN 1 ELSE 0)
             /\ q \notin P => At(g, q) = At(f, q)
  <2>1. q + 1 \in 1 .. n /\ (q + 1) - 1 = q /\ f[q + 1] \in Items
    BY <1>1
  <2>2. g[q + 1] = IF q \in P THEN up(q + 1) ELSE f[q + 1]
    BY <1>5, <2>1
  <2>3. f[q + 1].num \in Int
    BY <2>1 DEF Items
  <2> QED BY <2>2, <2>3 DEF At
<1> QED BY <1>3, <1>4, <1>6

LEMMA NatMin == \A S \in SUBSET Nat : S # {} => \E n \in S : \A m \in S : n <= m
<1> SUFFICES ASSUME NEW S \in SUBSET Nat, S # {}
             PROVE  \E n \in S : \A m \in S : n <= m
  OBVIOUS
<1> DEFINE Below == {mn \in Nat \X Nat : mn[1] < mn[2]}
<1>1. IsWellFoundedOn(Below, Nat)
  BY NatLessThanWellFounded DEF OpToRel
<1> HIDE DEF Below
<1>2. PICK n \in S : \A m \in S : ~ (<<m, n>> \in Below)
  BY <1>1, WFMin, Zenon
<1>3. \A m \in S : ~ (m < n)
  BY <1>2 DEF Below
<1> QED BY <1>3

LEMMA ItemType ==
  ASSUME NEW kind \in Kinds, NEW name \in Texts, NEW num \in Int
  PROVE  /\ Item(kind, name, num) \in Items
         /\ Item(kind, name, num).kind = kind
         /\ Item(kind, name, num).name = name
         /\ Item(kind, name, num).num = num
BY DEF Item, Items

LEMMA NumberType ==
  ASSUME NEW kind \in Kinds, NEW num \in Int
  PROVE  /\ Number(kind, num) \in Items
         /\ Number(kind, num).kind = kind
         /\ Number(kind, num).num = num
<1>1. "" \in Texts
  BY DEF Texts
<1> QED BY <1>1 DEF Number, Items

LEMMA KindsAndTexts ==
  /\ "contact" \in Kinds /\ "channel" \in Kinds /\ "offset" \in Kinds
  /\ "bank" \in Kinds /\ "entry" \in Kinds
  /\ "" \in Texts /\ \A n \in Names : n \in Texts
BY DEF Kinds, Texts

LEMMA ItemAt ==
  ASSUME NEW f \in Seq(Items), NEW q \in 0 .. Len(f) - 1
  PROVE  At(f, q) \in Items /\ At(f, q).num \in Int
<1>1. q + 1 \in 1 .. Len(f)
  OBVIOUS
<1>2. At(f, q) \in Items
  BY <1>1 DEF At
<1> QED BY <1>2 DEF Items

-----------------------------------------------------------------------------
(* Where the banks are. *)

Headers == [ct : Nat, ch : Nat, b : Nat]
Bank(h, f, p) == At(f, Start(h, f, p))
End(h, f, p) == Start(h, f, p) + 1 + Bank(h, f, p).num

(* The banks follow one another, after the offsets and up to the end of    *)
(* the file: by induction on the position of a bank.                       *)
LEMMA Ordered ==
  ASSUME NEW h \in Headers, NEW f \in Seq(Items), Layout(h, f)
  PROVE  /\ Start(h, f, h.b) = Len(f)
         /\ \A p \in 0 .. h.b - 1 :
              Bank(h, f, p).num \in Nat /\ Start(h, f, p + 1) = End(h, f, p)
         /\ \A q \in 0 .. h.b :
              /\ Start(h, f, q) \in Nat
              /\ h.ct + h.ch + h.b <= Start(h, f, q)
              /\ Start(h, f, q) <= Len(f)
         /\ \A q \in 0 .. h.b : \A p \in 0 .. q - 1 : End(h, f, p) <= Start(h, f, q)
<1> DEFINE Placed(q) ==
             /\ Start(h, f, q) \in Nat
             /\ h.ct + h.ch + h.b <= Start(h, f, q)
             /\ \A p \in 0 .. q - 1 : End(h, f, p) <= Start(h, f, q)
           Bad == {q \in 0 .. h.b : ~ Placed(q)}
<1>1. h.ct \in Nat /\ h.ch \in Nat /\ h.b \in Nat /\ MaxEntries \in Nat
  BY BoundAssumption DEF Headers
<1>2. Start(h, f, h.b) = Len(f)
  BY <1>1 DEF Start
<1>3. \A p \in 0 .. h.b - 1 :
        Bank(h, f, p).num \in Nat /\ Start(h, f, p + 1) = End(h, f, p)
  BY <1>1 DEF Layout, Bank, End
<1>4. Start(h, f, 0) = h.ct + h.ch + h.b
  BY DEF Layout
<1>5. Bad = {}
  <2> SUFFICES ASSUME Bad # {} PROVE FALSE
    OBVIOUS
  <2>1. Bad \in SUBSET Nat
    BY <1>1
  <2>2. PICK q \in Bad : \A m \in Bad : q <= m
    BY <2>1, NatMin
  <2>3. q \in 0 .. h.b /\ ~ Placed(q)
    BY <2>2
  <2>4. q # 0
    BY <1>1, <1>4, <2>3
  <2>5. q - 1 \in 0 .. h.b - 1 /\ (q - 1) + 1 = q /\ q \in Nat
    BY <1>1, <2>3, <2>4
  <2>6. \A m \in 0 .. q - 1 : Placed(m)
    <3>1. \A m \in 0 .. q - 1 : m \in 0 .. h.b /\ ~ (q <= m)
      BY <1>1, <2>3, <2>5
    <3> QED BY <2>2, <3>1
  <2>7. Start(h, f, q) = End(h, f, q - 1) /\ Bank(h, f, q - 1).num \in Nat
    BY <1>3, <2>5
  <2>8. Placed(q - 1)
    BY <2>5, <2>6
  <2>9. /\ Start(h, f, q) \in Nat
        /\ h.ct + h.ch + h.b <= Start(h, f, q)
        /\ Start(h, f, q - 1) <= Start(h, f, q)
    <3> DEFINE c == h.ct + h.ch + h.b
               s == Start(h, f, q - 1)
               m == Bank(h, f, q - 1).num
    <3>1. c \in Nat /\ m \in Nat /\ Start(h, f, q) = s + 1 + m
      <4>1. c \in Nat
        <5> DEFINE t == h.ct
                   u == h.ch
                   b == h.b
        <5>1. t \in Nat /\ u \in Nat /\ b \in Nat
          BY <1>1
        <5> HIDE DEF t, u, b
        <5>2. t + u + b \in Nat
          BY <5>1
        <5> QED BY <5>2 DEF t, u, b
      <4>2. m \in Nat
        BY <2>7
      <4>3. Start(h, f, q) = s + 1 + m
        BY <2>7 DEF End
      <4> QED BY <4>1, <4>2, <4>3
    <3>2. s \in Nat /\ c <= s
      BY <2>8
    <3> HIDE DEF c, s, m
    <3>3. s + 1 + m \in Nat /\ c <= s + 1 + m /\ s <= s + 1 + m
      BY <3>1, <3>2
    <3> QED BY <3>1, <3>3 DEF c, s
  <2>10. ASSUME NEW p \in 0 .. q - 1 PROVE End(h, f, p) <= Start(h, f, q)
    <3>1. CASE p = q - 1
      BY <2>7, <2>9, <3>1
    <3>2. CASE p # q - 1
      <4>1. /\ p \in 0 .. (q - 1) - 1 /\ p + 1 \in 0 .. q - 1
            /\ p \in 0 .. h.b - 1
        BY <1>1, <2>3, <2>5, <3>2
      <4>2. End(h, f, p) <= Start(h, f, q - 1)
        BY <2>8, <4>1
      <4>3. End(h, f, p) = Start(h, f, p + 1) /\ Start(h, f, p + 1) \in Nat
        BY <1>3, <2>6, <4>1
      <4> QED BY <2>8, <2>9, <4>2, <4>3
    <3> QED BY <3>1, <3>2
  <2> QED BY <2>3, <2>9, <2>10
<1>6. \A q \in 0 .. h.b : Placed(q)
  BY <1>5
<1>7. ASSUME NEW q \in 0 .. h.b PROVE Start(h, f, q) <= Len(f)
  <2>1. CASE q = h.b
    BY <1>2, <1>6, <2>1
  <2>2. CASE q # h.b
    <3>1. q \in 0 .. h.b - 1 /\ h.b \in 0 .. h.b
      BY <1>1, <2>2
    <3>2. End(h, f, q) <= Len(f)
      BY <1>2, <1>6, <3>1
    <3> QED BY <1>2, <1>3, <1>6, <3>1, <3>2 DEF End
  <2> QED BY <2>1, <2>2
<1> HIDE DEF Placed
<1>8. \A q \in 0 .. h.b :
        /\ Start(h, f, q) \in Nat
        /\ h.ct + h.ch + h.b <= Start(h, f, q)
        /\ \A p \in 0 .. q - 1 : End(h, f, p) <= Start(h, f, q)
  BY <1>6 DEF Placed
<1> QED BY <1>2, <1>3, <1>7, <1>8

(* Every position the reads use is one of the file, and of its part.       *)
LEMMA Places ==
  ASSUME NEW h \in Headers, NEW f \in Seq(Items), Layout(h, f)
  PROVE  /\ h.ct + h.ch + h.b <= Len(f)
         /\ \A p \in 0 .. h.ct - 1 : p \in 0 .. Len(f) - 1
         /\ \A p \in 0 .. h.ch - 1 : ChannelPos(h, p) \in 0 .. Len(f) - 1
         /\ \A p \in 0 .. h.b - 1 : OffsetPos(h, p) \in 0 .. Len(f) - 1
         /\ \A p \in 0 .. h.b - 1 :
              /\ BankPos(h, f, p) = Start(h, f, p)
              /\ Start(h, f, p) \in h.ct + h.ch + h.b .. Len(f) - 1
              /\ Bank(h, f, p).num \in Nat
              /\ \A e \in 0 .. Bank(h, f, p).num - 1 :
                   /\ EntryPos(h, f, p, e) = Start(h, f, p) + 1 + e
                   /\ EntryPos(h, f, p, e) \in h.ct + h.ch + h.b + 1 .. Len(f) - 1
<1>1. h.ct \in Nat /\ h.ch \in Nat /\ h.b \in Nat /\ Len(f) \in Nat
  BY DEF Headers
<1>2. h.ct + h.ch + h.b <= Len(f)
  <2>1. h.b \in 0 .. h.b
    BY <1>1
  <2> QED BY <2>1, Ordered
<1>3. ASSUME NEW p \in 0 .. h.b - 1
      PROVE  /\ BankPos(h, f, p) = Start(h, f, p)
             /\ Start(h, f, p) \in h.ct + h.ch + h.b .. Len(f) - 1
             /\ Bank(h, f, p).num \in Nat
             /\ \A e \in 0 .. Bank(h, f, p).num - 1 :
                  /\ EntryPos(h, f, p, e) = Start(h, f, p) + 1 + e
                  /\ EntryPos(h, f, p, e) \in h.ct + h.ch + h.b + 1 .. Len(f) - 1
  <2>1. p \in 0 .. h.b /\ p + 1 \in 0 .. h.b /\ p < h.b
    BY <1>1
  <2>2. /\ Start(h, f, p) \in Nat /\ h.ct + h.ch + h.b <= Start(h, f, p)
        /\ Start(h, f, p + 1) <= Len(f) /\ Start(h, f, p + 1) = End(h, f, p)
        /\ Bank(h, f, p).num \in Nat
    BY <2>1, Ordered
  <2>3. BankPos(h, f, p) = Start(h, f, p)
    BY <2>1 DEF Start
  <2>4. Start(h, f, p) + 1 + Bank(h, f, p).num <= Len(f)
    BY <2>2 DEF End
  <2>5. ASSUME NEW e \in 0 .. Bank(h, f, p).num - 1
        PROVE  /\ EntryPos(h, f, p, e) = Start(h, f, p) + 1 + e
               /\ EntryPos(h, f, p, e) \in h.ct + h.ch + h.b + 1 .. Len(f) - 1
    <3>1. EntryPos(h, f, p, e) = Start(h, f, p) + 1 + e
      BY <2>3 DEF EntryPos
    <3>2. e \in Nat /\ e + 1 <= Bank(h, f, p).num
      BY <2>2
    <3> DEFINE c == h.ct + h.ch + h.b
               s == Start(h, f, p)
               m == Bank(h, f, p).num
               L == Len(f)
    <3>3. /\ c \in Nat /\ s \in Nat /\ m \in Nat /\ L \in Nat
          /\ c <= s /\ s + 1 + m <= L /\ e + 1 <= m
      <4>1. c \in Nat /\ L \in Nat
        BY <1>1
      <4>2. s \in Nat /\ m \in Nat /\ c <= s
        BY <2>2
      <4>3. s + 1 + m <= L /\ e + 1 <= m
        BY <2>4, <3>2
      <4> QED BY <4>1, <4>2, <4>3
    <3> HIDE DEF c, s, m, L
    <3>4. s + 1 + e \in c + 1 .. L - 1
      BY <3>2, <3>3
    <3> QED BY <3>1, <3>4 DEF c, s, L
  <2> QED BY <1>1, <2>2, <2>3, <2>4, <2>5
<1>4. \A p \in 0 .. h.ct - 1 : p \in 0 .. Len(f) - 1
  BY <1>1, <1>2
<1>5. \A p \in 0 .. h.ch - 1 : ChannelPos(h, p) \in 0 .. Len(f) - 1
  BY <1>1, <1>2 DEF ChannelPos
<1>6. \A p \in 0 .. h.b - 1 : OffsetPos(h, p) \in 0 .. Len(f) - 1
  BY <1>1, <1>2 DEF OffsetPos
<1> QED BY <1>2, <1>3, <1>4, <1>5, <1>6

LEMMA BanksWithin ==
  ASSUME NEW h \in Headers, NEW f \in Seq(Items), Layout(h, f), NEW p \in 0 .. h.b - 1
  PROVE  /\ Start(h, f, p) \in 0 .. Len(f) - 1
         /\ BankPos(h, f, p) = Start(h, f, p)
         /\ \A e \in 0 .. Bank(h, f, p).num - 1 : EntryPos(h, f, p, e) \in 0 .. Len(f) - 1
<1> DEFINE c == h.ct + h.ch + h.b
           L == Len(f)
<1>1. c \in Nat /\ L \in Nat
  BY DEF Headers
<1>2. /\ BankPos(h, f, p) = Start(h, f, p)
      /\ Start(h, f, p) \in c .. L - 1
      /\ \A e \in 0 .. Bank(h, f, p).num - 1 : EntryPos(h, f, p, e) \in c + 1 .. L - 1
  BY Places
<1> HIDE DEF c, L
<1>3. \A x : x \in c .. L - 1 \/ x \in c + 1 .. L - 1 => x \in 0 .. L - 1
  BY <1>1
<1> QED BY <1>2, <1>3 DEF L

(* Overwriting items of their own kind, and numbers that are neither       *)
(* offsets nor counts, leaves everything where it is.                      *)
LEMMA SameShape ==
  ASSUME NEW h \in Headers, NEW f \in Seq(Items), Layout(h, f),
         NEW g \in Seq(Items), Len(g) = Len(f),
         \A q \in 0 .. Len(f) - 1 :
           /\ At(g, q).kind = At(f, q).kind
           /\ At(f, q).kind \in {"offset", "bank"} => At(g, q).num = At(f, q).num
  PROVE  /\ Layout(h, g)
         /\ \A p \in 0 .. h.b : Start(h, g, p) = Start(h, f, p)
<1>1. h.ct \in Nat /\ h.ch \in Nat /\ h.b \in Nat /\ Len(f) \in Nat
  BY DEF Headers
<1>2. \A p \in 0 .. h.b : Start(h, g, p) = Start(h, f, p)
  <2> TAKE p \in 0 .. h.b
  <2>1. CASE p < h.b
    <3>1. p \in 0 .. h.b - 1 /\ OffsetPos(h, p) \in 0 .. Len(f) - 1
      BY <1>1, <2>1, Places DEF OffsetPos
    <3>2. At(f, OffsetPos(h, p)).kind = "offset"
      BY <3>1 DEF Layout
    <3>3. At(g, OffsetPos(h, p)).num = At(f, OffsetPos(h, p)).num
      BY <3>1, <3>2
    <3> QED BY <2>1, <3>3 DEF Start, BankPos
  <2>2. CASE ~ (p < h.b)
    BY <2>2 DEF Start
  <2> QED BY <2>1, <2>2
<1>3. ASSUME NEW p \in 0 .. h.b - 1
      PROVE  LET bank == At(g, Start(h, g, p))
             IN  /\ bank.kind = "bank" /\ bank.num \in 0 .. MaxEntries
                 /\ Start(h, g, p + 1) = Start(h, g, p) + 1 + bank.num
                 /\ \A e \in 0 .. bank.num - 1 : At(g, EntryPos(h, g, p, e)).kind = "entry"
  <2>1. /\ Start(h, f, p) \in 0 .. Len(f) - 1
        /\ BankPos(h, f, p) = Start(h, f, p)
        /\ \A e \in 0 .. Bank(h, f, p).num - 1 : EntryPos(h, f, p, e) \in 0 .. Len(f) - 1
    BY BanksWithin
  <2>2. /\ Bank(h, f, p).kind = "bank" /\ Bank(h, f, p).num \in 0 .. MaxEntries
        /\ Start(h, f, p + 1) = Start(h, f, p) + 1 + Bank(h, f, p).num
        /\ \A e \in 0 .. Bank(h, f, p).num - 1 : At(f, EntryPos(h, f, p, e)).kind = "entry"
    BY DEF Layout, Bank
  <2>3. At(g, Start(h, f, p)).kind = "bank" /\ At(g, Start(h, f, p)).num = Bank(h, f, p).num
    BY <2>1, <2>2 DEF Bank
  <2>4. /\ p \in 0 .. h.b /\ p + 1 \in 0 .. h.b /\ p < h.b
    BY <1>1
  <2>5. Start(h, g, p) = Start(h, f, p) /\ Start(h, g, p + 1) = Start(h, f, p + 1)
    BY <1>2, <2>4
  <2>6. \A e : EntryPos(h, g, p, e) = EntryPos(h, f, p, e)
    BY <2>4, <2>5 DEF EntryPos, Start
  <2> QED BY <2>1, <2>2, <2>3, <2>5, <2>6
<1>4. Start(h, g, 0) = h.ct + h.ch + h.b
  <2>1. 0 \in 0 .. h.b
    BY <1>1
  <2> QED BY <1>2, <2>1 DEF Layout
<1>5. /\ \A p \in 0 .. h.ct - 1 : At(g, p).kind = "contact"
      /\ \A p \in 0 .. h.ch - 1 : At(g, ChannelPos(h, p)).kind = "channel"
      /\ \A p \in 0 .. h.b - 1 : At(g, OffsetPos(h, p)).kind = "offset"
  <2>1. /\ \A p \in 0 .. h.ct - 1 : p \in 0 .. Len(f) - 1
        /\ \A p \in 0 .. h.ch - 1 : ChannelPos(h, p) \in 0 .. Len(f) - 1
        /\ \A p \in 0 .. h.b - 1 : OffsetPos(h, p) \in 0 .. Len(f) - 1
    BY Places
  <2> QED BY <2>1 DEF Layout
<1> QED BY <1>2, <1>3, <1>4, <1>5 DEF Layout

(* Two files hold the same banks, at the places each one says.             *)
BankAs(h, f, p, k, g, q) ==
  /\ Bank(k, g, q) = Bank(h, f, p)
  /\ \A e \in 0 .. Bank(h, f, p).num - 1 :
       At(g, EntryPos(k, g, q, e)) = At(f, EntryPos(h, f, p, e))
SameBanks(h, f, k, g) == \A p \in 0 .. h.b - 1 : BankAs(h, f, p, k, g, p)

(* What an insertion in front of the offsets does: everything from there   *)
(* on moves by one, and the offsets stay as they count from their end.     *)
LEMMA ShiftedShape ==
  ASSUME NEW h \in Headers, NEW f \in Seq(Items), Layout(h, f),
         NEW k \in Headers, k.b = h.b, k.ct + k.ch = h.ct + h.ch + 1,
         NEW g \in Seq(Items), Len(g) = Len(f) + 1,
         \A q \in h.ct + h.ch .. Len(f) - 1 : At(g, q + 1) = At(f, q),
         \A p \in 0 .. k.ct - 1 : At(g, p).kind = "contact",
         \A p \in 0 .. k.ch - 1 : At(g, ChannelPos(k, p)).kind = "channel"
  PROVE  Layout(k, g) /\ SameBanks(h, f, k, g)
<1>1. /\ h.ct \in Nat /\ h.ch \in Nat /\ h.b \in Nat /\ Len(f) \in Nat
      /\ k.ct \in Nat /\ k.ch \in Nat
  BY DEF Headers
<1>2. \A p \in 0 .. h.b - 1 : At(g, OffsetPos(k, p)) = At(f, OffsetPos(h, p))
  <2> TAKE p \in 0 .. h.b - 1
  <2>1. OffsetPos(k, p) = OffsetPos(h, p) + 1
    BY <1>1 DEF OffsetPos
  <2>2. OffsetPos(h, p) \in 0 .. Len(f) - 1
    BY Places
  <2>3. OffsetPos(h, p) \in h.ct + h.ch .. Len(f) - 1
    <3>1. p \in Nat /\ OffsetPos(h, p) = h.ct + h.ch + p
      BY DEF OffsetPos
    <3>2. h.ct + h.ch <= OffsetPos(h, p)
      BY <1>1, <3>1
    <3> QED BY <1>1, <2>2, <3>2
  <2> QED BY <2>1, <2>3
<1>3. \A p \in 0 .. h.b : Start(k, g, p) = Start(h, f, p) + 1
  <2> TAKE p \in 0 .. h.b
  <2>1. CASE p < h.b
    <3>1. p \in 0 .. h.b - 1 /\ At(g, OffsetPos(k, p)).num = At(f, OffsetPos(h, p)).num
      BY <1>1, <1>2, <2>1
    <3>2. Start(h, f, p) \in Nat /\ Start(h, f, p) = BankPos(h, f, p)
      BY <2>1, Ordered DEF Start
    <3>3. At(f, OffsetPos(h, p)).num \in Int
      BY <3>1, Places, ItemAt
    <3>4. Start(k, g, p) = k.ct + k.ch + k.b + At(f, OffsetPos(h, p)).num
      BY <2>1, <3>1 DEF Start, BankPos
    <3> DEFINE n == At(f, OffsetPos(h, p)).num
    <3>5. Start(h, f, p) = h.ct + h.ch + h.b + n
      BY <3>2 DEF BankPos
    <3> DEFINE c == h.ct + h.ch + h.b
    <3>6. c \in Nat /\ n \in Int /\ k.ct + k.ch + k.b = c + 1
      <4>1. k.ct + k.ch + k.b = (h.ct + h.ch + 1) + h.b
        OBVIOUS
      <4>2. c \in Nat /\ (h.ct + h.ch + 1) + h.b = c + 1
        <5> DEFINE x == h.ct
                   y == h.ch
                   z == h.b
        <5>1. x \in Nat /\ y \in Nat /\ z \in Nat
          BY <1>1
        <5> HIDE DEF x, y, z
        <5>2. x + y + z \in Nat /\ (x + y + 1) + z = (x + y + z) + 1
          BY <5>1
        <5> QED BY <5>2 DEF x, y, z
      <4> QED BY <3>3, <4>1, <4>2
    <3>7. Start(h, f, p) = c + n /\ Start(k, g, p) = (c + 1) + n
      BY <3>4, <3>5, <3>6
    <3> HIDE DEF c, n
    <3>8. (c + 1) + n = (c + n) + 1
      BY <3>6
    <3> QED BY <3>7, <3>8
  <2>2. CASE p = h.b
    BY <1>1, <2>2 DEF Start
  <2> QED BY <1>1, <2>1, <2>2
<1>4. ASSUME NEW p \in 0 .. k.b - 1
      PROVE  LET bank == At(g, Start(k, g, p))
             IN  /\ Bank(k, g, p) = Bank(h, f, p)
                 /\ \A e \in 0 .. Bank(h, f, p).num - 1 :
                      At(g, EntryPos(k, g, p, e)) = At(f, EntryPos(h, f, p, e))
                 /\ bank.kind = "bank" /\ bank.num \in 0 .. MaxEntries
                 /\ Start(k, g, p + 1) = Start(k, g, p) + 1 + bank.num
                 /\ \A e \in 0 .. bank.num - 1 : At(g, EntryPos(k, g, p, e)).kind = "entry"
  <2>1. p \in 0 .. h.b - 1 /\ p \in 0 .. h.b /\ p + 1 \in 0 .. h.b /\ p < h.b
    BY <1>1
  <2>2. /\ Start(h, f, p) \in h.ct + h.ch + h.b .. Len(f) - 1
        /\ Bank(h, f, p).num \in Nat
        /\ \A e \in 0 .. Bank(h, f, p).num - 1 :
             /\ EntryPos(h, f, p, e) = Start(h, f, p) + 1 + e
             /\ EntryPos(h, f, p, e) \in h.ct + h.ch + h.b + 1 .. Len(f) - 1
    BY <2>1, Places
  <2>3. /\ Bank(h, f, p).kind = "bank" /\ Bank(h, f, p).num \in 0 .. MaxEntries
        /\ Start(h, f, p + 1) = Start(h, f, p) + 1 + Bank(h, f, p).num
        /\ \A e \in 0 .. Bank(h, f, p).num - 1 : At(f, EntryPos(h, f, p, e)).kind = "entry"
    BY <2>1 DEF Layout, Bank
  <2>4. Start(k, g, p) = Start(h, f, p) + 1 /\ Start(k, g, p + 1) = Start(h, f, p + 1) + 1
    BY <1>3, <2>1
  <2> DEFINE c == h.ct + h.ch
             L == Len(f)
  <2>9. \A x : x \in c + h.b .. L - 1 \/ x \in c + h.b + 1 .. L - 1 => x \in c .. L - 1
    <3>1. c \in Nat /\ h.b \in Nat /\ L \in Nat
      BY <1>1
    <3> HIDE DEF c, L
    <3> QED BY <3>1
  <2>5. Start(h, f, p) \in h.ct + h.ch .. Len(f) - 1
    BY <2>2, <2>9
  <2>6. At(g, Start(k, g, p)) = Bank(h, f, p)
    BY <2>4, <2>5 DEF Bank
  <2>7. Start(k, g, p + 1) = Start(k, g, p) + 1 + Bank(h, f, p).num
    BY <1>1, <2>2, <2>3, <2>4
  <2>8. ASSUME NEW e \in 0 .. Bank(h, f, p).num - 1
        PROVE  At(g, EntryPos(k, g, p, e)) = At(f, EntryPos(h, f, p, e))
    <3>1. EntryPos(k, g, p, e) = Start(k, g, p) + 1 + e
      BY <2>1 DEF EntryPos, Start
    <3>2. EntryPos(k, g, p, e) = EntryPos(h, f, p, e) + 1
      BY <1>1, <2>2, <2>4, <3>1
    <3>3. EntryPos(h, f, p, e) \in h.ct + h.ch .. Len(f) - 1
      BY <2>2, <2>9
    <3> QED BY <3>2, <3>3
  <2> QED BY <2>3, <2>6, <2>7, <2>8 DEF Bank
<1>5. Start(k, g, 0) = k.ct + k.ch + k.b
  <2>1. 0 \in 0 .. h.b
    BY <1>1
  <2> QED BY <1>1, <1>3, <2>1 DEF Layout
<1>6. \A p \in 0 .. k.b - 1 : At(g, OffsetPos(k, p)).kind = "offset"
  BY <1>2 DEF Layout
<1>7. SameBanks(h, f, k, g)
  BY <1>4 DEF SameBanks, BankAs
<1> QED BY <1>4, <1>5, <1>6, <1>7 DEF Layout

(* Raising the contacts of channels disturbs no bank.                      *)
LEMMA ChannelsRaised ==
  ASSUME NEW h \in Headers, NEW f \in Seq(Items), Layout(h, f),
         NEW P \in SUBSET (h.ct .. h.ct + h.ch - 1)
  PROVE  Layout(h, Raised(f, P)) /\ SameBanks(h, f, h, Raised(f, P))
<1> DEFINE g == Raised(f, P)
<1>1. h.ct \in Nat /\ h.ch \in Nat /\ h.b \in Nat /\ Len(f) \in Nat
  BY DEF Headers
<1>2. /\ g \in Seq(Items) /\ Len(g) = Len(f)
      /\ \A q \in 0 .. Len(f) - 1 :
           /\ At(g, q).kind = At(f, q).kind
           /\ q \notin P => At(g, q) = At(f, q)
  BY RaisedIs
<1> HIDE DEF g
<1>3. ASSUME NEW q \in 0 .. Len(f) - 1, q \in P PROVE At(f, q).kind = "channel"
  <2>1. q - h.ct \in 0 .. h.ch - 1 /\ ChannelPos(h, q - h.ct) = q
    BY <1>1, <1>3 DEF ChannelPos
  <2> QED BY <2>1 DEF Layout
<1>4. /\ Layout(h, g)
      /\ \A p \in 0 .. h.b : Start(h, g, p) = Start(h, f, p)
  <2>1. \A q \in 0 .. Len(f) - 1 :
          /\ At(g, q).kind = At(f, q).kind
          /\ At(f, q).kind \in {"offset", "bank"} => At(g, q).num = At(f, q).num
    <3> TAKE q \in 0 .. Len(f) - 1
    <3>1. CASE q \in P
      BY <1>2, <1>3, <3>1
    <3>2. CASE q \notin P
      BY <1>2, <3>2
    <3> QED BY <3>1, <3>2
  <2> QED BY <1>2, <2>1, SameShape
<1>6. \A x \in h.ct + h.ch + h.b .. Len(f) - 1 : x \in 0 .. Len(f) - 1 /\ x \notin P
  <2> TAKE x \in h.ct + h.ch + h.b .. Len(f) - 1
  <2>1. x \in Nat /\ x <= Len(f) - 1 /\ ~ (x <= h.ct + h.ch - 1)
    BY <1>1
  <2> QED BY <1>1, <2>1
<1>5. SameBanks(h, f, h, g)
  <2> SUFFICES ASSUME NEW p \in 0 .. h.b - 1
               PROVE  /\ Bank(h, g, p) = Bank(h, f, p)
                      /\ \A e \in 0 .. Bank(h, f, p).num - 1 :
                           At(g, EntryPos(h, g, p, e)) = At(f, EntryPos(h, f, p, e))
    BY DEF SameBanks, BankAs
  <2>1. /\ Start(h, f, p) \in 0 .. Len(f) - 1 /\ Start(h, f, p) \notin P
        /\ BankPos(h, f, p) = Start(h, f, p)
        /\ \A e \in 0 .. Bank(h, f, p).num - 1 :
             /\ EntryPos(h, f, p, e) \in 0 .. Len(f) - 1
             /\ EntryPos(h, f, p, e) \notin P
    <3>1. /\ Start(h, f, p) \in h.ct + h.ch + h.b .. Len(f) - 1
          /\ BankPos(h, f, p) = Start(h, f, p)
          /\ \A e \in 0 .. Bank(h, f, p).num - 1 :
               EntryPos(h, f, p, e) \in h.ct + h.ch + h.b + 1 .. Len(f) - 1
      BY Places
    <3>2. \A x \in h.ct + h.ch + h.b + 1 .. Len(f) - 1 :
             x \in h.ct + h.ch + h.b .. Len(f) - 1
      BY <1>1
    <3> QED BY <1>6, <3>1, <3>2
  <2>2. p \in 0 .. h.b /\ Start(h, g, p) = Start(h, f, p)
    BY <1>1, <1>4
  <2>3. BankPos(h, g, p) = Start(h, g, p)
    BY <1>2, <1>4, Places
  <2>4. \A e : EntryPos(h, g, p, e) = EntryPos(h, f, p, e)
    BY <2>1, <2>2, <2>3 DEF EntryPos
  <2>5. Bank(h, g, p) = Bank(h, f, p)
    BY <1>2, <2>1, <2>2 DEF Bank
  <2>6. \A e \in 0 .. Bank(h, f, p).num - 1 :
          At(g, EntryPos(h, g, p, e)) = At(f, EntryPos(h, f, p, e))
    BY <1>2, <2>1, <2>4
  <2> QED BY <2>5, <2>6
<1> QED BY <1>4, <1>5 DEF g

-----------------------------------------------------------------------------
(* The calls. *)

LEMMA SameBanksTrans ==
  ASSUME NEW h, NEW f, NEW k, NEW g, NEW g2, k.b = h.b,
         SameBanks(h, f, k, g), SameBanks(k, g, k, g2)
  PROVE  SameBanks(h, f, k, g2)
BY DEF SameBanks, BankAs

LEMMA ContactInserted ==
  ASSUME NEW h \in Headers, NEW f \in Seq(Items), Layout(h, f),
         NEW n \in Names, NEW pos \in 0 .. h.ct,
         NEW k \in Headers, k.ct = h.ct + 1, k.ch = h.ch, k.b = h.b
  PROVE  LET g == CtNumbering(k, Inserted(f, pos, Item("contact", n, 0)), pos)
         IN  /\ g \in Seq(Items) /\ Layout(k, g) /\ SameBanks(h, f, k, g)
             /\ \A p \in 0 .. h.ct : At(g, p).name =
                  IF p < pos THEN At(f, p).name
                  ELSE IF p = pos THEN n ELSE At(f, p - 1).name
             /\ \A p \in 0 .. h.ch - 1 :
                  LET c == At(g, ChannelPos(k, p))
                      d == At(f, ChannelPos(h, p))
                  IN  c.name = d.name /\ c.num = Tables!Moved(d.num, pos)
<1> DEFINE item == Item("contact", n, 0)
           i == Inserted(f, pos, item)
           P == {p \in k.ct .. k.ct + k.ch - 1 : At(i, p).num >= pos}
           g == Raised(i, P)
<1>1. h.ct \in Nat /\ h.ch \in Nat /\ h.b \in Nat /\ Len(f) \in Nat /\ pos \in Nat
  BY DEF Headers
<1>2. h.ct + h.ch + h.b <= Len(f)
  BY Places
<1>3. item \in Items /\ item.kind = "contact" /\ item.name = n
  <2>1. "contact" \in Kinds /\ n \in Texts
    BY KindsAndTexts
  <2>2. 0 \in Int
    OBVIOUS
  <2> QED BY <2>1, <2>2, ItemType
<1>4. /\ i \in Seq(Items) /\ Len(i) = Len(f) + 1
      /\ \A q \in 0 .. Len(f) : At(i, q) =
           IF q < pos THEN At(f, q) ELSE IF q = pos THEN item ELSE At(f, q - 1)
  <2>1. pos \in 0 .. Len(f)
    BY <1>1, <1>2
  <2> QED BY <1>3, <2>1, InsertedIs
<1> HIDE DEF item, i
<1>5. \A q \in pos .. Len(f) - 1 : At(i, q + 1) = At(f, q)
  <2> TAKE q \in pos .. Len(f) - 1
  <2>1. q + 1 \in 0 .. Len(f) /\ ~ (q + 1 < pos) /\ q + 1 # pos /\ (q + 1) - 1 = q
    BY <1>1
  <2> QED BY <1>4, <2>1
<1>6. \A p \in 0 .. h.ch - 1 :
        /\ ChannelPos(k, p) = ChannelPos(h, p) + 1
        /\ ChannelPos(h, p) \in pos .. Len(f) - 1
  <2> TAKE p \in 0 .. h.ch - 1
  <2>1. p \in Nat /\ p <= h.ch - 1 /\ pos <= h.ct
    BY <1>1
  <2>2. pos <= h.ct + p
    BY <1>1, <2>1
  <2>3. h.ct + p <= Len(f) - 1
    BY <1>1, <1>2, <2>1
  <2> QED BY <1>1, <2>1, <2>2, <2>3 DEF ChannelPos
<1>7. \A p \in 0 .. h.ct :
        /\ p \in 0 .. Len(f)
        /\ p < pos => p \in 0 .. h.ct - 1
        /\ p > pos => p - 1 \in 0 .. h.ct - 1
  <2>1. h.ct \in Nat /\ Len(f) \in Nat /\ pos \in Nat /\ pos <= h.ct /\ h.ct <= Len(f)
    BY <1>1, <1>2
  <2> QED BY <2>1
<1>8. Layout(k, i) /\ SameBanks(h, f, k, i)
  <2>1. \A q \in h.ct + h.ch .. Len(f) - 1 : At(i, q + 1) = At(f, q)
    <3>1. \A q \in h.ct + h.ch .. Len(f) - 1 : q \in pos .. Len(f) - 1
      BY <1>1
    <3> QED BY <1>5, <3>1
  <2>2. \A p \in 0 .. k.ct - 1 : At(i, p).kind = "contact"
    <3> TAKE p \in 0 .. k.ct - 1
    <3>1. p \in 0 .. h.ct /\ (p < pos \/ p = pos \/ p > pos)
      BY <1>1
    <3> QED BY <1>3, <1>4, <1>7, <3>1 DEF Layout
  <2>3. \A p \in 0 .. k.ch - 1 : At(i, ChannelPos(k, p)).kind = "channel"
    BY <1>5, <1>6 DEF Layout
  <2>4. k.ct + k.ch = h.ct + h.ch + 1
    BY <1>1
  <2> QED BY <1>4, <2>1, <2>2, <2>3, <2>4, ShiftedShape
<1>9. /\ g \in Seq(Items)
      /\ \A q \in 0 .. Len(f) :
           /\ At(g, q).name = At(i, q).name
           /\ At(g, q).num = At(i, q).num + (IF q \in P THEN 1 ELSE 0)
  <2>1. Len(i) - 1 = Len(f)
    BY <1>1, <1>4
  <2> QED BY <1>4, <2>1, RaisedIs
<1>10. Layout(k, g) /\ SameBanks(k, i, k, g)
  <2>1. P \in SUBSET (k.ct .. k.ct + k.ch - 1)
    OBVIOUS
  <2> HIDE DEF P
  <2> QED BY <1>4, <1>8, <2>1, ChannelsRaised
<1>11. CtNumbering(k, i, pos) = g
  BY DEF CtNumbering
<1>12. ASSUME NEW p \in 0 .. h.ct
       PROVE  At(g, p).name = IF p < pos THEN At(f, p).name
                              ELSE IF p = pos THEN n ELSE At(f, p - 1).name
  <2> HIDE DEF g
  <2>1. At(g, p).name = At(i, p).name
    BY <1>7, <1>9
  <2>2. At(i, p) = IF p < pos THEN At(f, p) ELSE IF p = pos THEN item ELSE At(f, p - 1)
    BY <1>4, <1>7
  <2> QED BY <1>3, <2>1, <2>2
<1>13. ASSUME NEW p \in 0 .. h.ch - 1
       PROVE  LET c == At(g, ChannelPos(k, p))
                  d == At(f, ChannelPos(h, p))
              IN  c.name = d.name /\ c.num = Tables!Moved(d.num, pos)
  <2> DEFINE q == ChannelPos(k, p)
  <2>1. At(i, q) = At(f, ChannelPos(h, p))
    BY <1>5, <1>6
  <2>2. q \in 0 .. Len(f) /\ q \in k.ct .. k.ct + k.ch - 1
    <3> DEFINE L == Len(f)
               ct == h.ct
               c == h.ch
    <3>1. /\ ct \in Nat /\ c \in Nat /\ L \in Nat /\ ct + c <= L
          /\ p \in Nat /\ p <= c - 1 /\ q = ct + 1 + p /\ k.ct = ct + 1 /\ k.ch = c
      BY <1>1, <1>2 DEF ChannelPos
    <3> HIDE DEF L, ct, c, q
    <3> QED BY <3>1 DEF L
  <2>3. q \in P <=> At(f, ChannelPos(h, p)).num >= pos
    BY <2>1, <2>2
  <2>4. At(f, ChannelPos(h, p)).num \in Int
    BY Places, ItemAt
  <2> HIDE DEF g, P, q
  <2>5. At(g, q).name = At(i, q).name /\ At(g, q).num = At(i, q).num + (IF q \in P THEN 1 ELSE 0)
    BY <1>9, <2>2
  <2> QED BY <2>1, <2>3, <2>4, <2>5 DEF Tables!Moved, q
<1>14. SameBanks(h, f, k, g)
  <2> HIDE DEF g
  <2> QED BY <1>8, <1>10, SameBanksTrans
<1> HIDE DEF g
<1> QED BY <1>9, <1>10, <1>11, <1>12, <1>13, <1>14 DEF i, item

LEMMA ChannelInserted ==
  ASSUME NEW h \in Headers, NEW f \in Seq(Items), Layout(h, f),
         NEW n \in Names, NEW ct \in Int, NEW pos \in 0 .. h.ch,
         NEW k \in Headers, k.ct = h.ct, k.ch = h.ch + 1, k.b = h.b
  PROVE  LET item == Item("channel", n, ct)
             g == Inserted(f, ChannelPos(h, pos), item)
         IN  /\ g \in Seq(Items) /\ Layout(k, g) /\ SameBanks(h, f, k, g)
             /\ \A p \in 0 .. h.ct - 1 : At(g, p) = At(f, p)
             /\ \A p \in 0 .. h.ch : At(g, ChannelPos(k, p)) =
                  IF p < pos THEN At(f, ChannelPos(h, p))
                  ELSE IF p = pos THEN item ELSE At(f, ChannelPos(h, p - 1))
<1> DEFINE item == Item("channel", n, ct)
           at == ChannelPos(h, pos)
           g == Inserted(f, at, item)
<1>1. /\ h.ct \in Nat /\ h.ch \in Nat /\ h.b \in Nat /\ Len(f) \in Nat
      /\ pos \in Nat /\ pos <= h.ch
  BY DEF Headers
<1>2. h.ct + h.ch + h.b <= Len(f)
  BY Places
<1>3. item \in Items /\ item.kind = "channel"
  <2>1. "channel" \in Kinds /\ n \in Texts
    BY KindsAndTexts
  <2> QED BY <2>1, ItemType
<1>a. at = h.ct + pos /\ at \in 0 .. Len(f) /\ at \in Nat
  BY <1>1, <1>2 DEF ChannelPos
<1> HIDE DEF item, at
<1>4. /\ g \in Seq(Items) /\ Len(g) = Len(f) + 1
      /\ \A q \in 0 .. Len(f) : At(g, q) =
           IF q < at THEN At(f, q) ELSE IF q = at THEN item ELSE At(f, q - 1)
  <2>1. at \in 0 .. Len(f) /\ item \in Items
    BY <1>3, <1>a
  <2> QED BY <2>1, InsertedIs
<1> HIDE DEF g
<1>5. \A p \in 0 .. h.ct - 1 : At(g, p) = At(f, p)
  <2> TAKE p \in 0 .. h.ct - 1
  <2>1. p \in 0 .. Len(f) /\ p < at
    BY <1>1, <1>2, <1>a
  <2> QED BY <1>4, <2>1
<1>6. ASSUME NEW p \in 0 .. h.ch
      PROVE  At(g, ChannelPos(k, p)) =
               IF p < pos THEN At(f, ChannelPos(h, p))
               ELSE IF p = pos THEN item ELSE At(f, ChannelPos(h, p - 1))
  <2>1. /\ ChannelPos(k, p) = h.ct + p /\ ChannelPos(h, p) = h.ct + p
        /\ ChannelPos(h, p - 1) = (h.ct + p) - 1
    BY <1>1 DEF ChannelPos
  <2>2. /\ h.ct + p \in 0 .. Len(f)
        /\ (h.ct + p < at <=> p < pos) /\ (h.ct + p = at <=> p = pos)
    <3>1. p \in Nat /\ p <= h.ch
      BY <1>1
    <3>2. h.ct + p <= Len(f)
      BY <1>1, <1>2, <3>1
    <3>3. (h.ct + p < at <=> p < pos) /\ (h.ct + p = at <=> p = pos)
      BY <1>1, <1>a, <3>1
    <3> QED BY <1>1, <3>1, <3>2, <3>3
  <2> QED BY <1>4, <2>1, <2>2
<1>7. Layout(k, g) /\ SameBanks(h, f, k, g)
  <2>1. \A q \in h.ct + h.ch .. Len(f) - 1 : At(g, q + 1) = At(f, q)
    <3> TAKE q \in h.ct + h.ch .. Len(f) - 1
    <3>1. /\ q + 1 \in 0 .. Len(f) /\ ~ (q + 1 < at) /\ q + 1 # at
          /\ (q + 1) - 1 = q
      BY <1>1, <1>a
    <3> QED BY <1>4, <3>1
  <2>2. \A p \in 0 .. k.ct - 1 : At(g, p).kind = "contact"
    BY <1>5 DEF Layout
  <2>3. \A p \in 0 .. k.ch - 1 : At(g, ChannelPos(k, p)).kind = "channel"
    <3> TAKE p \in 0 .. k.ch - 1
    <3>1. /\ p \in 0 .. h.ch /\ (p < pos => p \in 0 .. h.ch - 1)
          /\ (p > pos => p - 1 \in 0 .. h.ch - 1) /\ (p < pos \/ p = pos \/ p > pos)
      BY <1>1
    <3> QED BY <1>3, <1>6, <3>1 DEF Layout
  <2>4. k.ct + k.ch = h.ct + h.ch + 1
    BY <1>1
  <2> QED BY <1>4, <2>1, <2>2, <2>3, <2>4, ShiftedShape
<1> QED BY <1>4, <1>5, <1>6, <1>7 DEF g, item, at

(* Raising the numbers of entries disturbs nothing else.                   *)
LEMMA EntriesRaised ==
  ASSUME NEW h \in Headers, NEW f \in Seq(Items), Layout(h, f),
         NEW P \in SUBSET {EntryPos(h, f, be[1], be[2]) : be \in Entries(h, f)}
  PROVE  LET g == Raised(f, P)
         IN  /\ g \in Seq(Items) /\ Len(g) = Len(f) /\ Layout(h, g)
             /\ \A p \in 0 .. h.b : Start(h, g, p) = Start(h, f, p)
             /\ \A q \in 0 .. Len(f) - 1 :
                  At(f, q).kind # "entry" => At(g, q) = At(f, q)
<1> DEFINE g == Raised(f, P)
<1>1. /\ g \in Seq(Items) /\ Len(g) = Len(f)
      /\ \A q \in 0 .. Len(f) - 1 :
           /\ At(g, q).kind = At(f, q).kind
           /\ q \notin P => At(g, q) = At(f, q)
  BY RaisedIs
<1> HIDE DEF g
<1>2. ASSUME NEW q \in P PROVE At(f, q).kind = "entry"
  <2>1. PICK be \in Entries(h, f) : q = EntryPos(h, f, be[1], be[2])
    OBVIOUS
  <2>2. /\ be[1] \in 0 .. h.b - 1 /\ be[2] \in 0 .. MaxEntries - 1
        /\ be[2] < At(f, BankPos(h, f, be[1])).num
    BY <2>1 DEF Entries
  <2>3. /\ BankPos(h, f, be[1]) = Start(h, f, be[1])
        /\ Bank(h, f, be[1]).num \in Nat
    BY <2>2, Places
  <2>4. be[2] \in 0 .. Bank(h, f, be[1]).num - 1
    <3>1. be[2] < Bank(h, f, be[1]).num
      BY <2>2, <2>3 DEF Bank
    <3>2. be[2] \in Int /\ 0 <= be[2]
      BY <2>2, BoundAssumption
    <3> QED BY <2>3, <3>1, <3>2
  <2> QED BY <2>1, <2>2, <2>4 DEF Layout, Bank
<1>3. \A q \in 0 .. Len(f) - 1 : At(f, q).kind # "entry" => At(g, q) = At(f, q)
  BY <1>1, <1>2
<1>4. /\ Layout(h, g)
      /\ \A p \in 0 .. h.b : Start(h, g, p) = Start(h, f, p)
  <2>1. \A q \in 0 .. Len(f) - 1 :
          /\ At(g, q).kind = At(f, q).kind
          /\ At(f, q).kind \in {"offset", "bank"} => At(g, q).num = At(f, q).num
    BY <1>1, <1>3
  <2> QED BY <1>1, <2>1, SameShape
<1> QED BY <1>1, <1>3, <1>4 DEF g

(* A bank that has moved by d cells as a whole.                            *)
LEMMA BankMoved ==
  ASSUME NEW h \in Headers, NEW f \in Seq(Items), Layout(h, f), NEW p \in 0 .. h.b - 1,
         NEW k \in Headers, NEW g, NEW q \in 0 .. k.b - 1, NEW d \in Nat,
         Start(k, g, q) = Start(h, f, p) + d,
         \A s \in Start(h, f, p) .. End(h, f, p) - 1 : At(g, s + d) = At(f, s)
  PROVE  BankAs(h, f, p, k, g, q)
<1> DEFINE a == Start(h, f, p)
           n == Bank(h, f, p).num
<1>1. a \in Nat /\ n \in Nat /\ BankPos(h, f, p) = a /\ End(h, f, p) = a + 1 + n
  <2>1. a \in 0 .. Len(f) - 1 /\ BankPos(h, f, p) = a
    BY BanksWithin
  <2>2. n \in Nat
    BY Places
  <2>3. End(h, f, p) = a + 1 + n
    BY DEF End
  <2> HIDE DEF a, n
  <2> QED BY <2>1, <2>2, <2>3
<1>2. q < k.b
  BY DEF Headers
<1>3. \A e : /\ EntryPos(h, f, p, e) = a + 1 + e
             /\ EntryPos(k, g, q, e) = (a + d) + 1 + e
  BY <1>1, <1>2 DEF EntryPos, Start
<1>4. Bank(k, g, q) = Bank(h, f, p)
  <2>1. a \in a .. End(h, f, p) - 1
    BY <1>1
  <2>2. At(g, a + d) = At(f, a)
    BY <2>1
  <2> QED BY <2>2 DEF Bank
<1>5. ASSUME NEW e \in 0 .. n - 1
      PROVE  At(g, EntryPos(k, g, q, e)) = At(f, EntryPos(h, f, p, e))
  <2> HIDE DEF a, n
  <2>1. (a + d) + 1 + e = (a + 1 + e) + d /\ a + 1 + e \in a .. (a + 1 + n) - 1
    BY <1>1
  <2>2. At(g, (a + 1 + e) + d) = At(f, a + 1 + e)
    BY <1>1, <2>1 DEF a
  <2> QED BY <1>3, <2>1, <2>2
<1> QED BY <1>4, <1>5 DEF BankAs

(* What a bank that is read as another has of its shape.                   *)
LEMMA BankShape ==
  ASSUME NEW h \in Headers, NEW f \in Seq(Items), Layout(h, f), NEW p \in 0 .. h.b - 1,
         NEW k, NEW g, NEW q, BankAs(h, f, p, k, g, q)
  PROVE  LET bank == At(g, Start(k, g, q))
         IN  /\ bank.kind = "bank" /\ bank.num = Bank(h, f, p).num
             /\ bank.num \in 0 .. MaxEntries
             /\ \A e \in 0 .. bank.num - 1 : At(g, EntryPos(k, g, q, e)).kind = "entry"
<1>1. /\ Bank(h, f, p).kind = "bank" /\ Bank(h, f, p).num \in 0 .. MaxEntries
      /\ \A e \in 0 .. Bank(h, f, p).num - 1 : At(f, EntryPos(h, f, p, e)).kind = "entry"
  BY DEF Layout, Bank
<1>2. At(g, Start(k, g, q)) = Bank(h, f, p)
  BY DEF BankAs, Bank
<1>3. \A e \in 0 .. Bank(h, f, p).num - 1 : At(g, EntryPos(k, g, q, e)).kind = "entry"
  BY <1>1 DEF BankAs
<1> QED BY <1>1, <1>2, <1>3

(* The offset cps_insertBankHeader writes: the place of the new bank,      *)
(* counted from that of the first one.                                     *)
LEMMA NewOffset ==
  ASSUME NEW h \in Headers, NEW f \in Seq(Items), Layout(h, f), NEW pos \in 0 .. h.b
  PROVE  BankDataOffset(h, f, pos) - BankDataOffset(h, f, 0)
           = Start(h, f, pos) - (h.ct + h.ch + h.b)
<1>1. h.ct \in Nat /\ h.ch \in Nat /\ h.b \in Nat
  BY DEF Headers
<1>2. Start(h, f, 0) = h.ct + h.ch + h.b
  BY DEF Layout
<1>3. CASE h.b = 0
  <2>1. pos = 0 /\ ~ (pos < h.b) /\ ~ (0 < h.b)
    BY <1>1, <1>3
  <2>2. BankDataOffset(h, f, 0) = h.ct + h.ch + 1
    BY <1>3, <2>1 DEF BankDataOffset
  <2> QED BY <1>1, <1>2, <2>1, <2>2
<1>4. CASE h.b # 0
  <2>1. BankDataOffset(h, f, 0) = h.ct + h.ch + h.b
    <3>1. 0 < h.b
      BY <1>1, <1>4
    <3> QED BY <1>2, <3>1 DEF BankDataOffset, Start
  <2>2. BankDataOffset(h, f, pos) = Start(h, f, pos)
    <3>1. CASE pos < h.b
      BY <3>1 DEF BankDataOffset, Start
    <3>2. CASE ~ (pos < h.b)
      <4>1. pos = h.b /\ h.b - 1 \in 0 .. h.b - 1 /\ (h.b - 1) + 1 = h.b
        BY <1>1, <1>4, <3>2
      <4>2. BankPos(h, f, h.b - 1) = Start(h, f, h.b - 1)
        BY <4>1, Places
      <4>3. BankDataOffset(h, f, pos) = End(h, f, h.b - 1)
        BY <1>4, <3>2, <4>2 DEF BankDataOffset, End, Bank
      <4> QED BY <4>1, <4>3, Ordered
    <3> QED BY <3>1, <3>2
  <2> QED BY <2>1, <2>2
<1> QED BY <1>3, <1>4

(* The new bank is between the old ones, which are all there.              *)
BankPut(h, f, k, g, pos) ==
  \A p \in 0 .. h.b :
    /\ p < pos => BankAs(h, f, p, k, g, p)
    /\ p > pos => BankAs(h, f, p - 1, k, g, p)

LEMMA BankInserted ==
  ASSUME NEW h \in Headers, NEW f \in Seq(Items), Layout(h, f),
         NEW n \in Names, NEW pos \in 0 .. h.b,
         NEW k \in Headers, k.ct = h.ct, k.ch = h.ch, k.b = h.b + 1
  PROVE  LET at   == OffsetPos(h, pos)
             new  == BankDataOffset(h, f, pos) - BankDataOffset(h, f, 0)
             r    == OffsetsRaised(k, Inserted(f, at, Number("offset", new)), at + 1)
             item == Item("bank", n, 0)
             g    == Inserted(r, BankDataOffset(k, r, pos), item)
         IN  /\ g \in Seq(Items) /\ Layout(k, g)
             /\ \A q \in 0 .. h.ct + h.ch - 1 : At(g, q) = At(f, q)
             /\ BankPut(h, f, k, g, pos) /\ Bank(k, g, pos) = item
<1> DEFINE c    == h.ct + h.ch
           at   == OffsetPos(h, pos)
           new  == BankDataOffset(h, f, pos) - BankDataOffset(h, f, 0)
           off  == Number("offset", new)
           i    == Inserted(f, at, off)
           P    == at + 1 .. k.ct + k.ch + k.b - 1
           r    == Raised(i, P)
           x    == BankDataOffset(k, r, pos)
           item == Item("bank", n, 0)
           g    == Inserted(r, x, item)
           s    == Start(h, f, pos)
<1>1. /\ c \in Nat /\ h.b \in Nat /\ Len(f) \in Nat
      /\ pos \in Nat /\ pos <= h.b
      /\ at = c + pos /\ P = at + 1 .. c + h.b
      /\ \A p : OffsetPos(h, p) = c + p /\ OffsetPos(k, p) = c + p
  <2>1. c \in Nat /\ h.b \in Nat /\ Len(f) \in Nat /\ pos \in Nat /\ pos <= h.b
    BY DEF Headers
  <2>2. \A p : OffsetPos(h, p) = c + p /\ OffsetPos(k, p) = c + p
    BY DEF OffsetPos
  <2>3. at = c + pos
    BY <2>2
  <2>4. k.ct + k.ch + k.b - 1 = c + h.b
    <3>1. k.ct + k.ch = c /\ k.b - 1 = h.b
      BY <2>1
    <3> QED BY <3>1
  <2> QED BY <2>1, <2>2, <2>3, <2>4
<1>2. c + h.b <= s /\ s <= Len(f) /\ s \in Nat
  BY Ordered
<1>3. new = s - (c + h.b) /\ new \in Int
  BY <1>1, <1>2, NewOffset
<1>4. off \in Items /\ off.kind = "offset" /\ off.num = new
  <2>1. "offset" \in Kinds
    BY KindsAndTexts
  <2>2. new \in Int
    BY <1>3
  <2> HIDE DEF new
  <2> QED BY <2>1, <2>2, NumberType
<1>5. item \in Items /\ item.kind = "bank" /\ item.num = 0
  <2>1. "bank" \in Kinds /\ n \in Texts
    BY KindsAndTexts
  <2>2. 0 \in Int
    OBVIOUS
  <2> QED BY <2>1, <2>2, ItemType
<1> HIDE DEF item, off, new, s
<1>6. /\ i \in Seq(Items) /\ Len(i) = Len(f) + 1
      /\ \A q \in 0 .. Len(f) : At(i, q) =
           IF q < at THEN At(f, q) ELSE IF q = at THEN off ELSE At(f, q - 1)
  <2>1. at \in 0 .. Len(f)
    <3>1. c + pos <= Len(f) /\ 0 <= c + pos /\ c + pos \in Int
      BY <1>1, <1>2
    <3> QED BY <1>1, <3>1
  <2>2. off \in Items
    BY <1>4
  <2> HIDE DEF at
  <2> QED BY <2>1, <2>2, InsertedIs
<1> HIDE DEF i, at
<1>7. /\ r \in Seq(Items) /\ Len(r) = Len(f) + 1
      /\ \A q \in 0 .. Len(f) :
           /\ At(r, q).kind = At(i, q).kind
           /\ At(r, q).num = At(i, q).num + (IF q \in P THEN 1 ELSE 0)
           /\ q \notin P => At(r, q) = At(i, q)
  <2>1. Len(i) - 1 = Len(f)
    BY <1>1, <1>6
  <2> HIDE DEF P
  <2> QED BY <1>6, <2>1, RaisedIs
<1> HIDE DEF r
<1>8. \A q \in c + h.b .. Len(f) - 1 : At(r, q + 1) = At(f, q)
  <2> TAKE q \in c + h.b .. Len(f) - 1
  <2>1. q + 1 \in 0 .. Len(f) /\ ~ (q + 1 < at) /\ q + 1 # at /\ (q + 1) - 1 = q
    BY <1>1
  <2>2. q + 1 \notin P
    BY <1>1
  <2> HIDE DEF P
  <2> QED BY <1>6, <1>7, <2>1, <2>2
<1>9. \A q \in 0 .. c - 1 : At(r, q) = At(f, q)
  <2> TAKE q \in 0 .. c - 1
  <2>1. q \in 0 .. Len(f) /\ q < at
    BY <1>1, <1>2
  <2>2. q \notin P
    BY <1>1
  <2> HIDE DEF P
  <2> QED BY <1>6, <1>7, <2>1, <2>2
<1>10. ASSUME NEW p \in 0 .. h.b
       PROVE  /\ At(r, c + p).kind = "offset"
              /\ At(r, c + p).num = IF p < pos THEN At(f, c + p).num
                                    ELSE IF p = pos THEN new
                                    ELSE At(f, c + (p - 1)).num + 1
  <2>1. /\ c + p \in 0 .. Len(f)
        /\ (c + p < at <=> p < pos) /\ (c + p = at <=> p = pos)
        /\ (c + p) - 1 = c + (p - 1) /\ p \in Nat
    <3>1. p \in Nat /\ p <= h.b
      BY <1>1
    <3>2. c + p <= Len(f)
      BY <1>1, <1>2, <3>1
    <3> QED BY <1>1, <3>1, <3>2
  <2>2. c + p \in P <=> p > pos
    <3>1. c \in Nat /\ p \in Nat /\ pos \in Nat /\ h.b \in Nat /\ p <= h.b /\ at = c + pos
      BY <1>1, <2>1
    <3> HIDE DEF c, at
    <3>2. c + p <= c + h.b /\ (at + 1 <= c + p <=> p > pos) /\ c + p \in Int
      BY <3>1
    <3> DEFINE w == c + p
               y == c + h.b
    <3>3. P = at + 1 .. y /\ w <= y /\ (at + 1 <= w <=> p > pos) /\ w \in Int
      BY <1>1, <3>2
    <3> HIDE DEF w, y, P
    <3>4. w \in P <=> p > pos
      BY <3>3
    <3> QED BY <3>4 DEF w
  <2>3. \A m \in 0 .. h.b - 1 :
          At(f, c + m).kind = "offset" /\ At(f, c + m).num \in Int
    <3> TAKE m \in 0 .. h.b - 1
    <3>1. OffsetPos(h, m) = c + m /\ OffsetPos(h, m) \in 0 .. Len(f) - 1
      BY <1>1, Places
    <3> QED BY <3>1, ItemAt DEF Layout
  <2>4. /\ p < pos => p \in 0 .. h.b - 1
        /\ p > pos => p - 1 \in 0 .. h.b - 1
        /\ p < pos \/ p = pos \/ p > pos
    BY <1>1
  <2> HIDE DEF P, c
  <2>5. CASE p < pos
    BY <1>6, <1>7, <2>1, <2>2, <2>3, <2>4, <2>5
  <2>6. CASE p = pos
    BY <1>3, <1>4, <1>6, <1>7, <2>1, <2>2, <2>6
  <2>7. CASE p > pos
    BY <1>6, <1>7, <2>1, <2>2, <2>3, <2>4, <2>7
  <2> QED BY <2>4, <2>5, <2>6, <2>7
<1>11. x = s + 1
  <2>1. pos < k.b /\ OffsetPos(k, pos) = c + pos
    BY <1>1
  <2>2. x = k.ct + k.ch + k.b + At(r, c + pos).num
    BY <2>1 DEF BankDataOffset, BankPos
  <2>3. At(r, c + pos).num = new
    BY <1>1, <1>10
  <2>4. k.ct + k.ch + k.b = c + h.b + 1
    BY <1>1
  <2>5. c + h.b \in Int /\ s \in Int
    BY <1>1, <1>2
  <2> HIDE DEF c, x
  <2> QED BY <1>3, <2>2, <2>3, <2>4, <2>5
<1> HIDE DEF x, P
<1>12. /\ g \in Seq(Items) /\ Len(g) = Len(f) + 2
       /\ \A q \in 0 .. Len(f) + 1 : At(g, q) =
            IF q < x THEN At(r, q) ELSE IF q = x THEN item ELSE At(r, q - 1)
  <2>1. x \in 0 .. Len(r)
    BY <1>1, <1>2, <1>7, <1>11
  <2>2. /\ g \in Seq(Items) /\ Len(g) = Len(r) + 1
        /\ \A q \in 0 .. Len(r) : At(g, q) =
             IF q < x THEN At(r, q) ELSE IF q = x THEN item ELSE At(r, q - 1)
    BY <1>5, <1>7, <2>1, InsertedIs
  <2> HIDE DEF g
  <2> QED BY <1>1, <1>7, <2>2
<1> HIDE DEF g
<1>13. /\ \A q \in 0 .. s : At(g, q) = At(r, q)
       /\ At(g, s + 1) = item
       /\ \A q \in s + 1 .. Len(f) : At(g, q + 1) = At(r, q)
  <2>1. \A q \in 0 .. s : q \in 0 .. Len(f) + 1 /\ q < x
    BY <1>1, <1>2, <1>11
  <2>2. s + 1 \in 0 .. Len(f) + 1 /\ s + 1 = x /\ ~ (s + 1 < x)
    BY <1>1, <1>2, <1>11
  <2>3. \A q \in s + 1 .. Len(f) :
          q + 1 \in 0 .. Len(f) + 1 /\ ~ (q + 1 < x) /\ q + 1 # x /\ (q + 1) - 1 = q
    BY <1>1, <1>2, <1>11
  <2>4. \A q \in s + 1 .. Len(f) : At(g, q + 1) = At(r, (q + 1) - 1)
    BY <1>12, <2>3
  <2> QED BY <1>12, <2>1, <2>2, <2>3, <2>4
<1>14. /\ \A q \in c + h.b .. s - 1 : At(g, q + 1) = At(f, q)
       /\ \A q \in s .. Len(f) - 1 : At(g, q + 2) = At(f, q)
  <2>1. \A q \in c + h.b .. s - 1 :
          q + 1 \in 0 .. s /\ q \in c + h.b .. Len(f) - 1
    BY <1>1, <1>2
  <2>2. \A q \in s .. Len(f) - 1 :
          /\ q + 1 \in s + 1 .. Len(f) /\ q \in c + h.b .. Len(f) - 1
          /\ (q + 1) + 1 = q + 2
    BY <1>1, <1>2
  <2>3. \A q \in s .. Len(f) - 1 : At(g, (q + 1) + 1) = At(f, q)
    BY <1>8, <1>13, <2>2
  <2> QED BY <1>8, <1>13, <2>1, <2>2, <2>3
<1>15. ASSUME NEW p \in 0 .. h.b + 1
       PROVE  Start(k, g, p) = IF p <= pos THEN Start(h, f, p) + 1
                               ELSE Start(h, f, p - 1) + 2
  <2>1. CASE p = h.b + 1
    <3>1. ~ (p <= pos) /\ p - 1 = h.b /\ ~ (p < k.b)
      BY <1>1, <2>1
    <3> QED BY <1>12, <3>1, Ordered DEF Start
  <2>2. CASE p # h.b + 1
    <3>1. p \in 0 .. h.b /\ p < k.b /\ c + p \in 0 .. s /\ p \in Nat
      <4>1. p \in Nat /\ p <= h.b /\ p < k.b
        BY <1>1, <2>2
      <4> HIDE DEF c
      <4>2. 0 <= c + p /\ c + p <= s /\ c + p \in Int
        BY <1>1, <1>2, <4>1
      <4> QED BY <1>1, <1>2, <4>1, <4>2
    <3>2. Start(k, g, p) = k.ct + k.ch + k.b + At(r, c + p).num
      BY <1>1, <1>13, <3>1 DEF Start, BankPos
    <3>3. k.ct + k.ch + k.b = c + h.b + 1
      BY <1>1
    <3>4. \A m \in 0 .. h.b - 1 : /\ Start(h, f, m) = c + h.b + At(f, c + m).num
                                 /\ At(f, c + m).num \in Int
      <4> TAKE m \in 0 .. h.b - 1
      <4>1. OffsetPos(h, m) = c + m
        BY DEF OffsetPos
      <4>2. OffsetPos(h, m) \in 0 .. Len(f) - 1
        BY Places
      <4>3. m < h.b
        BY <1>1
      <4>4. At(f, OffsetPos(h, m)).num \in Int
        BY <4>2, ItemAt
      <4>5. Start(h, f, m) = c + h.b + At(f, OffsetPos(h, m)).num
        BY <4>3 DEF Start, BankPos
      <4> QED BY <4>1, <4>4, <4>5
    <3> HIDE DEF c
    <3>5. CASE p < pos
      <4>1. p \in 0 .. h.b - 1 /\ p <= pos
        BY <1>1, <3>1, <3>5
      <4>2. At(r, c + p).num = At(f, c + p).num
        BY <1>10, <3>1, <3>5
      <4> DEFINE m == At(f, c + p).num
                 d == c + h.b
      <4>3. m \in Int /\ d \in Int /\ Start(h, f, p) = d + m
        BY <1>1, <3>4, <4>1
      <4>4. Start(k, g, p) = d + 1 + m
        BY <3>2, <3>3, <4>2
      <4> HIDE DEF m, d
      <4>5. Start(k, g, p) = Start(h, f, p) + 1
        BY <4>3, <4>4
      <4> QED BY <4>1, <4>5
    <3>6. CASE p = pos
      <4>1. At(r, c + p).num = new
        BY <1>10, <3>1, <3>6
      <4>2. Start(k, g, p) = s + 1
        <5>1. Start(k, g, p) = c + h.b + 1 + new
          BY <3>2, <3>3, <4>1
        <5>2. c \in Nat /\ h.b \in Nat /\ s \in Nat /\ new = s - (c + h.b)
          BY <1>1, <1>2, <1>3
        <5> QED BY <5>1, <5>2
      <4> QED BY <1>1, <3>6, <4>2 DEF s
    <3>7. CASE p > pos
      <4>1. p - 1 \in 0 .. h.b - 1 /\ ~ (p <= pos) /\ ~ (p < pos) /\ p # pos
        BY <1>1, <3>1, <3>7
      <4>2. At(r, c + p).num = At(f, c + (p - 1)).num + 1
        BY <1>10, <3>1, <4>1
      <4> DEFINE m == At(f, c + (p - 1)).num
      <4>3. m \in Int /\ Start(h, f, p - 1) = c + h.b + m
        BY <3>4, <4>1
      <4>4. Start(k, g, p) = c + h.b + 1 + (m + 1)
        BY <3>2, <3>3, <4>2
      <4> HIDE DEF m
      <4>5. c + h.b + 1 + (m + 1) = (c + h.b + m) + 2
        <5> DEFINE b == h.b
        <5>1. m \in Int /\ c \in Nat /\ b \in Nat
          BY <1>1, <4>3
        <5> HIDE DEF b
        <5>2. c + b + 1 + (m + 1) = (c + b + m) + 2
          BY <5>1
        <5> QED BY <5>2 DEF b
      <4> QED BY <4>1, <4>3, <4>4, <4>5
    <3> QED BY <1>1, <3>1, <3>5, <3>6, <3>7
  <2> QED BY <2>1, <2>2
<1>16. BankPut(h, f, k, g, pos)
  <2> SUFFICES ASSUME NEW p \in 0 .. h.b
               PROVE  /\ p < pos => BankAs(h, f, p, k, g, p)
                      /\ p > pos => BankAs(h, f, p - 1, k, g, p)
    BY DEF BankPut
  <2>1. p \in 0 .. k.b - 1 /\ p \in 0 .. h.b + 1 /\ p \in Nat
    BY <1>1
  <2>2. ASSUME p < pos PROVE BankAs(h, f, p, k, g, p)
    <3>1. p \in 0 .. h.b - 1 /\ p \in 0 .. pos - 1 /\ p <= pos
      BY <1>1, <2>1, <2>2
    <3>2. /\ c + h.b <= Start(h, f, p) /\ Start(h, f, p) \in Nat
          /\ End(h, f, p) <= s /\ End(h, f, p) \in Nat
      <4>1. /\ p \in 0 .. h.b /\ p + 1 \in 0 .. h.b
            /\ End(h, f, p) = Start(h, f, p + 1)
        BY <1>1, <3>1, Ordered
      <4>2. End(h, f, p) <= Start(h, f, pos)
        BY <3>1, Ordered
      <4> QED BY <4>1, <4>2, Ordered DEF s
    <3>3. \A q \in Start(h, f, p) .. End(h, f, p) - 1 : At(g, q + 1) = At(f, q)
      <4>1. \A q \in Start(h, f, p) .. End(h, f, p) - 1 : q \in c + h.b .. s - 1
        <5> DEFINE y == Start(h, f, p)
                   z == End(h, f, p)
                   d == c + h.b
        <5>1. s \in Nat /\ y \in Nat /\ z \in Nat /\ d \in Nat /\ d <= y /\ z <= s
          <6>1. y \in Nat /\ z \in Nat /\ d <= y /\ z <= s
            BY <3>2
          <6>2. s \in Nat /\ d \in Nat
            BY <1>1, <1>2
          <6> QED BY <6>1, <6>2
        <5> HIDE DEF y, z, d
        <5>2. \A q \in y .. z - 1 : q \in d .. s - 1
          BY <5>1
        <5> QED BY <5>2 DEF y, z, d
      <4> QED BY <1>14, <4>1
    <3>4. Start(k, g, p) = Start(h, f, p) + 1
      BY <1>15, <2>1, <3>1
    <3> QED BY <2>1, <3>1, <3>3, <3>4, BankMoved
  <2>3. ASSUME p > pos PROVE BankAs(h, f, p - 1, k, g, p)
    <3>1. /\ p - 1 \in 0 .. h.b - 1 /\ ~ (p <= pos)
          /\ (p - 1 = pos \/ pos \in 0 .. (p - 1) - 1) /\ p - 1 \in 0 .. h.b
          /\ (p - 1) + 1 = p
      BY <1>1, <2>1, <2>3
    <3>2. /\ s <= Start(h, f, p - 1) /\ Start(h, f, p - 1) \in Nat
          /\ End(h, f, p - 1) <= Len(f) /\ End(h, f, p - 1) \in Nat
      <4>1. /\ End(h, f, p - 1) = Start(h, f, p) /\ Start(h, f, p) \in Nat
            /\ Start(h, f, p) <= Len(f) /\ Start(h, f, p - 1) \in Nat
        BY <3>1, Ordered
      <4>2. CASE p - 1 = pos
        BY <1>2, <4>1, <4>2 DEF s
      <4>3. CASE pos \in 0 .. (p - 1) - 1
        <5>1. End(h, f, pos) <= Start(h, f, p - 1)
          BY <3>1, <4>3, Ordered
        <5>2. pos \in 0 .. h.b - 1
          BY <1>1, <3>1, <4>3
        <5>3. Bank(h, f, pos).num \in Nat
          BY <5>2, Ordered
        <5>4. s <= End(h, f, pos) /\ End(h, f, pos) \in Nat
          BY <1>2, <5>3 DEF End, s
        <5> QED BY <1>2, <4>1, <5>1, <5>4
      <4> QED BY <3>1, <4>1, <4>2, <4>3
    <3>3. \A q \in Start(h, f, p - 1) .. End(h, f, p - 1) - 1 : At(g, q + 2) = At(f, q)
      <4>1. \A q \in Start(h, f, p - 1) .. End(h, f, p - 1) - 1 : q \in s .. Len(f) - 1
        <5> DEFINE y == Start(h, f, p - 1)
                   z == End(h, f, p - 1)
                   L == Len(f)
        <5>1. s \in Nat /\ y \in Nat /\ z \in Nat /\ L \in Nat /\ s <= y /\ z <= L
          BY <1>1, <1>2, <3>2
        <5> HIDE DEF y, z, L
        <5>2. \A q \in y .. z - 1 : q \in s .. L - 1
          BY <5>1
        <5> QED BY <5>2 DEF y, z, L
      <4> QED BY <1>14, <4>1
    <3>4. Start(k, g, p) = Start(h, f, p - 1) + 2
      BY <1>15, <2>1, <3>1
    <3> QED BY <2>1, <3>1, <3>3, <3>4, BankMoved
  <2> QED BY <2>2, <2>3
<1>17. Bank(k, g, pos) = item
  <2>1. Start(k, g, pos) = s + 1
    BY <1>1, <1>15 DEF s
  <2> QED BY <1>13, <2>1 DEF Bank
<1>18. ASSUME NEW p \in 0 .. k.b - 1
       PROVE  LET bank == At(g, Start(k, g, p))
              IN  /\ bank.kind = "bank" /\ bank.num \in 0 .. MaxEntries
                  /\ Start(k, g, p + 1) = Start(k, g, p) + 1 + bank.num
                  /\ \A e \in 0 .. bank.num - 1 : At(g, EntryPos(k, g, p, e)).kind = "entry"
  <2>1. /\ p \in 0 .. h.b /\ p \in 0 .. h.b + 1 /\ p + 1 \in 0 .. h.b + 1
        /\ p \in Nat /\ (p + 1) - 1 = p
    BY <1>1
  <2>2. CASE p < pos
    <3>1. p \in 0 .. h.b - 1 /\ p <= pos /\ p + 1 <= pos
      BY <1>1, <2>1, <2>2
    <3>2. BankAs(h, f, p, k, g, p)
      BY <1>16, <2>1, <2>2 DEF BankPut
    <3>3. /\ Start(h, f, p) \in Nat /\ Bank(h, f, p).num \in Nat
          /\ Start(h, f, p + 1) = Start(h, f, p) + 1 + Bank(h, f, p).num
      BY <2>1, <3>1, Ordered DEF End
    <3>4. Start(k, g, p) = Start(h, f, p) + 1 /\ Start(k, g, p + 1) = Start(h, f, p + 1) + 1
      BY <1>15, <2>1, <3>1
    <3>5. Start(k, g, p + 1) = Start(k, g, p) + 1 + Bank(h, f, p).num
      <4> DEFINE y == Start(h, f, p)
                 z == Start(h, f, p + 1)
                 m == Bank(h, f, p).num
      <4>1. y \in Nat /\ m \in Nat /\ z = y + 1 + m
        BY <3>3
      <4> HIDE DEF y, z, m
      <4>2. z + 1 = (y + 1) + 1 + m
        BY <4>1
      <4> QED BY <3>4, <4>2 DEF y, z, m
    <3> QED BY <3>1, <3>2, <3>5, BankShape
  <2>3. CASE p = pos
    <3>1. p <= pos /\ ~ (p + 1 <= pos)
      BY <1>1, <2>3
    <3>2. Start(k, g, p) = s + 1 /\ Start(k, g, p + 1) = s + 2
      BY <1>15, <2>1, <2>3, <3>1 DEF s
    <3>3. At(g, Start(k, g, p)) = item
      BY <1>17, <2>3 DEF Bank
    <3>4. Start(k, g, p + 1) = Start(k, g, p) + 1 + 0
      BY <1>2, <3>2
    <3>5. 0 \in 0 .. MaxEntries
      BY BoundAssumption
    <3>6. 0 .. 0 - 1 = {}
      OBVIOUS
    <3> QED BY <1>5, <3>3, <3>4, <3>5, <3>6
  <2>4. CASE p > pos
    <3>1. p - 1 \in 0 .. h.b - 1 /\ ~ (p <= pos) /\ ~ (p + 1 <= pos) /\ (p - 1) + 1 = p
      BY <1>1, <2>1, <2>4
    <3>2. BankAs(h, f, p - 1, k, g, p)
      BY <1>16, <2>1, <2>4 DEF BankPut
    <3>3. /\ Start(h, f, p - 1) \in Nat /\ Bank(h, f, p - 1).num \in Nat
          /\ Start(h, f, p) = Start(h, f, p - 1) + 1 + Bank(h, f, p - 1).num
      <4>1. p - 1 \in 0 .. h.b
        BY <1>1, <3>1
      <4> QED BY <3>1, <4>1, Ordered DEF End
    <3>4. Start(k, g, p) = Start(h, f, p - 1) + 2 /\ Start(k, g, p + 1) = Start(h, f, p) + 2
      BY <1>15, <2>1, <3>1
    <3>5. Start(k, g, p + 1) = Start(k, g, p) + 1 + Bank(h, f, p - 1).num
      <4> DEFINE y == Start(h, f, p - 1)
                 m == Bank(h, f, p - 1).num
      <4>1. /\ y \in Nat /\ m \in Nat
            /\ Start(k, g, p + 1) = (y + 1 + m) + 2 /\ Start(k, g, p) = y + 2
        BY <3>3, <3>4
      <4> HIDE DEF y, m
      <4>2. Start(k, g, p + 1) = Start(k, g, p) + 1 + m
        BY <4>1
      <4> QED BY <4>2 DEF m
    <3> QED BY <3>1, <3>2, <3>5, BankShape
  <2> QED BY <1>1, <2>1, <2>2, <2>3, <2>4
<1>19. \A q \in 0 .. c - 1 : At(g, q) = At(f, q)
  <2>1. \A q \in 0 .. c - 1 : q \in 0 .. s
    BY <1>1, <1>2
  <2> QED BY <1>9, <1>13, <2>1
<1>20. Start(k, g, 0) = k.ct + k.ch + k.b
  <2>1. 0 \in 0 .. h.b + 1 /\ 0 <= pos /\ k.ct + k.ch + k.b = c + h.b + 1
    BY <1>1
  <2>2. Start(h, f, 0) = c + h.b
    BY DEF Layout
  <2> QED BY <1>15, <2>1, <2>2
<1>21. /\ \A p \in 0 .. k.ct - 1 : At(g, p).kind = "contact"
       /\ \A p \in 0 .. k.ch - 1 : At(g, ChannelPos(k, p)).kind = "channel"
       /\ \A p \in 0 .. k.b - 1 : At(g, OffsetPos(k, p)).kind = "offset"
  <2>1. ASSUME NEW p \in 0 .. k.ct - 1 PROVE At(g, p).kind = "contact"
    <3>1. p \in 0 .. c - 1 /\ p \in 0 .. h.ct - 1
      BY DEF Headers
    <3> QED BY <1>19, <3>1 DEF Layout
  <2>2. ASSUME NEW p \in 0 .. k.ch - 1 PROVE At(g, ChannelPos(k, p)).kind = "channel"
    <3>1. /\ ChannelPos(k, p) = ChannelPos(h, p) /\ ChannelPos(h, p) \in 0 .. c - 1
          /\ p \in 0 .. h.ch - 1
      BY DEF Headers, ChannelPos
    <3> QED BY <1>19, <3>1 DEF Layout
  <2>3. ASSUME NEW p \in 0 .. k.b - 1 PROVE At(g, OffsetPos(k, p)).kind = "offset"
    <3>1. p \in 0 .. h.b /\ p \in Nat /\ p <= h.b
      BY <1>1
    <3>2. c + p \in 0 .. s
      <4> HIDE DEF c
      <4>1. 0 <= c + p /\ c + p <= s /\ c + p \in Int
        BY <1>1, <1>2, <3>1
      <4> QED BY <1>2, <4>1
    <3> QED BY <1>1, <1>10, <1>13, <3>1, <3>2
  <2> QED BY <2>1, <2>2, <2>3
<1>22. Layout(k, g)
  BY <1>18, <1>20, <1>21 DEF Layout
<1>23. OffsetsRaised(k, i, at + 1) = r
  BY DEF OffsetsRaised, r, P
<1>24. g = Inserted(r, BankDataOffset(k, r, pos), item)
  BY DEF g, x
<1>25. i = Inserted(f, at, Number("offset", new))
  BY DEF i, off
<1>26. /\ g \in Seq(Items) /\ Layout(k, g)
       /\ \A q \in 0 .. h.ct + h.ch - 1 : At(g, q) = At(f, q)
       /\ BankPut(h, f, k, g, pos) /\ Bank(k, g, pos) = item
  <2>1. g \in Seq(Items)
    BY <1>12
  <2>2. \A q \in 0 .. h.ct + h.ch - 1 : At(g, q) = At(f, q)
    <3>1. h.ct + h.ch - 1 = c - 1
      BY DEF Headers
    <3> QED BY <1>19, <3>1
  <2> QED BY <1>16, <1>17, <1>22, <2>1, <2>2
<1> QED BY <1>23, <1>24, <1>25, <1>26, Zenon DEF new, item, at

(* A number more in one bank: its count is raised, and the banks behind    *)
(* move.                                                                   *)
(* The new entry is between the old ones, which are all there.             *)
EntryPut(h, f, g, bank, pos, entry) ==
  \A e \in 0 .. Bank(h, f, bank).num :
    LET new == At(g, EntryPos(h, g, bank, e))
    IN  /\ e < pos => new = At(f, EntryPos(h, f, bank, e))
        /\ e = pos => new = entry
        /\ e > pos => new = At(f, EntryPos(h, f, bank, e - 1))

LEMMA EntryInserted ==
  ASSUME NEW h \in Headers, NEW f \in Seq(Items), Layout(h, f),
         NEW ch \in Int, NEW bank \in 0 .. h.b - 1,
         NEW pos \in 0 .. Bank(h, f, bank).num, Bank(h, f, bank).num < MaxEntries
  PROVE  LET r     == OffsetsRaised(h, f, OffsetPos(h, bank + 1))
             a     == BankPos(h, f, bank)
             entry == Number("entry", ch)
             g     == Inserted(Raised(r, {a}), a + 1 + pos, entry)
         IN  /\ g \in Seq(Items) /\ Layout(h, g)
             /\ \A q \in 0 .. h.ct + h.ch - 1 : At(g, q) = At(f, q)
             /\ \A p \in 0 .. h.b - 1 : p # bank => BankAs(h, f, p, h, g, p)
             /\ Bank(h, g, bank).name = Bank(h, f, bank).name
             /\ Bank(h, g, bank).num = Bank(h, f, bank).num + 1
             /\ EntryPut(h, f, g, bank, pos, entry)
<1> DEFINE c     == h.ct + h.ch
           P     == c + (bank + 1) .. h.ct + h.ch + h.b - 1
           r     == Raised(f, P)
           a     == BankPos(h, f, bank)
           r2    == Raised(r, {a})
           entry == Number("entry", ch)
           x     == a + 1 + pos
           g     == Inserted(r2, x, entry)
           m     == Bank(h, f, bank).num
           L     == Len(f)
<1>1. /\ c \in Nat /\ h.b \in Nat /\ L \in Nat
      /\ bank \in Nat /\ bank + 1 <= h.b
      /\ P = c + bank + 1 .. c + h.b - 1
      /\ \A p : OffsetPos(h, p) = c + p
  <2>1. c \in Nat /\ h.b \in Nat /\ L \in Nat /\ bank \in Nat /\ bank + 1 <= h.b
    BY DEF Headers
  <2>2. \A p : OffsetPos(h, p) = c + p
    BY DEF OffsetPos
  <2>3. c + (bank + 1) = c + bank + 1 /\ h.ct + h.ch + h.b - 1 = c + h.b - 1
    <3> HIDE DEF c
    <3>1. c + (bank + 1) = c + bank + 1
      BY <2>1
    <3> QED BY <3>1 DEF c
  <2> QED BY <2>1, <2>2, <2>3
<1>2. /\ a = Start(h, f, bank) /\ a \in Nat /\ c + h.b <= a /\ a + 1 + m <= L
      /\ m \in Nat /\ pos \in Nat /\ pos <= m /\ At(f, a) = Bank(h, f, bank)
  <2>1. bank \in 0 .. h.b /\ bank + 1 \in 0 .. h.b
    BY <1>1
  <2>2. a = Start(h, f, bank)
    BY Places
  <2>3. /\ Start(h, f, bank) \in Nat /\ c + h.b <= Start(h, f, bank)
        /\ m \in Nat /\ Start(h, f, bank + 1) = End(h, f, bank)
        /\ Start(h, f, bank + 1) <= L
    BY <2>1, Ordered
  <2> QED BY <2>2, <2>3 DEF End, Bank
<1>3. entry \in Items /\ entry.kind = "entry"
  BY KindsAndTexts, NumberType
<1>4. /\ Bank(h, f, bank).kind = "bank" /\ m \in 0 .. MaxEntries
      /\ \A e \in 0 .. m - 1 : At(f, EntryPos(h, f, bank, e)).kind = "entry"
  BY DEF Layout, Bank
<1>5. m + 1 \in 0 .. MaxEntries /\ MaxEntries \in Nat
  BY <1>4, BoundAssumption
<1>6. /\ r \in Seq(Items) /\ Len(r) = L
      /\ \A q \in 0 .. L - 1 :
           /\ At(r, q).kind = At(f, q).kind
           /\ At(r, q).name = At(f, q).name
           /\ At(r, q).num = At(f, q).num + (IF q \in P THEN 1 ELSE 0)
           /\ q \notin P => At(r, q) = At(f, q)
  <2> HIDE DEF P
  <2> QED BY RaisedIs
<1> HIDE DEF r
<1>7. /\ r2 \in Seq(Items) /\ Len(r2) = L
      /\ \A q \in 0 .. L - 1 :
           /\ At(r2, q).kind = At(r, q).kind
           /\ At(r2, q).name = At(r, q).name
           /\ At(r2, q).num = At(r, q).num + (IF q \in {a} THEN 1 ELSE 0)
           /\ q \notin {a} => At(r2, q) = At(r, q)
  <2> HIDE DEF a, L
  <2> QED BY <1>6, RaisedIs
<1> HIDE DEF a, r2, m, entry, L
<1>8. /\ x \in Nat /\ x <= L /\ a < x /\ x = a + 1 + pos
      /\ c \in Nat /\ h.b \in Nat /\ L \in Nat /\ a \in Nat /\ m \in Nat /\ pos \in Nat
      /\ c + h.b <= a /\ a + 1 + m <= L /\ pos <= m
  <2>1. /\ c \in Nat /\ h.b \in Nat /\ L \in Nat /\ a \in Nat /\ m \in Nat /\ pos \in Nat
        /\ c + h.b <= a /\ a + 1 + m <= L /\ pos <= m
    BY <1>1, <1>2
  <2> HIDE DEF c
  <2>2. x \in Nat /\ x <= L /\ a < x
    BY <2>1
  <2> QED BY <2>1, <2>2
<1> HIDE DEF x, c
<1>9. /\ g \in Seq(Items) /\ Len(g) = L + 1
      /\ \A q \in 0 .. L : At(g, q) =
           IF q < x THEN At(r2, q) ELSE IF q = x THEN entry ELSE At(r2, q - 1)
  <2>1. x \in 0 .. L
    BY <1>8
  <2>2. entry \in Items
    BY <1>3
  <2>3. r2 \in Seq(Items) /\ Len(r2) = L
    BY <1>7
  <2>4. /\ g \in Seq(Items) /\ Len(g) = Len(r2) + 1
        /\ \A q \in 0 .. Len(r2) : At(g, q) =
             IF q < x THEN At(r2, q) ELSE IF q = x THEN entry ELSE At(r2, q - 1)
    <3>1. x \in 0 .. Len(r2)
      BY <2>1, <2>3
    <3>2. r2 \in Seq(Items)
      BY <2>3
    <3> HIDE DEF P
    <3> QED BY <2>2, <3>1, <3>2, InsertedIs
  <2> HIDE DEF g
  <2> QED BY <2>3, <2>4
<1> HIDE DEF g, P
<1>10. \A q \in 0 .. x - 1 : q \in 0 .. L - 1 /\ q \in 0 .. L /\ q < x
  BY <1>8
<1>11. \A q \in 0 .. x - 1 : q \notin P /\ q # a => At(g, q) = At(f, q)
  BY <1>6, <1>7, <1>9, <1>10
<1>12. \A q \in c + h.b .. L : q \notin P
  BY <1>1
<1>13. \A q \in x .. L - 1 : At(g, q + 1) = At(f, q)
  <2> TAKE q \in x .. L - 1
  <2>1. /\ q + 1 \in 0 .. L /\ ~ (q + 1 < x) /\ q + 1 # x /\ (q + 1) - 1 = q
        /\ q \in 0 .. L - 1 /\ q # a /\ q \in c + h.b .. L
    BY <1>8
  <2> QED BY <1>6, <1>7, <1>9, <1>12, <2>1
<1>14. At(g, x) = entry
  <2>1. x \in 0 .. L /\ ~ (x < x)
    BY <1>8
  <2> QED BY <1>9, <2>1
<1>15. /\ At(g, a).kind = "bank" /\ At(g, a).name = Bank(h, f, bank).name
       /\ At(g, a).num = m + 1
  <2>1. a \in 0 .. x - 1 /\ a \in 0 .. L - 1 /\ a \in c + h.b .. L
    BY <1>8
  <2>2. a \notin P /\ At(g, a) = At(r2, a) /\ At(r, a) = At(f, a)
    BY <1>6, <1>9, <1>10, <1>12, <2>1
  <2>3. /\ At(r2, a).kind = At(f, a).kind /\ At(r2, a).name = At(f, a).name
        /\ At(r2, a).num = At(f, a).num + 1
    BY <1>7, <2>1, <2>2
  <2> QED BY <1>2, <1>4, <2>2, <2>3 DEF m
<1>16. ASSUME NEW p \in 0 .. h.b - 1
       PROVE  /\ At(g, c + p).kind = "offset" /\ At(f, c + p).num \in Int
              /\ At(g, c + p).num = At(f, c + p).num + (IF p > bank THEN 1 ELSE 0)
              /\ Start(h, f, p) = c + h.b + At(f, c + p).num
              /\ Start(h, g, p) = c + h.b + At(g, c + p).num
  <2>1. p \in Nat /\ p <= h.b - 1 /\ p < h.b
    BY <1>1
  <2>2. c + p \in 0 .. x - 1 /\ c + p # a
    <3>1. c + p \in Nat /\ c + p < a
      BY <1>8, <2>1
    <3> QED BY <1>8, <3>1
  <2>3. c + p \in P <=> p > bank
    <3>1. c + p \in Int /\ c + p <= c + h.b - 1 /\ (c + bank + 1 <= c + p <=> p > bank)
      BY <1>1, <2>1
    <3> QED BY <1>1, <3>1
  <2>4. OffsetPos(h, p) = c + p /\ OffsetPos(h, p) \in 0 .. L - 1
    BY <1>1, Places DEF L
  <2>5. At(f, c + p).kind = "offset" /\ At(f, c + p).num \in Int
    BY <2>4, ItemAt DEF Layout, L
  <2>6. At(g, c + p) = At(r, c + p)
    BY <1>7, <1>9, <1>10, <2>2
  <2>7. /\ At(r, c + p).kind = At(f, c + p).kind
        /\ At(r, c + p).num = At(f, c + p).num + (IF c + p \in P THEN 1 ELSE 0)
    BY <1>6, <1>10, <2>2
  <2>8. /\ Start(h, f, p) = c + h.b + At(f, c + p).num
        /\ Start(h, g, p) = c + h.b + At(g, c + p).num
    BY <2>1, <2>4 DEF Start, BankPos, c
  <2> QED BY <2>3, <2>5, <2>6, <2>7, <2>8
<1>17. ASSUME NEW p \in 0 .. h.b
       PROVE  Start(h, g, p) = Start(h, f, p) + (IF p > bank THEN 1 ELSE 0)
  <2>1. CASE p = h.b
    <3>1. ~ (p < h.b) /\ p > bank
      BY <1>1, <2>1
    <3> QED BY <1>9, <3>1 DEF Start, L
  <2>2. CASE p # h.b
    <3>1. p \in 0 .. h.b - 1
      BY <1>1, <2>2
    <3> DEFINE o == At(f, c + p).num
               u == IF p > bank THEN 1 ELSE 0
    <3>2. o \in Int /\ u \in Int
      BY <1>16, <3>1
    <3>3. Start(h, f, p) = c + h.b + o /\ Start(h, g, p) = c + h.b + (o + u)
      BY <1>16, <3>1
    <3> HIDE DEF o, u
    <3>4. c + h.b + (o + u) = (c + h.b + o) + u
      BY <1>1, <3>2
    <3> QED BY <3>3, <3>4 DEF u
  <2> QED BY <2>1, <2>2
<1>18. \A q \in 0 .. h.ct + h.ch - 1 : At(g, q) = At(f, q)
  <2> TAKE q \in 0 .. h.ct + h.ch - 1
  <2>1. q \in Nat /\ q <= c - 1
    BY DEF Headers, c
  <2>2. q \in 0 .. x - 1 /\ q # a
    BY <1>8, <2>1
  <2>3. q \notin P
    BY <1>1, <2>1
  <2> QED BY <1>11, <2>2, <2>3
<1>19. ASSUME NEW p \in 0 .. h.b - 1, p # bank
       PROVE  BankAs(h, f, p, h, g, p)
  <2>1. p \in 0 .. h.b /\ p + 1 \in 0 .. h.b /\ p \in Nat /\ bank \in 0 .. h.b - 1
    BY <1>1
  <2>2. /\ Start(h, f, p) \in Nat /\ c + h.b <= Start(h, f, p)
        /\ End(h, f, p) = Start(h, f, p + 1) /\ Start(h, f, p + 1) \in Nat
        /\ Start(h, f, p + 1) <= L
    BY <2>1, Ordered DEF L, c
  <2>3. CASE p < bank
    <3>1. p \in 0 .. bank - 1 /\ bank \in 0 .. h.b /\ ~ (p > bank)
      BY <1>1, <2>1, <2>3
    <3>2. End(h, f, p) <= a
      BY <1>2, <3>1, Ordered
    <3>3. \A q \in Start(h, f, p) .. End(h, f, p) - 1 : At(g, q + 0) = At(f, q)
      <4> TAKE q \in Start(h, f, p) .. End(h, f, p) - 1
      <4>1. q \in Nat /\ Start(h, f, p) <= q /\ q <= End(h, f, p) - 1
        BY <2>2
      <4>2. c + h.b <= q /\ q < a
        <5> DEFINE y == Start(h, f, p)
                   z == End(h, f, p)
        <5>1. y \in Nat /\ z \in Nat /\ c + h.b <= y /\ z <= a /\ y <= q /\ q <= z - 1
          BY <2>2, <3>2, <4>1
        <5> HIDE DEF y, z
        <5> QED BY <1>8, <4>1, <5>1
      <4>3. q \in 0 .. x - 1 /\ q # a /\ q \in c + h.b .. L /\ q + 0 = q
        BY <1>8, <4>1, <4>2
      <4> QED BY <1>11, <1>12, <4>3
    <3>4. Start(h, g, p) = Start(h, f, p) + 0
      BY <1>17, <2>1, <3>1
    <3>5. 0 \in Nat
      OBVIOUS
    <3> QED BY <2>1, <3>3, <3>4, <3>5, BankMoved
  <2>4. CASE p > bank
    <3>1. bank \in 0 .. p - 1
      BY <1>1, <2>1, <2>4
    <3>2. a + 1 + m <= Start(h, f, p)
      BY <1>2, <2>1, <3>1, Ordered DEF End, m
    <3>3. \A q \in Start(h, f, p) .. End(h, f, p) - 1 : At(g, q + 1) = At(f, q)
      <4> TAKE q \in Start(h, f, p) .. End(h, f, p) - 1
      <4>1. q \in Nat /\ Start(h, f, p) <= q /\ q <= End(h, f, p) - 1
        BY <2>2
      <4>2. a + 1 + m <= q /\ q < L
        <5> DEFINE y == Start(h, f, p)
                   z == End(h, f, p)
        <5>1. /\ y \in Nat /\ z \in Nat /\ a + 1 + m <= y /\ z <= L
              /\ y <= q /\ q <= z - 1
          BY <2>2, <3>2, <4>1
        <5> HIDE DEF y, z
        <5> QED BY <1>8, <4>1, <5>1
      <4>3. q \in x .. L - 1
        BY <1>8, <4>1, <4>2
      <4> QED BY <1>13, <4>3
    <3>4. Start(h, g, p) = Start(h, f, p) + 1
      BY <1>17, <2>1, <2>4
    <3>5. 1 \in Nat
      OBVIOUS
    <3> QED BY <2>1, <3>3, <3>4, <3>5, BankMoved
  <2>5. p < bank \/ p > bank
    BY <1>1, <1>19, <2>1
  <2> QED BY <2>3, <2>4, <2>5
<1>20. Start(h, g, bank) = a /\ Bank(h, g, bank) = At(g, a)
  <2>1. bank \in 0 .. h.b /\ ~ (bank > bank)
    BY <1>1
  <2> QED BY <1>2, <1>17, <2>1 DEF Bank
<1>21. \A e : EntryPos(h, g, bank, e) = a + 1 + e /\ EntryPos(h, f, bank, e) = a + 1 + e
  <2>1. bank < h.b
    BY <1>1
  <2> QED BY <1>2, <1>20, <2>1 DEF EntryPos, Start
<1>22. ASSUME NEW e \in 0 .. m
       PROVE  /\ At(g, EntryPos(h, g, bank, e)) =
                   IF e < pos THEN At(f, EntryPos(h, f, bank, e))
                   ELSE IF e = pos THEN entry
                   ELSE At(f, EntryPos(h, f, bank, e - 1))
              /\ At(g, EntryPos(h, g, bank, e)).kind = "entry"
  <2>1. e \in Nat /\ e <= m
    BY <1>8
  <2>2. CASE e < pos
    <3>1. a + 1 + e \in 0 .. x - 1 /\ a + 1 + e # a /\ e \in 0 .. m - 1
      BY <1>8, <2>1, <2>2
    <3>2. a + 1 + e \notin P
      <4>1. a + 1 + e \in c + h.b .. L
        BY <1>8, <2>1
      <4> QED BY <1>12, <4>1
    <3>3. At(g, a + 1 + e) = At(f, a + 1 + e)
      BY <1>11, <3>1, <3>2
    <3> QED BY <1>4, <1>21, <2>2, <3>1, <3>3
  <2>3. CASE e = pos
    <3>1. a + 1 + e = x /\ ~ (e < pos)
      BY <1>2, <1>8, <2>3
    <3> QED BY <1>3, <1>14, <1>21, <2>3, <3>1
  <2>4. CASE e > pos
    <3>1. /\ a + 1 + (e - 1) \in x .. L - 1 /\ e - 1 \in 0 .. m - 1
          /\ (a + 1 + (e - 1)) + 1 = a + 1 + e /\ ~ (e < pos) /\ e # pos
      BY <1>8, <2>1, <2>4
    <3>2. At(g, a + 1 + e) = At(f, a + 1 + (e - 1))
      BY <1>13, <3>1
    <3> QED BY <1>4, <1>21, <3>1, <3>2
  <2> QED BY <1>8, <2>1, <2>2, <2>3, <2>4
<1>23. ASSUME NEW p \in 0 .. h.b - 1
       PROVE  LET b == At(g, Start(h, g, p))
              IN  /\ b.kind = "bank" /\ b.num \in 0 .. MaxEntries
                  /\ Start(h, g, p + 1) = Start(h, g, p) + 1 + b.num
                  /\ \A e \in 0 .. b.num - 1 : At(g, EntryPos(h, g, p, e)).kind = "entry"
  <2>1. p \in 0 .. h.b /\ p + 1 \in 0 .. h.b /\ p \in Nat
    BY <1>1
  <2>2. /\ Start(h, f, p) \in Nat /\ Bank(h, f, p).num \in Nat
        /\ Start(h, f, p + 1) = Start(h, f, p) + 1 + Bank(h, f, p).num
    BY <2>1, Ordered DEF End
  <2>3. CASE p = bank
    <3>1. p + 1 > bank /\ Start(h, g, p + 1) = Start(h, f, p + 1) + 1
      BY <1>1, <1>17, <2>1, <2>3
    <3>2. Start(h, f, p + 1) = a + 1 + m
      BY <1>2, <2>2, <2>3 DEF m
    <3>3. Start(h, g, p + 1) = a + 1 + (m + 1)
      BY <1>2, <3>1, <3>2
    <3>4. (m + 1) - 1 = m
      BY <1>2
    <3> QED BY <1>5, <1>15, <1>20, <1>22, <2>3, <3>3, <3>4
  <2>4. CASE p # bank
    <3>1. p + 1 > bank <=> p > bank
      BY <1>1, <2>1, <2>4
    <3>2. /\ Start(h, g, p) = Start(h, f, p) + (IF p > bank THEN 1 ELSE 0)
          /\ Start(h, g, p + 1) = Start(h, f, p + 1) + (IF p > bank THEN 1 ELSE 0)
      BY <1>17, <2>1, <3>1
    <3>3. Start(h, g, p + 1) = Start(h, g, p) + 1 + Bank(h, f, p).num
      BY <2>2, <3>2
    <3>4. BankAs(h, f, p, h, g, p)
      BY <1>19, <2>4
    <3> QED BY <3>3, <3>4, BankShape
  <2> QED BY <2>3, <2>4
<1>24. Start(h, g, 0) = h.ct + h.ch + h.b
  <2>1. 0 \in 0 .. h.b /\ ~ (0 > bank)
    BY <1>1
  <2>2. Start(h, g, 0) = Start(h, f, 0) + 0 /\ Start(h, f, 0) = h.ct + h.ch + h.b
    BY <1>17, <2>1 DEF Layout
  <2>3. h.ct + h.ch + h.b \in Nat
    BY DEF Headers
  <2> QED BY <2>2, <2>3
<1>25. /\ \A p \in 0 .. h.ct - 1 : At(g, p).kind = "contact"
       /\ \A p \in 0 .. h.ch - 1 : At(g, ChannelPos(h, p)).kind = "channel"
       /\ \A p \in 0 .. h.b - 1 : At(g, OffsetPos(h, p)).kind = "offset"
  <2>1. \A p \in 0 .. h.ct - 1 : p \in 0 .. h.ct + h.ch - 1
    BY DEF Headers
  <2>2. \A p \in 0 .. h.ch - 1 : ChannelPos(h, p) \in 0 .. h.ct + h.ch - 1
    BY DEF Headers, ChannelPos
  <2>3. \A p \in 0 .. h.ct - 1 : At(g, p).kind = "contact"
    BY <1>18, <2>1 DEF Layout
  <2>4. \A p \in 0 .. h.ch - 1 : At(g, ChannelPos(h, p)).kind = "channel"
    BY <1>18, <2>2 DEF Layout
  <2>5. \A p \in 0 .. h.b - 1 : At(g, OffsetPos(h, p)).kind = "offset"
    BY <1>1, <1>16
  <2> QED BY <2>3, <2>4, <2>5
<1>26. Layout(h, g)
  BY <1>23, <1>24, <1>25 DEF Layout
<1>27. /\ g \in Seq(Items) /\ Layout(h, g)
       /\ \A q \in 0 .. h.ct + h.ch - 1 : At(g, q) = At(f, q)
       /\ \A p \in 0 .. h.b - 1 : p # bank => BankAs(h, f, p, h, g, p)
       /\ Bank(h, g, bank).name = Bank(h, f, bank).name
       /\ Bank(h, g, bank).num = Bank(h, f, bank).num + 1
       /\ EntryPut(h, f, g, bank, pos, entry)
  <2>1. /\ Bank(h, g, bank).name = Bank(h, f, bank).name
        /\ Bank(h, g, bank).num = Bank(h, f, bank).num + 1
    BY <1>15, <1>20 DEF m
  <2>2. EntryPut(h, f, g, bank, pos, entry)
    <3>1. \A e \in 0 .. m : /\ e = pos => ~ (e < pos)
                           /\ e > pos => ~ (e < pos) /\ e # pos
      BY <1>2
    <3> QED BY <1>22, <3>1 DEF EntryPut, m
  <2> QED BY <1>9, <1>18, <1>19, <1>26, <2>1, <2>2
<1>28. OffsetsRaised(h, f, OffsetPos(h, bank + 1)) = r
  BY <1>1 DEF OffsetsRaised, r, P, c
<1>29. g = Inserted(Raised(r, {a}), a + 1 + pos, entry)
  BY DEF g, r2, x
<1> QED BY <1>27, <1>28, <1>29, Zenon DEF a, entry, m

(* An item overwritten by one of its own kind.                             *)
LEMMA OverwrittenSame ==
  ASSUME NEW h \in Headers, NEW f \in Seq(Items), Layout(h, f),
         NEW p \in 0 .. Len(f) - 1, NEW item \in Items,
         item.kind = At(f, p).kind, At(f, p).kind \notin {"offset", "bank"}
  PROVE  LET g == Overwritten(f, p, item)
         IN  /\ g \in Seq(Items) /\ Layout(h, g) /\ Len(g) = Len(f)
             /\ At(g, p) = item
             /\ \A q \in 0 .. Len(f) - 1 : q # p => At(g, q) = At(f, q)
             /\ \A q \in 0 .. h.b : Start(h, g, q) = Start(h, f, q)
<1> DEFINE g == Overwritten(f, p, item)
<1>1. /\ g \in Seq(Items) /\ Len(g) = Len(f)
      /\ At(g, p) = item
      /\ \A q \in 0 .. Len(f) - 1 : q # p => At(g, q) = At(f, q)
  <2>1. g \in Seq(Items)
    BY OverwrittenIs
  <2>2. Len(g) = Len(f)
    BY OverwrittenIs
  <2>3. At(g, p) = item
    BY OverwrittenIs
  <2>4. \A q \in 0 .. Len(f) - 1 : q # p => At(g, q) = At(f, q)
    BY OverwrittenIs
  <2> QED BY <2>1, <2>2, <2>3, <2>4
<1> HIDE DEF g
<1>2. \A q \in 0 .. Len(f) - 1 :
        /\ At(g, q).kind = At(f, q).kind
        /\ At(f, q).kind \in {"offset", "bank"} => At(g, q).num = At(f, q).num
  BY <1>1
<1>3. /\ Layout(h, g)
      /\ \A q \in 0 .. h.b : Start(h, g, q) = Start(h, f, q)
  BY <1>1, <1>2, SameShape
<1> QED BY <1>1, <1>3 DEF g

-----------------------------------------------------------------------------
(* LaidOut is an invariant: it is inductive by itself, for every call      *)
(* needs all of the layout to find what it has to correct.                 *)

HeaderTypes == [ct : 0 .. MaxContacts, ch : 0 .. MaxChannels, b : 0 .. MaxBanks]

LEMMA HeaderType ==
  ASSUME NEW h \in HeaderTypes
  PROVE  /\ h \in Headers
         /\ h.ct \in Nat /\ h.ch \in Nat /\ h.b \in Nat
<1>1. MaxContacts \in Nat /\ MaxChannels \in Nat /\ MaxBanks \in Nat
  BY BoundAssumption
<1> QED BY <1>1 DEF HeaderTypes, Headers

LEMMA HeaderRaised ==
  ASSUME NEW h \in HeaderTypes
  PROVE  /\ h.ct < MaxContacts =>
              LET k == [h EXCEPT !.ct = @ + 1]
              IN  k \in HeaderTypes /\ k.ct = h.ct + 1 /\ k.ch = h.ch /\ k.b = h.b
         /\ h.ch < MaxChannels =>
              LET k == [h EXCEPT !.ch = @ + 1]
              IN  k \in HeaderTypes /\ k.ct = h.ct /\ k.ch = h.ch + 1 /\ k.b = h.b
         /\ h.b < MaxBanks =>
              LET k == [h EXCEPT !.b = @ + 1]
              IN  k \in HeaderTypes /\ k.ct = h.ct /\ k.ch = h.ch /\ k.b = h.b + 1
<1>1. MaxContacts \in Nat /\ MaxChannels \in Nat /\ MaxBanks \in Nat
  BY BoundAssumption
<1> QED BY <1>1 DEF HeaderTypes

LEMMA InitLaidOut == Init => LaidOut
<1> SUFFICES ASSUME Init PROVE LaidOut
  OBVIOUS
<1>1. header = Empty /\ file = <<>> /\ sound = TRUE /\ ret = 0
  BY DEF Init
<1>2. Empty \in HeaderTypes /\ Empty.ct = 0 /\ Empty.ch = 0 /\ Empty.b = 0
  BY BoundAssumption DEF Empty, HeaderTypes
<1>3. <<>> \in Seq(Items) /\ Len(<<>>) = 0
  OBVIOUS
<1>4. Start(Empty, <<>>, 0) = 0
  BY <1>2, <1>3 DEF Start
<1>5. Layout(Empty, <<>>)
  <2>1. 0 .. 0 - 1 = {} /\ 0 + 0 + 0 = 0
    OBVIOUS
  <2> QED BY <1>2, <1>4, <2>1 DEF Layout
<1> QED BY <1>1, <1>2, <1>3, <1>5 DEF LaidOut, HeaderTypes

LEMMA CreateLaidOut == create => LaidOut'
<1> SUFFICES ASSUME create PROVE LaidOut'
  OBVIOUS
<1>1. header' = Empty /\ file' = <<>> /\ sound' = TRUE /\ ret' = 0
  BY DEF create
<1>2. Empty \in HeaderTypes /\ Empty.ct = 0 /\ Empty.ch = 0 /\ Empty.b = 0
  BY BoundAssumption DEF Empty, HeaderTypes
<1>3. <<>> \in Seq(Items) /\ Len(<<>>) = 0
  OBVIOUS
<1>4. Start(Empty, <<>>, 0) = 0
  BY <1>2, <1>3 DEF Start
<1>5. Layout(Empty, <<>>)
  <2>1. 0 .. 0 - 1 = {} /\ 0 + 0 + 0 = 0
    OBVIOUS
  <2> QED BY <1>2, <1>4, <2>1 DEF Layout
<1> QED BY <1>1, <1>2, <1>3, <1>5 DEF LaidOut, HeaderTypes

(* What LaidOut says as long as no call has damaged the file.              *)
LEMMA SoundState ==
  ASSUME LaidOut, sound
  PROVE  /\ header \in HeaderTypes /\ header \in Headers
         /\ header.ct \in Nat /\ header.ch \in Nat /\ header.b \in Nat
         /\ file \in Seq(Items) /\ Layout(header, file)
         /\ sound = TRUE
<1>1. header \in HeaderTypes /\ file \in Seq(Items) /\ Layout(header, file) /\ sound = TRUE
  BY DEF LaidOut, HeaderTypes
<1> QED BY <1>1, HeaderType

(* What a call does that does not return 0.                                *)
SpoilsOffsets(bank, pos) ==
  /\ bank < header.b /\ pos > At(file, BankPos(header, file, bank)).num
  /\ ret' = -1 /\ header' = header
  /\ file' = OffsetsRaised(header, file, OffsetPos(header, bank + 1))
  /\ sound' = (sound /\ bank = header.b - 1)

LEMMA Answered ==
  ASSUME NEW n, NEW ct, NEW ch, NEW bank, NEW pos
  PROVE  /\ insertContact(n, pos) => ret' = 0 \/ (pos > header.ct /\ Refused)
         /\ insertChannel(n, ct, pos) => ret' = 0 \/ (pos > header.ch /\ Refused)
         /\ insertBankHeader(n, pos) => ret' = 0 \/ (pos > header.b /\ Refused)
         /\ insertBankData(ch, bank, pos) =>
              ret' = 0 \/ SpoilsOffsets(bank, pos) \/ (bank >= header.b /\ Refused)
         /\ writeContact(n, pos) => ret' = 0 \/ (pos >= header.ct /\ Refused)
         /\ writeChannel(n, ct, pos) => ret' = 0 \/ (pos >= header.ch /\ Refused)
         /\ writeBankHeader(n, pos) => (ret' = 0 /\ sound' = FALSE) \/ Refused
         /\ writeBankData(ch, bank, pos) =>
              \/ ret' = 0
              \/ bank < header.b /\ ~ Writable(header, file, bank, pos) /\ Refused
              \/ bank >= header.b /\ Refused
<1>1. insertContact(n, pos) => ret' = 0 \/ (pos > header.ct /\ Refused)
  BY Zenon DEF insertContact
<1>2. insertChannel(n, ct, pos) => ret' = 0 \/ (pos > header.ch /\ Refused)
  BY Zenon DEF insertChannel
<1>3. insertBankHeader(n, pos) => ret' = 0 \/ (pos > header.b /\ Refused)
  BY Zenon DEF insertBankHeader
<1>4. insertBankData(ch, bank, pos) =>
        ret' = 0 \/ SpoilsOffsets(bank, pos) \/ (bank >= header.b /\ Refused)
  BY Zenon DEF insertBankData, SpoilsOffsets
<1>5. writeContact(n, pos) => ret' = 0 \/ (pos >= header.ct /\ Refused)
  BY Zenon DEF writeContact
<1>6. writeChannel(n, ct, pos) => ret' = 0 \/ (pos >= header.ch /\ Refused)
  BY Zenon DEF writeChannel
<1>7. writeBankHeader(n, pos) => (ret' = 0 /\ sound' = FALSE) \/ Refused
  BY Zenon DEF writeBankHeader
<1>8. writeBankData(ch, bank, pos) =>
        \/ ret' = 0
        \/ bank < header.b /\ ~ Writable(header, file, bank, pos) /\ Refused
        \/ bank >= header.b /\ Refused
  BY Zenon DEF writeBankData
<1> QED BY <1>1, <1>2, <1>3, <1>4, <1>5, <1>6, <1>7, <1>8

LEMMA RefusedStep == LaidOut /\ Refused => LaidOut'
BY DEF LaidOut, Refused

LEMMA insertContactStep ==
  ASSUME LaidOut, sound, NEW n \in Names, NEW pos \in Positions, insertContact(n, pos), ret' = 0
  PROVE  LaidOut'
<1> DEFINE h == [header EXCEPT !.ct = @ + 1]
           g == CtNumbering(h, Inserted(file, pos, Item("contact", n, 0)), pos)
<1>1. /\ pos <= header.ct /\ header.ct < MaxContacts
      /\ header' = h /\ file' = g /\ sound' = sound
  BY DEF Refused, insertContact
<1>2. /\ header \in HeaderTypes /\ header \in Headers /\ header.ct \in Nat
      /\ file \in Seq(Items) /\ Layout(header, file) /\ sound = TRUE
  BY SoundState
<1>3. h \in HeaderTypes /\ h.ct = header.ct + 1 /\ h.ch = header.ch /\ h.b = header.b
  BY <1>1, <1>2, HeaderRaised
<1>4. h \in Headers
  BY <1>3, HeaderType
<1>5. pos \in 0 .. header.ct
  BY <1>1, <1>2, BoundAssumption DEF Positions
<1> HIDE DEF h
<1>6. g \in Seq(Items) /\ Layout(h, g)
  BY <1>2, <1>3, <1>4, <1>5, ContactInserted
<1> QED BY <1>1, <1>2, <1>3, <1>6 DEF LaidOut, HeaderTypes

LEMMA insertChannelStep ==
  ASSUME LaidOut, sound, NEW n \in Names, NEW ct \in Contacts, NEW pos \in Positions,
         insertChannel(n, ct, pos), ret' = 0
  PROVE  LaidOut'
<1> DEFINE h == [header EXCEPT !.ch = @ + 1]
           f == Inserted(file, ChannelPos(header, pos), Item("channel", n, ct))
           g == ChNumbering(h, f, pos)
<1>1. /\ pos <= header.ch /\ header.ch < MaxChannels
      /\ header' = h /\ file' = g /\ sound' \in BOOLEAN
  BY DEF Refused, insertChannel
<1>2. /\ header \in HeaderTypes /\ header \in Headers
      /\ header.ct \in Nat /\ header.ch \in Nat
      /\ file \in Seq(Items) /\ Layout(header, file) /\ sound = TRUE
  BY SoundState
<1>3. h \in HeaderTypes /\ h.ct = header.ct /\ h.ch = header.ch + 1 /\ h.b = header.b
  BY <1>1, <1>2, HeaderRaised
<1>4. h \in Headers
  BY <1>3, HeaderType
<1>5. pos \in 0 .. header.ch /\ ct \in Int
  BY <1>1, <1>2, BoundAssumption DEF Positions, Contacts
<1> HIDE DEF h
<1>6. f \in Seq(Items) /\ Layout(h, f)
  BY <1>2, <1>3, <1>4, <1>5, ChannelInserted
<1> HIDE DEF f
<1>7. g \in Seq(Items) /\ Layout(h, g)
  <2> DEFINE updated == {EntryPos(h, f, be[1], be[2]) :
                           be \in {x \in Entries(h, f) : Writable(h, f, x[1], x[2])}}
             P == {p \in updated : At(f, p).num >= pos}
  <2>1. P \in SUBSET {EntryPos(h, f, be[1], be[2]) : be \in Entries(h, f)}
    OBVIOUS
  <2>2. g = Raised(f, P)
    BY DEF ChNumbering
  <2> HIDE DEF P, g
  <2> QED BY <1>4, <1>6, <2>1, <2>2, EntriesRaised
<1> QED BY <1>1, <1>3, <1>7 DEF LaidOut, HeaderTypes

LEMMA insertBankHeaderStep ==
  ASSUME LaidOut, sound, NEW n \in Names, NEW pos \in Positions, insertBankHeader(n, pos), ret' = 0
  PROVE  LaidOut'
<1> DEFINE h    == [header EXCEPT !.b = @ + 1]
           at   == OffsetPos(header, pos)
           new  == BankDataOffset(header, file, pos) - BankDataOffset(header, file, 0)
           r    == OffsetsRaised(h, Inserted(file, at, Number("offset", new)), at + 1)
           g    == Inserted(r, BankDataOffset(h, r, pos), Item("bank", n, 0))
<1>1. /\ pos <= header.b /\ header.b < MaxBanks
      /\ header' = h /\ file' = g /\ sound' = sound
  BY DEF Refused, insertBankHeader
<1>2. /\ header \in HeaderTypes /\ header \in Headers /\ header.b \in Nat
      /\ file \in Seq(Items) /\ Layout(header, file) /\ sound = TRUE
  BY SoundState
<1>3. h \in HeaderTypes /\ h.ct = header.ct /\ h.ch = header.ch /\ h.b = header.b + 1
  BY <1>1, <1>2, HeaderRaised
<1>4. h \in Headers
  BY <1>3, HeaderType
<1>5. pos \in 0 .. header.b
  BY <1>1, <1>2, BoundAssumption DEF Positions
<1> HIDE DEF h
<1>6. g \in Seq(Items) /\ Layout(h, g)
  BY <1>2, <1>3, <1>4, <1>5, BankInserted, Zenon
<1> QED BY <1>1, <1>2, <1>3, <1>6 DEF LaidOut, HeaderTypes

(* No offset is behind that of the last bank.                              *)
LEMMA NothingRaised ==
  ASSUME NEW h \in Headers, NEW f \in Seq(Items)
  PROVE  OffsetsRaised(h, f, OffsetPos(h, h.b)) = f
<1> DEFINE P == OffsetPos(h, h.b) .. h.ct + h.ch + h.b - 1
<1>1. P = {}
  <2> DEFINE c == h.ct + h.ch
             b == h.b
  <2>1. c \in Nat /\ b \in Nat /\ P = c + b .. c + b - 1
    BY DEF OffsetPos, Headers
  <2> HIDE DEF c, b, P
  <2> QED BY <2>1
<1>2. OffsetsRaised(h, f, OffsetPos(h, h.b)) = Raised(f, P)
  BY DEF OffsetsRaised
<1>3. Raised(f, {}) = f
  BY DEF Raised
<1> QED BY <1>1, <1>2, <1>3

LEMMA insertBankDataStep ==
  ASSUME LaidOut, sound, NEW ch \in Channels, NEW bank \in 0 .. MaxBanks,
         NEW pos \in Positions, insertBankData(ch, bank, pos), ret' = 0
  PROVE  LaidOut'
<1> DEFINE f == OffsetsRaised(header, file, OffsetPos(header, bank + 1))
           a == BankPos(header, file, bank)
           g == Inserted(Raised(f, {a}), a + 1 + pos, Number("entry", ch))
<1>1. /\ bank < header.b /\ At(file, a).num < MaxEntries /\ pos <= At(file, a).num
      /\ header' = header /\ file' = g /\ sound' = sound
  BY DEF Refused, insertBankData
<1>2. /\ header \in HeaderTypes /\ header \in Headers
      /\ header.ct \in Nat /\ header.ch \in Nat /\ header.b \in Nat
      /\ file \in Seq(Items) /\ Layout(header, file) /\ sound = TRUE
  BY SoundState
<1>3. bank \in 0 .. header.b - 1 /\ ch \in Int /\ pos \in Nat
  BY <1>1, <1>2, BoundAssumption DEF Channels, Positions
<1>4. At(file, a) = Bank(header, file, bank) /\ Bank(header, file, bank).num \in Nat
  BY <1>2, <1>3, Places DEF Bank
<1>5. pos \in 0 .. Bank(header, file, bank).num
  BY <1>1, <1>3, <1>4
<1>6. Bank(header, file, bank).num < MaxEntries
  BY <1>1, <1>4
<1>7. g \in Seq(Items) /\ Layout(header, g)
  BY <1>2, <1>3, <1>5, <1>6, EntryInserted, Zenon
<1> QED BY <1>1, <1>2, <1>7 DEF LaidOut, HeaderTypes

(* Refused behind its last entry, a call spoils the offsets of the banks   *)
(* behind: there are none when the bank is the last.                       *)
LEMMA SpoilsStep ==
  ASSUME LaidOut, sound, NEW bank \in 0 .. MaxBanks, NEW pos, SpoilsOffsets(bank, pos)
  PROVE  LaidOut' /\ (sound' => file' = file)
<1> DEFINE f == OffsetsRaised(header, file, OffsetPos(header, bank + 1))
<1>1. /\ ret' = -1 /\ header' = header /\ file' = f
      /\ sound' = (sound /\ bank = header.b - 1)
  BY DEF SpoilsOffsets
<1>2. /\ header \in HeaderTypes /\ header \in Headers /\ header.b \in Nat
      /\ file \in Seq(Items) /\ Layout(header, file) /\ sound = TRUE
  BY SoundState
<1>3. f \in Seq(Items)
  <2> DEFINE P == OffsetPos(header, bank + 1) .. header.ct + header.ch + header.b - 1
  <2>1. f = Raised(file, P)
    BY DEF OffsetsRaised
  <2> HIDE DEF P
  <2> QED BY <1>2, <2>1, RaisedIs
<1>4. bank = header.b - 1 => f = file
  <2>1. bank = header.b - 1 => bank + 1 = header.b
    BY <1>2
  <2> QED BY <1>2, <2>1, NothingRaised
<1> HIDE DEF f
<1>5. sound' \in BOOLEAN /\ (sound' => bank = header.b - 1)
  BY <1>1, <1>2
<1>6. ret' \in {-1, 0}
  BY <1>1
<1> QED BY <1>1, <1>2, <1>3, <1>4, <1>5, <1>6 DEF LaidOut, HeaderTypes

LEMMA writeContactStep ==
  ASSUME LaidOut, sound, NEW n \in Names, NEW pos \in Positions, writeContact(n, pos), ret' = 0
  PROVE  LaidOut'
<1> DEFINE item == Item("contact", n, 0)
           g == Overwritten(file, pos, item)
<1>1. pos < header.ct /\ file' = g /\ header' = header /\ sound' = sound
  BY DEF Refused, writeContact
<1>2. /\ header \in HeaderTypes /\ header \in Headers /\ header.ct \in Nat
      /\ file \in Seq(Items) /\ Layout(header, file) /\ sound = TRUE
  BY SoundState
<1>3. pos \in 0 .. header.ct - 1
  BY <1>1, <1>2, BoundAssumption DEF Positions
<1>4. pos \in 0 .. Len(file) - 1 /\ At(file, pos).kind = "contact"
  BY <1>2, <1>3, Places DEF Layout
<1>5. item \in Items /\ item.kind = "contact"
  <2>1. "contact" \in Kinds /\ n \in Texts
    BY KindsAndTexts
  <2>2. 0 \in Int
    OBVIOUS
  <2> QED BY <2>1, <2>2, ItemType
<1> HIDE DEF item
<1>6. g \in Seq(Items) /\ Layout(header, g)
  BY <1>2, <1>4, <1>5, OverwrittenSame
<1> QED BY <1>1, <1>2, <1>6 DEF LaidOut, HeaderTypes

LEMMA writeChannelStep ==
  ASSUME LaidOut, sound, NEW n \in Names, NEW ct \in Contacts, NEW pos \in Positions,
         writeChannel(n, ct, pos), ret' = 0
  PROVE  LaidOut'
<1> DEFINE item == Item("channel", n, ct)
           at == ChannelPos(header, pos)
           g == Overwritten(file, at, item)
<1>1. pos < header.ch /\ file' = g /\ header' = header /\ sound' = sound
  BY DEF Refused, writeChannel
<1>2. /\ header \in HeaderTypes /\ header \in Headers
      /\ header.ct \in Nat /\ header.ch \in Nat
      /\ file \in Seq(Items) /\ Layout(header, file) /\ sound = TRUE
  BY SoundState
<1>3. pos \in 0 .. header.ch - 1 /\ ct \in Int
  BY <1>1, <1>2, BoundAssumption DEF Positions, Contacts
<1>4. at \in 0 .. Len(file) - 1 /\ At(file, at).kind = "channel"
  BY <1>2, <1>3, Places DEF Layout
<1>5. item \in Items /\ item.kind = "channel"
  <2>1. "channel" \in Kinds /\ n \in Texts
    BY KindsAndTexts
  <2> QED BY <1>3, <2>1, ItemType
<1> HIDE DEF item, at
<1>6. g \in Seq(Items) /\ Layout(header, g)
  BY <1>2, <1>4, <1>5, OverwrittenSame
<1> QED BY <1>1, <1>2, <1>6 DEF LaidOut, HeaderTypes

LEMMA WrittenIs ==
  ASSUME NEW f \in Seq(Items), NEW p \in Nat, NEW item \in Items
  PROVE  Written(f, p, item) \in Seq(Items)
<1>1. CASE p < Len(f)
  <2>1. p \in 0 .. Len(f) - 1
    BY <1>1
  <2> QED BY <1>1, <2>1, OverwrittenIs DEF Written
<1>2. CASE ~ (p < Len(f))
  BY <1>2 DEF Written
<1> QED BY <1>1, <1>2

(* A call on a bank that is not there leaves no promise but a file.        *)
LEMMA writeBankDataStray ==
  ASSUME LaidOut, NEW ch \in Channels, NEW bank \in 0 .. MaxBanks, NEW pos \in Positions,
         bank >= header.b, writeBankData(ch, bank, pos), ret' = 0
  PROVE  LaidOut' /\ sound' = FALSE
<1> DEFINE item == Number("entry", ch)
<1>1. /\ header \in HeaderTypes /\ header \in Headers
      /\ header.ct \in Nat /\ header.ch \in Nat /\ header.b \in Nat
      /\ file \in Seq(Items)
  BY HeaderType DEF LaidOut, HeaderTypes
<1>2. ch \in Int /\ bank \in Nat
  BY <1>1, BoundAssumption DEF Channels
<1>3. item \in Items
  BY <1>2, KindsAndTexts, NumberType
<1>4. ~ (bank < header.b)
  BY <1>1, <1>2
<1> HIDE DEF item
<1>5. /\ header' = header /\ sound' = FALSE
      /\ \E at \in header.ct + header.ch + header.b .. Len(file) : file' = Written(file, at, item)
  BY <1>4 DEF Refused, writeBankData, item
<1>6. PICK at \in header.ct + header.ch + header.b .. Len(file) : file' = Written(file, at, item)
  BY <1>5
<1>7. at \in Nat
  BY <1>1, <1>6
<1>8. file' \in Seq(Items)
  BY <1>1, <1>3, <1>6, <1>7, WrittenIs
<1> QED BY <1>1, <1>5, <1>8 DEF LaidOut, HeaderTypes

LEMMA writeBankDataWithin ==
  ASSUME LaidOut, sound, NEW ch \in Channels, NEW bank \in 0 .. MaxBanks,
         NEW pos \in Positions, bank < header.b, writeBankData(ch, bank, pos), ret' = 0
  PROVE  LaidOut'
<1> DEFINE item == Number("entry", ch)
           at == EntryPos(header, file, bank, pos)
           g == Overwritten(file, at, item)
<1>1. /\ bank < header.b /\ pos < At(file, BankPos(header, file, bank)).num
      /\ file' = g /\ header' = header /\ sound' = sound
  <2>1. header.b \in Nat /\ bank \in Int
    BY BoundAssumption, SoundState
  <2>2. ~ (bank >= header.b)
    BY <2>1
  <2>3. ret' # -1
    OBVIOUS
  <2>4. /\ Writable(header, file, bank, pos) /\ file' = g
        /\ UNCHANGED <<header, sound>>
    BY <2>2, <2>3, Zenon DEF Refused, writeBankData
  <2> QED BY <2>4 DEF Writable
<1>2. /\ header \in HeaderTypes /\ header \in Headers
      /\ header.ct \in Nat /\ header.ch \in Nat /\ header.b \in Nat
      /\ file \in Seq(Items) /\ Layout(header, file) /\ sound = TRUE
  BY SoundState
<1>3. bank \in 0 .. header.b - 1 /\ ch \in Int /\ pos \in Nat
  BY <1>1, <1>2, BoundAssumption DEF Channels, Positions
<1>4. /\ At(file, BankPos(header, file, bank)) = Bank(header, file, bank)
      /\ Bank(header, file, bank).num \in Nat
  BY <1>2, <1>3, Places DEF Bank
<1>5. pos \in 0 .. Bank(header, file, bank).num - 1
  BY <1>1, <1>3, <1>4
<1>6. at \in 0 .. Len(file) - 1 /\ At(file, at).kind = "entry"
  <2>1. at \in header.ct + header.ch + header.b + 1 .. Len(file) - 1
    BY <1>2, <1>3, <1>5, Places
  <2>2. At(file, at).kind = "entry"
    BY <1>2, <1>3, <1>5 DEF Layout, Bank
  <2> HIDE DEF at
  <2>3. at \in 0 .. Len(file) - 1
    BY <1>2, <2>1
  <2> QED BY <2>2, <2>3
<1>7. item \in Items /\ item.kind = "entry"
  BY <1>3, KindsAndTexts, NumberType
<1> HIDE DEF item, at
<1>8. g \in Seq(Items) /\ Layout(header, g)
  BY <1>2, <1>6, <1>7, OverwrittenSame
<1> QED BY <1>1, <1>2, <1>8 DEF LaidOut, HeaderTypes

LEMMA writeBankDataStep ==
  ASSUME LaidOut, sound, NEW ch \in Channels, NEW bank \in 0 .. MaxBanks,
         NEW pos \in Positions, writeBankData(ch, bank, pos), ret' = 0
  PROVE  LaidOut'
<1>1. header.b \in Nat /\ bank \in Int
  BY BoundAssumption, SoundState
<1>2. bank < header.b \/ bank >= header.b
  BY <1>1
<1> QED BY <1>2, writeBankDataWithin, writeBankDataStray

LEMMA writeBankHeaderStep ==
  ASSUME LaidOut, sound, NEW n \in Names, NEW pos \in Positions, writeBankHeader(n, pos), ret' = 0
  PROVE  LaidOut'
<1> DEFINE item == Item("bank", n, 0)
           o == At(file, OffsetPos(header, pos)).num
           at == OffsetPos(header, pos) + 1 + header.b - pos + o
<1>1. /\ pos < header.b /\ header' = header /\ sound' = FALSE
      /\ file' = Written(file, at, item)
  BY DEF Refused, writeBankHeader
<1>2. /\ header \in HeaderTypes /\ header \in Headers
      /\ header.ct \in Nat /\ header.ch \in Nat /\ header.b \in Nat
      /\ file \in Seq(Items) /\ Layout(header, file) /\ sound = TRUE
  BY SoundState
<1>3. pos \in 0 .. header.b - 1 /\ pos \in Nat
  BY <1>1, <1>2, BoundAssumption DEF Positions
<1>4. item \in Items
  <2>1. "bank" \in Kinds /\ n \in Texts
    BY KindsAndTexts
  <2>2. 0 \in Int
    OBVIOUS
  <2> QED BY <2>1, <2>2, ItemType
<1> HIDE DEF item
<1>5. at \in Nat
  <2>1. /\ BankPos(header, file, pos) = Start(header, file, pos)
        /\ Start(header, file, pos) \in header.ct + header.ch + header.b .. Len(file) - 1
    BY <1>2, <1>3, Places
  <2>2. OffsetPos(header, pos) \in 0 .. Len(file) - 1
    BY <1>2, <1>3, Places
  <2>3. o \in Int
    BY <1>2, <2>2, ItemAt
  <2>4. /\ BankPos(header, file, pos) = header.ct + header.ch + header.b + o
        /\ OffsetPos(header, pos) = header.ct + header.ch + pos
    BY DEF BankPos, OffsetPos
  <2> HIDE DEF o
  <2>5. at = Start(header, file, pos) + 1
    <3> DEFINE c == header.ct + header.ch
               b == header.b
               s == Start(header, file, pos)
    <3>1. /\ c \in Nat /\ b \in Nat /\ pos \in Nat /\ o \in Int
          /\ s = c + b + o /\ OffsetPos(header, pos) = c + pos
      BY <1>2, <1>3, <2>1, <2>3, <2>4
    <3>2. at = c + pos + 1 + b - pos + o
      BY <3>1
    <3> HIDE DEF c, b, s, at
    <3>3. at = s + 1
      BY <3>1, <3>2
    <3> QED BY <3>3 DEF s
  <2>6. Start(header, file, pos) \in Nat
    BY <1>2, <2>1
  <2> QED BY <2>5, <2>6
<1> HIDE DEF at
<1>6. file' \in Seq(Items)
  BY <1>1, <1>2, <1>4, <1>5, WrittenIs
<1> QED BY <1>1, <1>2, <1>6 DEF LaidOut, HeaderTypes

LEMMA NextLaidOut == LaidOut /\ [Next]_vars => LaidOut'
<1> SUFFICES ASSUME LaidOut, [Next]_vars PROVE LaidOut'
  OBVIOUS
<1>1. CASE UNCHANGED vars
  <2>1. header' = header /\ file' = file /\ sound' = sound /\ ret' = ret
    BY <1>1 DEF vars
  <2> QED BY <2>1 DEF LaidOut
<1>2. CASE create
  BY <1>2, CreateLaidOut
<1>3. ASSUME sound, NEW n \in Names, NEW pos \in Positions,
             \/ insertContact(n, pos) \/ writeContact(n, pos)
             \/ insertBankHeader(n, pos) \/ writeBankHeader(n, pos)
             \/ \E ct \in Contacts : insertChannel(n, ct, pos) \/ writeChannel(n, ct, pos)
             \/ \E ch \in Channels, bank \in 0 .. MaxBanks :
                  insertBankData(ch, bank, pos) \/ writeBankData(ch, bank, pos)
      PROVE  LaidOut'
  <2>1. CASE insertContact(n, pos)
    BY <1>3, <2>1, Answered, insertContactStep, RefusedStep
  <2>2. CASE writeContact(n, pos)
    BY <1>3, <2>2, Answered, writeContactStep, RefusedStep
  <2>3. CASE insertBankHeader(n, pos)
    BY <1>3, <2>3, Answered, insertBankHeaderStep, RefusedStep
  <2>4. CASE writeBankHeader(n, pos)
    BY <1>3, <2>4, Answered, writeBankHeaderStep, RefusedStep
  <2>5. ASSUME NEW ct \in Contacts, insertChannel(n, ct, pos) PROVE LaidOut'
    BY <1>3, <2>5, Answered, insertChannelStep, RefusedStep
  <2>6. ASSUME NEW ct \in Contacts, writeChannel(n, ct, pos) PROVE LaidOut'
    BY <1>3, <2>6, Answered, writeChannelStep, RefusedStep
  <2>7. ASSUME NEW ch \in Channels, NEW bank \in 0 .. MaxBanks, insertBankData(ch, bank, pos)
        PROVE  LaidOut'
    BY <1>3, <2>7, Answered, insertBankDataStep, SpoilsStep, RefusedStep
  <2>8. ASSUME NEW ch \in Channels, NEW bank \in 0 .. MaxBanks, writeBankData(ch, bank, pos)
        PROVE  LaidOut'
    BY <1>3, <2>8, Answered, writeBankDataStep, RefusedStep
  <2> QED BY <1>3, <2>1, <2>2, <2>3, <2>4, <2>5, <2>6, <2>7, <2>8
<1> QED BY <1>1, <1>2, <1>3 DEF Next

(* The codeplug holds the tables and nothing else, at the places the       *)
(* offsets give, after any sequence of calls that does not damage it.      *)
THEOREM AlwaysLaidOut == Spec => []LaidOut
BY InitLaidOut, NextLaidOut, PTL DEF Spec

-----------------------------------------------------------------------------
(* The tables that are read from a file.                                   *)

ContactsOf(h, f) == [i \in 1 .. h.ct |-> At(f, i - 1).name]
ChannelOf(h, f, p) ==
  [name |-> At(f, ChannelPos(h, p)).name, contact |-> At(f, ChannelPos(h, p)).num]
ChannelsOf(h, f) == [i \in 1 .. h.ch |-> ChannelOf(h, f, i - 1)]
ListOf(h, f, p) == [e \in 1 .. Bank(h, f, p).num |-> At(f, EntryPos(h, f, p, e - 1)).num]
BankOf(h, f, p) == [name |-> Bank(h, f, p).name, list |-> ListOf(h, f, p)]
BanksOf(h, f) == [i \in 1 .. h.b |-> BankOf(h, f, i - 1)]

ChannelRows == [name : Texts, contact : Int]
BankRows == [name : Texts, list : Seq(Int)]

LEMMA BanksAre ==
  ASSUME NEW h \in Headers, NEW f
  PROVE  BanksOf(h, f) =
           [i \in 1 .. h.b |->
              LET b == At(f, BankPos(h, f, i - 1))
              IN  [name |-> b.name,
                   list |-> [e \in 1 .. b.num |-> At(f, EntryPos(h, f, i - 1, e - 1)).num]]]
<1>1. ASSUME NEW i \in 1 .. h.b
      PROVE  BankOf(h, f, i - 1) =
              LET b == At(f, BankPos(h, f, i - 1))
              IN  [name |-> b.name,
                   list |-> [e \in 1 .. b.num |-> At(f, EntryPos(h, f, i - 1, e - 1)).num]]
  <2>1. i - 1 < h.b
    BY DEF Headers
  <2>2. Bank(h, f, i - 1) = At(f, BankPos(h, f, i - 1))
    BY <2>1 DEF Bank, Start
  <2> QED BY <2>2 DEF BankOf, ListOf
<1> QED BY <1>1 DEF BanksOf

LEMMA TablesRead ==
  /\ ContactsRead = ContactsOf(header, file)
  /\ ChannelsRead = ChannelsOf(header, file)
  /\ header \in Headers => BanksRead = BanksOf(header, file)
<1>1. ContactsRead = ContactsOf(header, file)
  BY DEF ContactsRead, ContactsOf
<1>2. ChannelsRead = ChannelsOf(header, file)
  BY DEF ChannelsRead, ChannelsOf, ChannelOf
<1>3. header \in Headers => BanksRead = BanksOf(header, file)
  BY BanksAre DEF BanksRead
<1> QED BY <1>1, <1>2, <1>3

LEMMA TablesReadNext ==
  /\ ContactsRead' = ContactsOf(header', file')
  /\ ChannelsRead' = ChannelsOf(header', file')
  /\ header' \in Headers => BanksRead' = BanksOf(header', file')
<1>1. ContactsRead' = ContactsOf(header', file')
  BY DEF ContactsRead, ContactsOf
<1>2. ChannelsRead' = ChannelsOf(header', file')
  BY DEF ChannelsRead, ChannelsOf, ChannelOf
<1>3. header' \in Headers => BanksRead' = BanksOf(header', file')
  <2> DEFINE h == header'
             f == file'
  <2>1. h \in Headers => BanksOf(h, f) =
           [i \in 1 .. h.b |->
              LET b == At(f, BankPos(h, f, i - 1))
              IN  [name |-> b.name,
                   list |-> [e \in 1 .. b.num |-> At(f, EntryPos(h, f, i - 1, e - 1)).num]]]
    <3> HIDE DEF h, f
    <3> QED BY BanksAre
  <2> QED BY <2>1 DEF BanksRead, BankPos, EntryPos, OffsetPos, At
<1> QED BY <1>1, <1>2, <1>3

(* What the tables are made of, row by row.                                *)
LEMMA ContactRows ==
  ASSUME NEW h \in Headers, NEW f \in Seq(Items), Layout(h, f)
  PROVE  /\ ContactsOf(h, f) \in Seq(Texts) /\ Len(ContactsOf(h, f)) = h.ct
         /\ \A p \in 0 .. h.ct - 1 : /\ ContactsOf(h, f)[p + 1] = At(f, p).name
                                    /\ At(f, p).name \in Texts
<1>1. h.ct \in Nat
  BY DEF Headers
<1>2. \A p \in 0 .. h.ct - 1 : At(f, p).name \in Texts
  <2>1. \A p \in 0 .. h.ct - 1 : At(f, p) \in Items
    BY Places, ItemAt
  <2> QED BY <2>1 DEF Items
<1>3. \A i \in 1 .. h.ct : At(f, i - 1).name \in Texts
  <2>1. \A i \in 1 .. h.ct : i - 1 \in 0 .. h.ct - 1
    BY <1>1
  <2> QED BY <1>2, <2>1
<1>4. ContactsOf(h, f) \in Seq(Texts) /\ Len(ContactsOf(h, f)) = h.ct
  <2>1. ContactsOf(h, f) \in [1 .. h.ct -> Texts]
    BY <1>3 DEF ContactsOf
  <2> QED BY <1>1, <2>1
<1>5. \A p \in 0 .. h.ct - 1 : ContactsOf(h, f)[p + 1] = At(f, p).name
  <2> TAKE p \in 0 .. h.ct - 1
  <2>1. p + 1 \in 1 .. h.ct /\ (p + 1) - 1 = p
    BY <1>1
  <2> QED BY <2>1 DEF ContactsOf
<1> QED BY <1>2, <1>4, <1>5

LEMMA ChannelsAre ==
  ASSUME NEW h \in Headers, NEW f \in Seq(Items), Layout(h, f)
  PROVE  /\ ChannelsOf(h, f) \in Seq(ChannelRows) /\ Len(ChannelsOf(h, f)) = h.ch
         /\ \A p \in 0 .. h.ch - 1 : /\ ChannelsOf(h, f)[p + 1] = ChannelOf(h, f, p)
                                    /\ ChannelOf(h, f, p) \in ChannelRows
<1>1. h.ch \in Nat
  BY DEF Headers
<1>2. \A p \in 0 .. h.ch - 1 : ChannelOf(h, f, p) \in ChannelRows
  <2> TAKE p \in 0 .. h.ch - 1
  <2>1. At(f, ChannelPos(h, p)) \in Items
    BY Places, ItemAt
  <2>2. At(f, ChannelPos(h, p)).name \in Texts /\ At(f, ChannelPos(h, p)).num \in Int
    BY <2>1 DEF Items
  <2> QED BY <2>2 DEF ChannelOf, ChannelRows
<1>3. \A i \in 1 .. h.ch : ChannelOf(h, f, i - 1) \in ChannelRows
  <2>1. \A i \in 1 .. h.ch : i - 1 \in 0 .. h.ch - 1
    BY <1>1
  <2> QED BY <1>2, <2>1
<1>4. ChannelsOf(h, f) \in Seq(ChannelRows) /\ Len(ChannelsOf(h, f)) = h.ch
  <2>1. ChannelsOf(h, f) \in [1 .. h.ch -> ChannelRows]
    BY <1>3 DEF ChannelsOf
  <2> QED BY <1>1, <2>1
<1>5. \A p \in 0 .. h.ch - 1 : ChannelsOf(h, f)[p + 1] = ChannelOf(h, f, p)
  <2> TAKE p \in 0 .. h.ch - 1
  <2>1. p + 1 \in 1 .. h.ch /\ (p + 1) - 1 = p
    BY <1>1
  <2> QED BY <2>1 DEF ChannelsOf
<1> QED BY <1>2, <1>4, <1>5

LEMMA ListIs ==
  ASSUME NEW h \in Headers, NEW f \in Seq(Items), Layout(h, f), NEW p \in 0 .. h.b - 1
  PROVE  /\ ListOf(h, f, p) \in Seq(Int) /\ Len(ListOf(h, f, p)) = Bank(h, f, p).num
         /\ \A e \in 0 .. Bank(h, f, p).num - 1 :
              /\ ListOf(h, f, p)[e + 1] = At(f, EntryPos(h, f, p, e)).num
              /\ At(f, EntryPos(h, f, p, e)).num \in Int
         /\ BankOf(h, f, p) \in BankRows
<1> DEFINE n == Bank(h, f, p).num
<1>1. n \in Nat
  BY Places
<1>2. \A e \in 0 .. n - 1 : At(f, EntryPos(h, f, p, e)).num \in Int
  BY BanksWithin, ItemAt
<1>3. \A i \in 1 .. n : i - 1 \in 0 .. n - 1
  <2> HIDE DEF n
  <2> QED BY <1>1
<1>4. ListOf(h, f, p) \in Seq(Int) /\ Len(ListOf(h, f, p)) = n
  <2>1. ListOf(h, f, p) \in [1 .. n -> Int]
    BY <1>2, <1>3 DEF ListOf
  <2> HIDE DEF n
  <2> QED BY <1>1, <2>1
<1>5. \A e \in 0 .. n - 1 : ListOf(h, f, p)[e + 1] = At(f, EntryPos(h, f, p, e)).num
  <2> TAKE e \in 0 .. n - 1
  <2>1. e + 1 \in 1 .. n /\ (e + 1) - 1 = e
    <3> HIDE DEF n
    <3> QED BY <1>1
  <2> QED BY <2>1 DEF ListOf
<1>6. BankOf(h, f, p) \in BankRows
  <2>1. Bank(h, f, p).name \in Texts
    <3>1. Bank(h, f, p) \in Items
      BY BanksWithin, ItemAt DEF Bank
    <3> QED BY <3>1 DEF Items
  <2> QED BY <1>4, <2>1 DEF BankOf, BankRows
<1> QED BY <1>2, <1>4, <1>5, <1>6

LEMMA BanksAreRows ==
  ASSUME NEW h \in Headers, NEW f \in Seq(Items), Layout(h, f)
  PROVE  /\ BanksOf(h, f) \in Seq(BankRows) /\ Len(BanksOf(h, f)) = h.b
         /\ \A p \in 0 .. h.b - 1 : BanksOf(h, f)[p + 1] = BankOf(h, f, p)
<1>1. h.b \in Nat
  BY DEF Headers
<1>2. \A p \in 0 .. h.b - 1 : BankOf(h, f, p) \in BankRows
  BY ListIs
<1>3. \A i \in 1 .. h.b : BankOf(h, f, i - 1) \in BankRows
  <2>1. \A i \in 1 .. h.b : i - 1 \in 0 .. h.b - 1
    BY <1>1
  <2> QED BY <1>2, <2>1
<1>4. BanksOf(h, f) \in Seq(BankRows) /\ Len(BanksOf(h, f)) = h.b
  <2>1. BanksOf(h, f) \in [1 .. h.b -> BankRows]
    BY <1>3 DEF BanksOf
  <2> QED BY <1>1, <2>1
<1>5. \A p \in 0 .. h.b - 1 : BanksOf(h, f)[p + 1] = BankOf(h, f, p)
  <2> TAKE p \in 0 .. h.b - 1
  <2>1. p + 1 \in 1 .. h.b /\ (p + 1) - 1 = p
    BY <1>1
  <2> QED BY <2>1 DEF BanksOf
<1> QED BY <1>4, <1>5

(* A table is not changed when none of its rows is.                        *)
LEMMA ContactsSame ==
  ASSUME NEW h \in Headers, NEW f, NEW k \in Headers, NEW g, k.ct = h.ct,
         \A p \in 0 .. h.ct - 1 : At(g, p) = At(f, p)
  PROVE  ContactsOf(k, g) = ContactsOf(h, f)
<1>1. \A i \in 1 .. h.ct : i - 1 \in 0 .. h.ct - 1
  BY DEF Headers
<1> QED BY <1>1 DEF ContactsOf

LEMMA ChannelsSame ==
  ASSUME NEW h \in Headers, NEW f, NEW k \in Headers, NEW g, k.ch = h.ch,
         \A p \in 0 .. h.ch - 1 : At(g, ChannelPos(k, p)) = At(f, ChannelPos(h, p))
  PROVE  ChannelsOf(k, g) = ChannelsOf(h, f)
<1>1. \A i \in 1 .. h.ch : i - 1 \in 0 .. h.ch - 1
  BY DEF Headers
<1>2. \A i \in 1 .. h.ch : ChannelOf(k, g, i - 1) = ChannelOf(h, f, i - 1)
  BY <1>1 DEF ChannelOf
<1> QED BY <1>2 DEF ChannelsOf

LEMMA BankSame ==
  ASSUME NEW h, NEW f, NEW p, NEW k, NEW g, NEW q, BankAs(h, f, p, k, g, q),
         Bank(h, f, p).num \in Nat
  PROVE  BankOf(k, g, q) = BankOf(h, f, p)
<1> DEFINE n == Bank(h, f, p).num
<1>1. \A e \in 1 .. n : e - 1 \in 0 .. n - 1
  <2>1. n \in Nat
    OBVIOUS
  <2> HIDE DEF n
  <2> QED BY <2>1
<1>2. Bank(k, g, q) = Bank(h, f, p)
  BY DEF BankAs
<1>3. \A e \in 1 .. n :
        At(g, EntryPos(k, g, q, e - 1)).num = At(f, EntryPos(h, f, p, e - 1)).num
  BY <1>1 DEF BankAs
<1>4. ListOf(k, g, q) = ListOf(h, f, p)
  BY <1>2, <1>3 DEF ListOf
<1> QED BY <1>2, <1>4 DEF BankOf

LEMMA BanksSame ==
  ASSUME NEW h \in Headers, NEW f \in Seq(Items), Layout(h, f),
         NEW k \in Headers, NEW g, k.b = h.b, SameBanks(h, f, k, g)
  PROVE  BanksOf(k, g) = BanksOf(h, f)
<1>1. \A i \in 1 .. h.b : i - 1 \in 0 .. h.b - 1
  BY DEF Headers
<1>2. \A p \in 0 .. h.b - 1 : BankOf(k, g, p) = BankOf(h, f, p)
  <2> TAKE p \in 0 .. h.b - 1
  <2>1. BankAs(h, f, p, k, g, p) /\ Bank(h, f, p).num \in Nat
    BY Places DEF SameBanks
  <2> QED BY <2>1, BankSame
<1> QED BY <1>1, <1>2 DEF BanksOf

(* A row more, and a row replaced.                                         *)
RowPut(s, t, pos, e) ==
  /\ pos \in 0 .. Len(s) /\ Len(t) = Len(s) + 1
  /\ \A p \in 0 .. Len(s) : /\ p < pos => t[p + 1] = s[p + 1]
                            /\ p = pos => t[p + 1] = e
                            /\ p > pos => t[p + 1] = s[p]

LEMMA RowInserted ==
  ASSUME NEW S, NEW s \in Seq(S), NEW t \in Seq(S), NEW pos, NEW e \in S,
         RowPut(s, t, pos, e)
  PROVE  t = InsertAt(s, pos + 1, e)
<1> DEFINE u == InsertAt(s, pos + 1, e)
<1>1. Len(s) \in Nat /\ pos \in Nat /\ pos + 1 \in 1 .. Len(s) + 1
  BY DEF RowPut
<1>2. /\ u \in Seq(S) /\ Len(u) = Len(s) + 1
      /\ \A j \in 1 .. Len(s) + 1 : u[j] =
           IF j < pos + 1 THEN s[j] ELSE IF j = pos + 1 THEN e ELSE s[j - 1]
  <2> DEFINE i == pos + 1
  <2>1. i \in 1 .. Len(s) + 1
    BY <1>1
  <2> HIDE DEF i
  <2>2. /\ InsertAt(s, i, e) \in Seq(S) /\ Len(InsertAt(s, i, e)) = Len(s) + 1
        /\ \A j \in 1 .. Len(s) + 1 : InsertAt(s, i, e)[j] =
             IF j < i THEN s[j] ELSE IF j = i THEN e ELSE s[j - 1]
    BY <2>1, InsertAtIs
  <2> QED BY <2>2 DEF i
<1> HIDE DEF u
<1>3. \A j \in 1 .. Len(s) + 1 : t[j] = u[j]
  <2> TAKE j \in 1 .. Len(s) + 1
  <2>1. /\ j - 1 \in 0 .. Len(s) /\ (j - 1) + 1 = j
        /\ (j - 1 < pos <=> j < pos + 1) /\ (j - 1 = pos <=> j = pos + 1)
        /\ j - 1 < pos \/ j - 1 = pos \/ j - 1 > pos
        /\ (j - 1 > pos => ~ (j < pos + 1) /\ j # pos + 1)
    BY <1>1
  <2>2. /\ j - 1 < pos => t[j] = s[j]
        /\ j - 1 = pos => t[j] = e
        /\ j - 1 > pos => t[j] = s[j - 1]
    BY <2>1 DEF RowPut
  <2> QED BY <1>2, <2>1, <2>2
<1>4. t = u
  BY <1>2, <1>3, SeqEqual DEF RowPut
<1> QED BY <1>4 DEF u

RowSet(s, t, pos, e) ==
  /\ pos \in 0 .. Len(s) - 1 /\ Len(t) = Len(s) /\ t[pos + 1] = e
  /\ \A p \in 0 .. Len(s) - 1 : p # pos => t[p + 1] = s[p + 1]

LEMMA RowReplaced ==
  ASSUME NEW S, NEW s \in Seq(S), NEW t \in Seq(S), NEW pos, NEW e \in S,
         RowSet(s, t, pos, e)
  PROVE  /\ t = [s EXCEPT ![pos + 1] = e]
         /\ pos + 1 \in DOMAIN s
<1> DEFINE u == [s EXCEPT ![pos + 1] = e]
<1>1. Len(s) \in Nat /\ pos \in Nat /\ pos + 1 \in 1 .. Len(s) /\ DOMAIN s = 1 .. Len(s)
  BY DEF RowSet
<1>2. /\ u \in Seq(S) /\ Len(u) = Len(s)
      /\ \A j \in 1 .. Len(s) : u[j] = IF j = pos + 1 THEN e ELSE s[j]
  BY <1>1, ExceptSeq
<1> HIDE DEF u
<1>3. \A j \in 1 .. Len(s) : t[j] = u[j]
  <2> TAKE j \in 1 .. Len(s)
  <2>1. j - 1 \in 0 .. Len(s) - 1 /\ (j - 1) + 1 = j /\ (j - 1 = pos <=> j = pos + 1)
    BY <1>1
  <2>2. IF j = pos + 1 THEN t[j] = e ELSE t[j] = s[j]
    BY <2>1 DEF RowSet
  <2> QED BY <1>2, <2>2
<1>4. t = u
  BY <1>2, <1>3, SeqEqual DEF RowSet
<1> QED BY <1>1, <1>4 DEF u

(* The abstract tables have the insertion of their own instance.           *)
LEMMA InsertAtTables ==
  ASSUME NEW s, NEW i, NEW e
  PROVE  Tables!InsertAt(s, i, e) = InsertAt(s, i, e)
BY DEF Tables!InsertAt, InsertAt

-----------------------------------------------------------------------------
(* What each call does to the tables.                                      *)

LEMMA insertContactActs ==
  ASSUME LaidOut, sound, NEW n \in Names, NEW pos \in Positions, insertContact(n, pos), ret' = 0
  PROVE  Tables!PutContact(n, pos)
<1> DEFINE h == header
           f == file
           k == [header EXCEPT !.ct = @ + 1]
           g == CtNumbering(k, Inserted(file, pos, Item("contact", n, 0)), pos)
<1>1. pos <= h.ct /\ h.ct < MaxContacts /\ header' = k /\ file' = g
  BY DEF Refused, insertContact
<1>2. /\ h \in HeaderTypes /\ h \in Headers /\ h.ct \in Nat /\ h.ch \in Nat
      /\ f \in Seq(Items) /\ Layout(h, f)
  BY SoundState
<1>3. k \in HeaderTypes /\ k.ct = h.ct + 1 /\ k.ch = h.ch /\ k.b = h.b
  BY <1>1, <1>2, HeaderRaised
<1>4. k \in Headers
  BY <1>3, HeaderType
<1>5. pos \in 0 .. h.ct /\ pos \in Nat
  BY <1>1, <1>2, BoundAssumption DEF Positions
<1> HIDE DEF k
<1>6. /\ g \in Seq(Items) /\ Layout(k, g) /\ SameBanks(h, f, k, g)
      /\ \A p \in 0 .. h.ct : At(g, p).name =
           IF p < pos THEN At(f, p).name
           ELSE IF p = pos THEN n ELSE At(f, p - 1).name
      /\ \A p \in 0 .. h.ch - 1 :
           /\ At(g, ChannelPos(k, p)).name = At(f, ChannelPos(h, p)).name
           /\ At(g, ChannelPos(k, p)).num = Tables!Moved(At(f, ChannelPos(h, p)).num, pos)
  <2> HIDE DEF h, f
  <2> QED BY <1>2, <1>3, <1>4, <1>5, ContactInserted DEF h, f
<1> HIDE DEF g, h, f
<1>7. ContactsOf(k, g) = InsertAt(ContactsOf(h, f), pos + 1, n)
  <2> DEFINE s == ContactsOf(h, f)
             t == ContactsOf(k, g)
  <2>1. /\ s \in Seq(Texts) /\ Len(s) = h.ct
        /\ \A p \in 0 .. h.ct - 1 : s[p + 1] = At(f, p).name
    BY <1>2, ContactRows
  <2>2. /\ t \in Seq(Texts) /\ Len(t) = h.ct + 1
        /\ \A p \in 0 .. h.ct : t[p + 1] = At(g, p).name
    <3>1. (h.ct + 1) - 1 = h.ct
      BY <1>2
    <3> QED BY <1>3, <1>4, <1>6, <3>1, ContactRows
  <2> HIDE DEF s, t
  <2>3. \A p \in 0 .. h.ct : /\ p < pos => t[p + 1] = s[p + 1]
                             /\ p = pos => t[p + 1] = n
                             /\ p > pos => t[p + 1] = s[p]
    <3> TAKE p \in 0 .. h.ct
    <3>1. /\ p < pos => p \in 0 .. h.ct - 1
          /\ p > pos => p - 1 \in 0 .. h.ct - 1 /\ (p - 1) + 1 = p
          /\ p = pos => ~ (p < pos)
          /\ p > pos => ~ (p < pos) /\ p # pos
      BY <1>2, <1>5
    <3> QED BY <1>6, <2>1, <2>2, <3>1
  <2>4. n \in Texts
    BY DEF Texts
  <2>5. RowPut(s, t, pos, n)
    BY <1>5, <2>1, <2>2, <2>3 DEF RowPut
  <2>6. t = InsertAt(s, pos + 1, n)
    BY <2>1, <2>2, <2>4, <2>5, RowInserted
  <2> QED BY <2>6 DEF s, t
<1>8. ChannelsOf(k, g) = [i \in DOMAIN ChannelsOf(h, f) |->
                            [ChannelsOf(h, f)[i] EXCEPT !.contact = Tables!Moved(@, pos)]]
  <2> DEFINE s == ChannelsOf(h, f)
             t == ChannelsOf(k, g)
  <2>1. /\ s \in Seq(ChannelRows) /\ Len(s) = h.ch
        /\ \A p \in 0 .. h.ch - 1 : s[p + 1] = ChannelOf(h, f, p)
    BY <1>2, ChannelsAre
  <2>2. /\ t \in Seq(ChannelRows) /\ Len(t) = h.ch
        /\ \A p \in 0 .. h.ch - 1 : t[p + 1] = ChannelOf(k, g, p)
    BY <1>3, <1>4, <1>6, ChannelsAre
  <2>3. \A p \in 0 .. h.ch - 1 :
          ChannelOf(k, g, p) =
            [ChannelOf(h, f, p) EXCEPT !.contact = Tables!Moved(@, pos)]
    BY <1>6 DEF ChannelOf
  <2> HIDE DEF s, t
  <2>4. \A i \in 1 .. h.ch : t[i] = [s[i] EXCEPT !.contact = Tables!Moved(@, pos)]
    <3> TAKE i \in 1 .. h.ch
    <3>1. i - 1 \in 0 .. h.ch - 1 /\ (i - 1) + 1 = i
      BY <1>2
    <3> QED BY <2>1, <2>2, <2>3, <3>1
  <2>5. DOMAIN s = 1 .. h.ch /\ t = [i \in 1 .. h.ch |-> t[i]]
    BY <1>2, <2>1, <2>2
  <2>6. t = [i \in DOMAIN s |-> [s[i] EXCEPT !.contact = Tables!Moved(@, pos)]]
    BY <2>4, <2>5
  <2> QED BY <2>6 DEF s, t
<1>9. BanksOf(k, g) = BanksOf(h, f)
  BY <1>2, <1>3, <1>4, <1>6, BanksSame
<1>10. pos \in Tables!Places(ContactsOf(h, f))
  BY <1>2, <1>5, ContactRows DEF Tables!Places
<1>11. /\ ContactsRead = ContactsOf(h, f) /\ ContactsRead' = ContactsOf(k, g)
       /\ ChannelsRead = ChannelsOf(h, f) /\ ChannelsRead' = ChannelsOf(k, g)
       /\ BanksRead = BanksOf(h, f) /\ BanksRead' = BanksOf(k, g)
  BY <1>1, <1>2, <1>4, TablesRead, TablesReadNext DEF h, f
<1>12. ContactsRead' = Tables!InsertAt(ContactsRead, pos + 1, n)
  BY <1>7, <1>11, InsertAtTables
<1> QED BY <1>8, <1>9, <1>10, <1>11, <1>12 DEF Tables!PutContact

LEMMA BankUntouched ==
  ASSUME NEW h \in Headers, NEW f \in Seq(Items), Layout(h, f), NEW p \in 0 .. h.b - 1,
         NEW g, Start(h, g, p) = Start(h, f, p),
         At(g, Start(h, f, p)) = At(f, Start(h, f, p)),
         \A e \in 0 .. Bank(h, f, p).num - 1 :
           At(g, EntryPos(h, f, p, e)) = At(f, EntryPos(h, f, p, e))
  PROVE  BankAs(h, f, p, h, g, p)
<1>1. p < h.b
  BY DEF Headers
<1>2. BankPos(h, g, p) = BankPos(h, f, p)
  BY <1>1 DEF Start
<1>3. \A e : EntryPos(h, g, p, e) = EntryPos(h, f, p, e)
  BY <1>2 DEF EntryPos
<1> QED BY <1>3 DEF BankAs, Bank

(* Overwriting a contact or a channel is not seen in the banks.            *)
LEMMA BanksUntouched ==
  ASSUME NEW h \in Headers, NEW f \in Seq(Items), Layout(h, f), NEW g,
         NEW x \in 0 .. Len(f) - 1, At(f, x).kind \in {"contact", "channel"},
         \A q \in 0 .. Len(f) - 1 : q # x => At(g, q) = At(f, q),
         \A q \in 0 .. h.b : Start(h, g, q) = Start(h, f, q)
  PROVE  BanksOf(h, g) = BanksOf(h, f)
<1>1. ASSUME NEW p \in 0 .. h.b - 1 PROVE BankAs(h, f, p, h, g, p)
  <2>1. Start(h, g, p) = Start(h, f, p)
    <3>1. p \in 0 .. h.b
      BY DEF Headers
    <3> QED BY <3>1
  <2>2. At(g, Start(h, f, p)) = At(f, Start(h, f, p))
    <3>1. Start(h, f, p) \in 0 .. Len(f) - 1
      BY BanksWithin
    <3>2. At(f, Start(h, f, p)).kind = "bank"
      BY DEF Layout
    <3>3. Start(h, f, p) # x
      BY <3>2
    <3> QED BY <3>1, <3>3
  <2>3. ASSUME NEW e \in 0 .. Bank(h, f, p).num - 1
        PROVE  At(g, EntryPos(h, f, p, e)) = At(f, EntryPos(h, f, p, e))
    <3>1. EntryPos(h, f, p, e) \in 0 .. Len(f) - 1
      BY BanksWithin
    <3>2. At(f, EntryPos(h, f, p, e)).kind = "entry"
      BY DEF Layout, Bank
    <3>3. EntryPos(h, f, p, e) # x
      BY <3>2
    <3> QED BY <3>1, <3>3
  <2> QED BY <2>1, <2>2, <2>3, BankUntouched
<1>2. SameBanks(h, f, h, g)
  BY <1>1 DEF SameBanks
<1> QED BY <1>2, BanksSame

(* What a step says of the tables, in terms of the files.                  *)
LEMMA TablesSeen ==
  ASSUME NEW h, NEW f, NEW k, NEW g, header = h, file = f, header' = k, file' = g,
         h \in Headers, k \in Headers
  PROVE  /\ ContactsRead = ContactsOf(h, f) /\ ContactsRead' = ContactsOf(k, g)
         /\ ChannelsRead = ChannelsOf(h, f) /\ ChannelsRead' = ChannelsOf(k, g)
         /\ BanksRead = BanksOf(h, f) /\ BanksRead' = BanksOf(k, g)
BY TablesRead, TablesReadNext

LEMMA writeContactActs ==
  ASSUME LaidOut, sound, NEW n \in Names, NEW pos \in Positions, writeContact(n, pos), ret' = 0
  PROVE  Tables!SetContact(n, pos)
<1> DEFINE h == header
           f == file
           item == Item("contact", n, 0)
           g == Overwritten(f, pos, item)
<1>1. pos < h.ct /\ header' = h /\ file' = g
  BY DEF Refused, writeContact
<1>2. /\ h \in Headers /\ h.ct \in Nat /\ h.ch \in Nat
      /\ f \in Seq(Items) /\ Layout(h, f)
  BY SoundState
<1>3. pos \in 0 .. h.ct - 1 /\ pos \in Nat
  BY <1>1, <1>2, BoundAssumption DEF Positions
<1>4. pos \in 0 .. Len(f) - 1 /\ At(f, pos).kind = "contact"
  BY <1>2, <1>3, Places DEF Layout
<1>5. item \in Items /\ item.kind = "contact" /\ item.name = n /\ n \in Texts
  <2>1. "contact" \in Kinds /\ n \in Texts
    BY KindsAndTexts
  <2>2. 0 \in Int
    OBVIOUS
  <2> QED BY <2>1, <2>2, ItemType
<1> HIDE DEF item
<1>6. /\ g \in Seq(Items) /\ Layout(h, g) /\ At(g, pos) = item
      /\ \A q \in 0 .. Len(f) - 1 : q # pos => At(g, q) = At(f, q)
      /\ \A q \in 0 .. h.b : Start(h, g, q) = Start(h, f, q)
  <2> HIDE DEF h, f
  <2> QED BY <1>2, <1>4, <1>5, OverwrittenSame
<1> HIDE DEF g, h, f
<1>7. /\ ContactsOf(h, g) = [ContactsOf(h, f) EXCEPT ![pos + 1] = n]
      /\ pos + 1 \in DOMAIN ContactsOf(h, f)
  <2> DEFINE s == ContactsOf(h, f)
             t == ContactsOf(h, g)
  <2>1. /\ s \in Seq(Texts) /\ Len(s) = h.ct
        /\ \A p \in 0 .. h.ct - 1 : s[p + 1] = At(f, p).name
    BY <1>2, ContactRows
  <2>2. /\ t \in Seq(Texts) /\ Len(t) = h.ct
        /\ \A p \in 0 .. h.ct - 1 : t[p + 1] = At(g, p).name
    BY <1>2, <1>6, ContactRows
  <2>3. \A p \in 0 .. h.ct - 1 : p # pos => At(g, p) = At(f, p)
    <3>1. \A p \in 0 .. h.ct - 1 : p \in 0 .. Len(f) - 1
      BY <1>2, Places
    <3> QED BY <1>6, <3>1
  <2> HIDE DEF s, t
  <2>4. \A p \in 0 .. h.ct - 1 : p # pos => t[p + 1] = s[p + 1]
    BY <2>1, <2>2, <2>3
  <2>5. t[pos + 1] = n
    BY <1>3, <1>5, <1>6, <2>2
  <2>6. RowSet(s, t, pos, n)
    BY <1>3, <2>1, <2>2, <2>4, <2>5 DEF RowSet
  <2>7. t = [s EXCEPT ![pos + 1] = n] /\ pos + 1 \in DOMAIN s
    BY <1>5, <2>1, <2>2, <2>6, RowReplaced
  <2> QED BY <2>7 DEF s, t
<1>8. ChannelsOf(h, g) = ChannelsOf(h, f)
  <2>1. ASSUME NEW p \in 0 .. h.ch - 1
        PROVE  At(g, ChannelPos(h, p)) = At(f, ChannelPos(h, p))
    <3>1. ChannelPos(h, p) \in 0 .. Len(f) - 1 /\ At(f, ChannelPos(h, p)).kind = "channel"
      BY <1>2, Places DEF Layout
    <3>2. ChannelPos(h, p) # pos
      BY <1>4, <3>1
    <3> QED BY <1>6, <3>1, <3>2
  <2> QED BY <1>2, <2>1, ChannelsSame
<1>9. BanksOf(h, g) = BanksOf(h, f)
  BY <1>2, <1>4, <1>6, BanksUntouched
<1>10. /\ ContactsRead = ContactsOf(h, f) /\ ContactsRead' = ContactsOf(h, g)
       /\ ChannelsRead = ChannelsOf(h, f) /\ ChannelsRead' = ChannelsOf(h, g)
       /\ BanksRead = BanksOf(h, f) /\ BanksRead' = BanksOf(h, g)
  <2>1. header = h /\ file = f
    BY DEF h, f
  <2> QED BY <1>1, <1>2, <2>1, TablesSeen
<1> QED BY <1>7, <1>8, <1>9, <1>10 DEF Tables!SetContact

LEMMA writeChannelActs ==
  ASSUME LaidOut, sound, NEW n \in Names, NEW ct \in Contacts, NEW pos \in Positions,
         writeChannel(n, ct, pos), ret' = 0
  PROVE  Tables!SetChannel([name |-> n, contact |-> ct], pos)
<1> DEFINE h == header
           f == file
           item == Item("channel", n, ct)
           row == [name |-> n, contact |-> ct]
           x == ChannelPos(h, pos)
           g == Overwritten(f, x, item)
<1>1. pos < h.ch /\ header' = h /\ file' = g
  BY DEF Refused, writeChannel
<1>2. /\ h \in Headers /\ h.ct \in Nat /\ h.ch \in Nat
      /\ f \in Seq(Items) /\ Layout(h, f)
  BY SoundState
<1>3. pos \in 0 .. h.ch - 1 /\ pos \in Nat /\ ct \in Int
  BY <1>1, <1>2, BoundAssumption DEF Positions, Contacts
<1>4. x \in 0 .. Len(f) - 1 /\ At(f, x).kind = "channel"
  BY <1>2, <1>3, Places DEF Layout
<1>5. item \in Items /\ item.kind = "channel" /\ item.name = n /\ item.num = ct
  <2>1. "channel" \in Kinds /\ n \in Texts
    BY KindsAndTexts
  <2> QED BY <1>3, <2>1, ItemType DEF Item
<1>6. row \in ChannelRows
  BY <1>3, KindsAndTexts DEF ChannelRows
<1> HIDE DEF item, x
<1>7. /\ g \in Seq(Items) /\ Layout(h, g) /\ At(g, x) = item
      /\ \A q \in 0 .. Len(f) - 1 : q # x => At(g, q) = At(f, q)
      /\ \A q \in 0 .. h.b : Start(h, g, q) = Start(h, f, q)
  <2> HIDE DEF h, f
  <2> QED BY <1>2, <1>4, <1>5, OverwrittenSame
<1> HIDE DEF g, h, f
<1>8. /\ ChannelsOf(h, g) = [ChannelsOf(h, f) EXCEPT ![pos + 1] = row]
      /\ pos + 1 \in DOMAIN ChannelsOf(h, f)
  <2> DEFINE s == ChannelsOf(h, f)
             t == ChannelsOf(h, g)
  <2>1. /\ s \in Seq(ChannelRows) /\ Len(s) = h.ch
        /\ \A p \in 0 .. h.ch - 1 : s[p + 1] = ChannelOf(h, f, p)
    BY <1>2, ChannelsAre
  <2>2. /\ t \in Seq(ChannelRows) /\ Len(t) = h.ch
        /\ \A p \in 0 .. h.ch - 1 : t[p + 1] = ChannelOf(h, g, p)
    BY <1>2, <1>7, ChannelsAre
  <2>3. ASSUME NEW p \in 0 .. h.ch - 1, p # pos PROVE ChannelOf(h, g, p) = ChannelOf(h, f, p)
    <3>1. ChannelPos(h, p) \in 0 .. Len(f) - 1
      BY <1>2, Places
    <3>2. ChannelPos(h, p) # x
      BY <1>2, <1>3, <2>3 DEF ChannelPos, x
    <3> QED BY <1>7, <3>1, <3>2 DEF ChannelOf
  <2>4. ChannelOf(h, g, pos) = row
    BY <1>5, <1>7 DEF ChannelOf, x
  <2> HIDE DEF s, t, row
  <2>5. \A p \in 0 .. h.ch - 1 : p # pos => t[p + 1] = s[p + 1]
    BY <2>1, <2>2, <2>3
  <2>6. t[pos + 1] = row
    BY <1>3, <2>2, <2>4
  <2>7. RowSet(s, t, pos, row)
    BY <1>3, <2>1, <2>2, <2>5, <2>6 DEF RowSet
  <2>8. s \in Seq(ChannelRows) /\ t \in Seq(ChannelRows) /\ row \in ChannelRows
    BY <1>6, <2>1, <2>2
  <2>9. t = [s EXCEPT ![pos + 1] = row] /\ pos + 1 \in DOMAIN s
    BY <2>7, <2>8, RowReplaced
  <2> QED BY <2>9 DEF s, t
<1>9. ContactsOf(h, g) = ContactsOf(h, f)
  <2>1. ASSUME NEW p \in 0 .. h.ct - 1 PROVE At(g, p) = At(f, p)
    <3>1. p \in 0 .. Len(f) - 1 /\ At(f, p).kind = "contact"
      BY <1>2, Places DEF Layout
    <3>2. p # x
      BY <1>4, <3>1
    <3> QED BY <1>7, <3>1, <3>2
  <2> QED BY <1>2, <2>1, ContactsSame
<1>10. BanksOf(h, g) = BanksOf(h, f)
  BY <1>2, <1>4, <1>7, BanksUntouched
<1>11. /\ ContactsRead = ContactsOf(h, f) /\ ContactsRead' = ContactsOf(h, g)
       /\ ChannelsRead = ChannelsOf(h, f) /\ ChannelsRead' = ChannelsOf(h, g)
       /\ BanksRead = BanksOf(h, f) /\ BanksRead' = BanksOf(h, g)
  <2>1. header = h /\ file = f
    BY DEF h, f
  <2> QED BY <1>1, <1>2, <2>1, TablesSeen
<1> QED BY <1>8, <1>9, <1>10, <1>11 DEF Tables!SetChannel, row

LEMMA createActs ==
  ASSUME create
  PROVE  Tables!Clear
<1>1. header' = Empty /\ file' = <<>>
  BY DEF create
<1>2. Empty \in Headers /\ Empty.ct = 0 /\ Empty.ch = 0 /\ Empty.b = 0
  BY DEF Empty, Headers
<1>3. 1 .. 0 = {}
  OBVIOUS
<1>4. /\ ContactsOf(Empty, <<>>) = <<>>
      /\ ChannelsOf(Empty, <<>>) = <<>>
      /\ BanksOf(Empty, <<>>) = <<>>
  BY <1>2, <1>3 DEF ContactsOf, ChannelsOf, BanksOf
<1> QED BY <1>1, <1>2, <1>4, TablesReadNext DEF Tables!Clear

LEMMA StutterActs ==
  ASSUME LaidOut, header' = header, file' = file
  PROVE  UNCHANGED Tables!tables
<1>1. header \in Headers
  BY HeaderType DEF LaidOut, HeaderTypes
<1> QED BY <1>1, TablesSeen DEF Tables!tables

(* The entries that are raised, when none is left out that should be.      *)
LEMMA EntriesMoved ==
  ASSUME NEW h \in Headers, NEW f \in Seq(Items), Layout(h, f), NEW pos \in Nat,
         \A be \in Entries(h, f) : \/ Writable(h, f, be[1], be[2])
                                   \/ At(f, EntryPos(h, f, be[1], be[2])).num < pos
  PROVE  LET g == ChNumbering(h, f, pos)
         IN  /\ g \in Seq(Items) /\ Len(g) = Len(f) /\ Layout(h, g)
             /\ \A q \in 0 .. Len(f) - 1 :
                  At(f, q).kind # "entry" => At(g, q) = At(f, q)
             /\ \A p \in 0 .. h.b - 1 :
                  /\ Bank(h, g, p) = Bank(h, f, p)
                  /\ \A e \in 0 .. Bank(h, f, p).num - 1 :
                       At(g, EntryPos(h, g, p, e)).num =
                         Tables!Moved(At(f, EntryPos(h, f, p, e)).num, pos)
<1> DEFINE updated == {EntryPos(h, f, be[1], be[2]) :
                         be \in {x \in Entries(h, f) : Writable(h, f, x[1], x[2])}}
           P == {p \in updated : At(f, p).num >= pos}
           g == ChNumbering(h, f, pos)
<1>1. P \in SUBSET {EntryPos(h, f, be[1], be[2]) : be \in Entries(h, f)}
  OBVIOUS
<1>2. g = Raised(f, P)
  BY DEF ChNumbering
<1>3. \A p : p \in P <=> /\ \E be \in Entries(h, f) : /\ Writable(h, f, be[1], be[2])
                                                     /\ p = EntryPos(h, f, be[1], be[2])
                         /\ At(f, p).num >= pos
  OBVIOUS
<1> HIDE DEF P, g
<1>4. /\ g \in Seq(Items) /\ Len(g) = Len(f) /\ Layout(h, g)
      /\ \A p \in 0 .. h.b : Start(h, g, p) = Start(h, f, p)
      /\ \A q \in 0 .. Len(f) - 1 : At(f, q).kind # "entry" => At(g, q) = At(f, q)
  BY <1>1, <1>2, EntriesRaised
<1>5. ASSUME NEW p \in 0 .. h.b - 1
      PROVE  Bank(h, g, p) = Bank(h, f, p) /\ BankPos(h, g, p) = BankPos(h, f, p)
  <2>1. p \in 0 .. h.b /\ p < h.b
    BY DEF Headers
  <2>2. Start(h, g, p) = Start(h, f, p)
    BY <1>4, <2>1
  <2>3. Start(h, f, p) \in 0 .. Len(f) - 1 /\ At(f, Start(h, f, p)).kind = "bank"
    BY BanksWithin DEF Layout
  <2> QED BY <1>4, <2>1, <2>2, <2>3 DEF Bank, Start
<1>6. ASSUME NEW p \in 0 .. h.b - 1, NEW e \in 0 .. Bank(h, f, p).num - 1
      PROVE  At(g, EntryPos(h, g, p, e)).num =
               Tables!Moved(At(f, EntryPos(h, f, p, e)).num, pos)
  <2> DEFINE x == EntryPos(h, f, p, e)
             num == At(f, x).num
  <2>1. EntryPos(h, g, p, e) = x
    BY <1>5 DEF EntryPos
  <2>2. x \in 0 .. Len(f) - 1
    BY BanksWithin
  <2>3. num \in Int
    BY <2>2, ItemAt
  <2>4. x \in P <=> num >= pos
    <3>1. <<p, e>> \in Entries(h, f)
      <4>1. Bank(h, f, p).num \in 0 .. MaxEntries /\ BankPos(h, f, p) = Start(h, f, p)
        BY BanksWithin DEF Layout, Bank
      <4>2. e \in 0 .. MaxEntries - 1 /\ e < Bank(h, f, p).num
        BY <4>1, BoundAssumption
      <4> QED BY <4>1, <4>2 DEF Entries, Bank
    <3>2. Writable(h, f, p, e) \/ num < pos
      <4>1. <<p, e>>[1] = p /\ <<p, e>>[2] = e
        OBVIOUS
      <4> QED BY <3>1, <4>1
    <3>3. num >= pos => Writable(h, f, p, e)
      <4> HIDE DEF num
      <4> QED BY <2>3, <3>2
    <3>4. num >= pos => \E be \in Entries(h, f) : /\ Writable(h, f, be[1], be[2])
                                                   /\ x = EntryPos(h, f, be[1], be[2])
      BY <3>1, <3>3
    <3> QED BY <1>3, <3>4
  <2>5. At(g, x).num = num + (IF x \in P THEN 1 ELSE 0)
    BY <1>2, <2>2, RaisedIs
  <2> HIDE DEF x, num
  <2>6. At(g, x).num = IF num >= pos THEN num + 1 ELSE num
    BY <2>3, <2>4, <2>5
  <2> QED BY <2>1, <2>6 DEF Tables!Moved, num, x
<1> QED BY <1>4, <1>5, <1>6 DEF g

(* The lists of the banks follow the channels that have moved.             *)
Following(rows, pos) ==
  [b \in DOMAIN rows |->
     [rows[b] EXCEPT !.list = [e \in DOMAIN @ |-> Tables!Moved(@[e], pos)]]]

LEMMA BanksFollow ==
  ASSUME NEW h \in Headers, NEW f \in Seq(Items), Layout(h, f),
         NEW k \in Headers, NEW g \in Seq(Items), Layout(k, g), k.b = h.b, NEW pos,
         \A p \in 0 .. h.b - 1 :
           /\ Bank(k, g, p) = Bank(h, f, p)
           /\ \A e \in 0 .. Bank(h, f, p).num - 1 :
                At(g, EntryPos(k, g, p, e)).num =
                  Tables!Moved(At(f, EntryPos(h, f, p, e)).num, pos)
  PROVE  BanksOf(k, g) = Following(BanksOf(h, f), pos)
<1> DEFINE s == BanksOf(h, f)
           t == BanksOf(k, g)
           Follows(list) == [e \in DOMAIN list |-> Tables!Moved(list[e], pos)]
<1>1. ASSUME NEW p \in 0 .. h.b - 1
      PROVE  ListOf(k, g, p) = Follows(ListOf(h, f, p))
  <2> DEFINE n == Bank(h, f, p).num
             l == ListOf(h, f, p)
             m == ListOf(k, g, p)
  <2>1. /\ l \in Seq(Int) /\ Len(l) = n
        /\ \A e \in 0 .. n - 1 : l[e + 1] = At(f, EntryPos(h, f, p, e)).num
    BY ListIs
  <2>2. p \in 0 .. k.b - 1 /\ Bank(k, g, p).num = n
    OBVIOUS
  <2>3. /\ m \in Seq(Int) /\ Len(m) = n
        /\ \A e \in 0 .. n - 1 : m[e + 1] = At(g, EntryPos(k, g, p, e)).num
    BY <2>2, ListIs
  <2>4. n \in Nat
    BY Places
  <2>5. \A e \in 0 .. n - 1 : At(g, EntryPos(k, g, p, e)).num =
                  Tables!Moved(At(f, EntryPos(h, f, p, e)).num, pos)
    OBVIOUS
  <2> HIDE DEF n, l, m
  <2>6. \A i \in 1 .. n : m[i] = Tables!Moved(l[i], pos)
    <3> TAKE i \in 1 .. n
    <3>1. i - 1 \in 0 .. n - 1 /\ (i - 1) + 1 = i
      BY <2>4
    <3> QED BY <2>1, <2>3, <2>5, <3>1
  <2>7. DOMAIN l = 1 .. n /\ m = [i \in 1 .. n |-> m[i]]
    BY <2>1, <2>3, <2>4
  <2>8. m = Follows(l)
    BY <2>6, <2>7
  <2> QED BY <2>8 DEF l, m
<1>2. \A p \in 0 .. h.b - 1 :
        BankOf(k, g, p) = [BankOf(h, f, p) EXCEPT !.list = Follows(@)]
  <2> TAKE p \in 0 .. h.b - 1
  <2>1. Bank(k, g, p).name = Bank(h, f, p).name
    OBVIOUS
  <2>2. ListOf(k, g, p) = Follows(ListOf(h, f, p))
    BY <1>1
  <2> HIDE DEF Follows
  <2> QED BY <2>1, <2>2 DEF BankOf
<1>3. s \in Seq(BankRows) /\ Len(s) = h.b /\ \A p \in 0 .. h.b - 1 : s[p + 1] = BankOf(h, f, p)
  BY BanksAreRows
<1>4. t \in Seq(BankRows) /\ Len(t) = h.b /\ \A p \in 0 .. h.b - 1 : t[p + 1] = BankOf(k, g, p)
  BY BanksAreRows
<1>5. h.b \in Nat
  BY DEF Headers
<1> HIDE DEF s, t, Follows
<1>6. \A i \in 1 .. h.b : t[i] = [s[i] EXCEPT !.list = Follows(@)]
  <2> TAKE i \in 1 .. h.b
  <2>1. i - 1 \in 0 .. h.b - 1 /\ (i - 1) + 1 = i
    BY <1>5
  <2>2. t[i] = BankOf(k, g, i - 1) /\ s[i] = BankOf(h, f, i - 1)
    BY <1>3, <1>4, <2>1
  <2> QED BY <1>2, <2>1, <2>2, Zenon
<1>7. DOMAIN s = 1 .. h.b /\ t = [i \in 1 .. h.b |-> t[i]]
  BY <1>3, <1>4, <1>5
<1>8. t = [i \in DOMAIN s |-> [s[i] EXCEPT !.list = Follows(@)]]
  BY <1>6, <1>7
<1> QED BY <1>8 DEF s, t, Follows, Following

LEMMA insertChannelActs ==
  ASSUME LaidOut, sound, sound', NEW n \in Names, NEW ct \in Contacts, NEW pos \in Positions,
         insertChannel(n, ct, pos), ret' = 0
  PROVE  Tables!PutChannel([name |-> n, contact |-> ct], pos)
<1> DEFINE h == header
           f == file
           k == [header EXCEPT !.ch = @ + 1]
           item == Item("channel", n, ct)
           row == [name |-> n, contact |-> ct]
           i == Inserted(f, ChannelPos(h, pos), item)
           g == ChNumbering(k, i, pos)
<1>1. /\ pos <= h.ch /\ h.ch < MaxChannels /\ header' = k /\ file' = g
      /\ \A be \in Entries(k, i) : \/ Writable(k, i, be[1], be[2])
                                   \/ At(i, EntryPos(k, i, be[1], be[2])).num < pos
  <2>1. ret' # -1
    OBVIOUS
  <2> QED BY <2>1, Zenon DEF Refused, insertChannel
<1>2. /\ h \in HeaderTypes /\ h \in Headers /\ h.ct \in Nat /\ h.ch \in Nat
      /\ f \in Seq(Items) /\ Layout(h, f)
  BY SoundState
<1>3. k \in HeaderTypes /\ k.ct = h.ct /\ k.ch = h.ch + 1 /\ k.b = h.b
  BY <1>1, <1>2, HeaderRaised
<1>4. k \in Headers
  BY <1>3, HeaderType
<1>5. pos \in 0 .. h.ch /\ pos \in Nat /\ ct \in Int
  BY <1>1, <1>2, BoundAssumption DEF Positions, Contacts
<1>6. item.name = n /\ item.num = ct
  BY DEF Item
<1>7. row \in ChannelRows
  BY <1>5, KindsAndTexts DEF ChannelRows
<1>8. header = h /\ file = f
  OBVIOUS
<1> HIDE DEF h, f, k, item, row
<1>9. /\ i \in Seq(Items) /\ Layout(k, i) /\ SameBanks(h, f, k, i)
      /\ \A p \in 0 .. h.ct - 1 : At(i, p) = At(f, p)
      /\ \A p \in 0 .. h.ch : At(i, ChannelPos(k, p)) =
           IF p < pos THEN At(f, ChannelPos(h, p))
           ELSE IF p = pos THEN item ELSE At(f, ChannelPos(h, p - 1))
  BY <1>2, <1>3, <1>4, <1>5, ChannelInserted DEF item
<1> HIDE DEF i
<1>10. /\ g \in Seq(Items) /\ Len(g) = Len(i) /\ Layout(k, g)
       /\ \A q \in 0 .. Len(i) - 1 : At(i, q).kind # "entry" => At(g, q) = At(i, q)
       /\ \A p \in 0 .. k.b - 1 :
            /\ Bank(k, g, p) = Bank(k, i, p)
            /\ \A e \in 0 .. Bank(k, i, p).num - 1 :
                 At(g, EntryPos(k, g, p, e)).num =
                   Tables!Moved(At(i, EntryPos(k, i, p, e)).num, pos)
  BY <1>1, <1>4, <1>5, <1>9, EntriesMoved
<1> HIDE DEF g
<1>11. ContactsOf(k, g) = ContactsOf(h, f)
  <2>1. ASSUME NEW p \in 0 .. h.ct - 1 PROVE At(g, p) = At(f, p)
    <3>1. p \in 0 .. Len(i) - 1 /\ At(i, p).kind = "contact"
      BY <1>3, <1>4, <1>9, Places DEF Layout
    <3>2. At(g, p) = At(i, p)
      BY <1>10, <3>1
    <3> QED BY <1>9, <3>2
  <2> QED BY <1>2, <1>3, <1>4, <2>1, ContactsSame
<1>12. ChannelsOf(k, g) = InsertAt(ChannelsOf(h, f), pos + 1, row)
  <2> DEFINE s == ChannelsOf(h, f)
             t == ChannelsOf(k, g)
  <2>1. /\ s \in Seq(ChannelRows) /\ Len(s) = h.ch
        /\ \A p \in 0 .. h.ch - 1 : s[p + 1] = ChannelOf(h, f, p)
    BY <1>2, ChannelsAre
  <2>2. /\ t \in Seq(ChannelRows) /\ Len(t) = h.ch + 1
        /\ \A p \in 0 .. h.ch : t[p + 1] = ChannelOf(k, g, p)
    <3>1. (h.ch + 1) - 1 = h.ch
      BY <1>2
    <3> QED BY <1>3, <1>4, <1>10, <3>1, ChannelsAre
  <2>3. ASSUME NEW p \in 0 .. h.ch
        PROVE  At(g, ChannelPos(k, p)) = At(i, ChannelPos(k, p))
    <3>1. p \in 0 .. k.ch - 1
      BY <1>2, <1>3
    <3>2. ChannelPos(k, p) \in 0 .. Len(i) - 1 /\ At(i, ChannelPos(k, p)).kind = "channel"
      BY <1>4, <1>9, <3>1, Places DEF Layout
    <3> QED BY <1>10, <3>2
  <2>4. ASSUME NEW p \in 0 .. h.ch
        PROVE  /\ p < pos => ChannelOf(k, g, p) = ChannelOf(h, f, p)
               /\ p = pos => ChannelOf(k, g, p) = row
               /\ p > pos => ChannelOf(k, g, p) = ChannelOf(h, f, p - 1)
    <3>1. At(g, ChannelPos(k, p)) =
           IF p < pos THEN At(f, ChannelPos(h, p))
           ELSE IF p = pos THEN item ELSE At(f, ChannelPos(h, p - 1))
      BY <1>9, <2>3
    <3>2. (p = pos => ~ (p < pos)) /\ (p > pos => ~ (p < pos) /\ p # pos)
      BY <1>5
    <3>3. p < pos => At(g, ChannelPos(k, p)) = At(f, ChannelPos(h, p))
      BY <3>1
    <3>4. p = pos => At(g, ChannelPos(k, p)) = item
      BY <3>1, <3>2
    <3>5. p > pos => At(g, ChannelPos(k, p)) = At(f, ChannelPos(h, p - 1))
      BY <3>1, <3>2
    <3> QED BY <1>6, <3>3, <3>4, <3>5 DEF ChannelOf, row
  <2> HIDE DEF s, t
  <2>5. \A p \in 0 .. h.ch : /\ p < pos => t[p + 1] = s[p + 1]
                             /\ p = pos => t[p + 1] = row
                             /\ p > pos => t[p + 1] = s[p]
    <3> TAKE p \in 0 .. h.ch
    <3>1. /\ p < pos => p \in 0 .. h.ch - 1
          /\ p > pos => p - 1 \in 0 .. h.ch - 1 /\ (p - 1) + 1 = p
      BY <1>2, <1>5
    <3> QED BY <2>1, <2>2, <2>4, <3>1
  <2>6. row \in ChannelRows
    BY <1>7
  <2>7. RowPut(s, t, pos, row)
    BY <1>5, <2>1, <2>2, <2>5 DEF RowPut
  <2>8. t = InsertAt(s, pos + 1, row)
    BY <2>1, <2>2, <2>6, <2>7, RowInserted
  <2> QED BY <2>8 DEF s, t
<1>13. BanksOf(k, g) = Following(BanksOf(h, f), pos)
  <2>1. ASSUME NEW p \in 0 .. h.b - 1
        PROVE  /\ Bank(k, g, p) = Bank(h, f, p)
               /\ \A e \in 0 .. Bank(h, f, p).num - 1 :
                    At(g, EntryPos(k, g, p, e)).num =
                      Tables!Moved(At(f, EntryPos(h, f, p, e)).num, pos)
    <3>1. /\ Bank(k, i, p) = Bank(h, f, p)
          /\ \A e \in 0 .. Bank(h, f, p).num - 1 :
               At(i, EntryPos(k, i, p, e)) = At(f, EntryPos(h, f, p, e))
      BY <1>9 DEF SameBanks, BankAs
    <3>2. p \in 0 .. k.b - 1
      BY <1>3
    <3> QED BY <1>10, <3>1, <3>2
  <2> QED BY <1>2, <1>3, <1>4, <1>10, <2>1, BanksFollow
<1>14. pos \in Tables!Places(ChannelsOf(h, f))
  BY <1>2, <1>5, ChannelsAre DEF Tables!Places
<1>15. /\ ContactsRead = ContactsOf(h, f) /\ ContactsRead' = ContactsOf(k, g)
       /\ ChannelsRead = ChannelsOf(h, f) /\ ChannelsRead' = ChannelsOf(k, g)
       /\ BanksRead = BanksOf(h, f) /\ BanksRead' = BanksOf(k, g)
  BY <1>1, <1>2, <1>4, <1>8, TablesSeen
<1>16. ChannelsRead' = Tables!InsertAt(ChannelsRead, pos + 1, row)
  BY <1>12, <1>15, InsertAtTables
<1> QED BY <1>11, <1>13, <1>14, <1>15, <1>16 DEF Tables!PutChannel, Following, row

(* What is in front of the offsets is the contacts and the channels.       *)
SameFront(h, f, g) == \A q \in 0 .. h.ct + h.ch - 1 : At(g, q) = At(f, q)

LEMMA FrontSame ==
  ASSUME NEW h \in Headers, NEW f, NEW k \in Headers, NEW g, k.ct = h.ct, k.ch = h.ch,
         SameFront(h, f, g)
  PROVE  ContactsOf(k, g) = ContactsOf(h, f) /\ ChannelsOf(k, g) = ChannelsOf(h, f)
<1>1. h.ct \in Nat /\ h.ch \in Nat
  BY DEF Headers
<1>2. \A p \in 0 .. h.ct - 1 : At(g, p) = At(f, p)
  <2>1. \A p \in 0 .. h.ct - 1 : p \in 0 .. h.ct + h.ch - 1
    BY <1>1
  <2> QED BY <2>1 DEF SameFront
<1>3. \A p \in 0 .. h.ch - 1 : At(g, ChannelPos(k, p)) = At(f, ChannelPos(h, p))
  <2> TAKE p \in 0 .. h.ch - 1
  <2>1. h.ct + p \in 0 .. h.ct + h.ch - 1
    BY <1>1
  <2> QED BY <2>1 DEF ChannelPos, SameFront
<1> QED BY <1>2, <1>3, ContactsSame, ChannelsSame

LEMMA insertBankHeaderActs ==
  ASSUME LaidOut, sound, NEW n \in Names, NEW pos \in Positions, insertBankHeader(n, pos), ret' = 0
  PROVE  Tables!PutBank(n, pos)
<1> DEFINE h    == header
           f    == file
           k    == [header EXCEPT !.b = @ + 1]
           at   == OffsetPos(h, pos)
           new  == BankDataOffset(h, f, pos) - BankDataOffset(h, f, 0)
           r    == OffsetsRaised(k, Inserted(f, at, Number("offset", new)), at + 1)
           item == Item("bank", n, 0)
           g    == Inserted(r, BankDataOffset(k, r, pos), item)
           row  == [name |-> n, list |-> <<>>]
<1>1. pos <= h.b /\ h.b < MaxBanks /\ header' = k /\ file' = g
  BY DEF Refused, insertBankHeader
<1>2. /\ h \in HeaderTypes /\ h \in Headers /\ h.b \in Nat
      /\ f \in Seq(Items) /\ Layout(h, f)
  BY SoundState
<1>3. k \in HeaderTypes /\ k.ct = h.ct /\ k.ch = h.ch /\ k.b = h.b + 1
  BY <1>1, <1>2, HeaderRaised
<1>4. k \in Headers
  BY <1>3, HeaderType
<1>5. pos \in 0 .. h.b
  BY <1>1, <1>2, BoundAssumption DEF Positions
<1>6. header = h /\ file = f
  OBVIOUS
<1>7. item.name = n /\ item.num = 0
  BY DEF Item
<1>8. row \in BankRows
  <2>1. <<>> \in Seq(Int)
    OBVIOUS
  <2> QED BY <2>1, KindsAndTexts DEF BankRows
<1> HIDE DEF h, f, k
<1>9. /\ g \in Seq(Items) /\ Layout(k, g)
      /\ \A q \in 0 .. h.ct + h.ch - 1 : At(g, q) = At(f, q)
      /\ BankPut(h, f, k, g, pos) /\ Bank(k, g, pos) = item
  BY <1>2, <1>3, <1>4, <1>5, BankInserted, ZenonT(60)
<1> HIDE DEF g, item, row
<1>10. ContactsOf(k, g) = ContactsOf(h, f) /\ ChannelsOf(k, g) = ChannelsOf(h, f)
  <2>1. SameFront(h, f, g)
    BY <1>9 DEF SameFront
  <2> QED BY <1>2, <1>3, <1>4, <2>1, FrontSame
<1>11. BankOf(k, g, pos) = row
  <2>1. Bank(k, g, pos).name = n /\ Bank(k, g, pos).num = 0
    BY <1>7, <1>9
  <2>2. ListOf(k, g, pos) = <<>>
    <3>1. 1 .. 0 = {}
      OBVIOUS
    <3> QED BY <2>1, <3>1 DEF ListOf
  <2> QED BY <2>1, <2>2 DEF BankOf, row
<1>12. BanksOf(k, g) = InsertAt(BanksOf(h, f), pos + 1, row)
  <2> DEFINE s == BanksOf(h, f)
             t == BanksOf(k, g)
  <2>1. /\ s \in Seq(BankRows) /\ Len(s) = h.b
        /\ \A p \in 0 .. h.b - 1 : s[p + 1] = BankOf(h, f, p)
    BY <1>2, BanksAreRows
  <2>2. /\ t \in Seq(BankRows) /\ Len(t) = h.b + 1
        /\ \A p \in 0 .. h.b : t[p + 1] = BankOf(k, g, p)
    <3>1. (h.b + 1) - 1 = h.b
      BY <1>2
    <3> QED BY <1>3, <1>4, <1>9, <3>1, BanksAreRows
  <2> HIDE DEF s, t
  <2>3. ASSUME NEW p \in 0 .. h.b, p < pos
        PROVE  t[p + 1] = s[p + 1]
    <3>1. p \in 0 .. h.b - 1
      BY <1>2, <1>5, <2>3
    <3>2. BankAs(h, f, p, k, g, p)
      BY <1>9, <2>3 DEF BankPut
    <3>3. Bank(h, f, p).num \in Nat
      BY <1>2, <3>1, Places
    <3> QED BY <2>1, <2>2, <3>1, <3>2, <3>3, BankSame
  <2>4. ASSUME NEW p \in 0 .. h.b, p > pos
        PROVE  t[p + 1] = s[p]
    <3>1. p - 1 \in 0 .. h.b - 1 /\ (p - 1) + 1 = p
      BY <1>2, <1>5, <2>4
    <3>2. BankAs(h, f, p - 1, k, g, p)
      BY <1>9, <2>4 DEF BankPut
    <3>3. Bank(h, f, p - 1).num \in Nat
      BY <1>2, <3>1, Places
    <3>4. BankOf(k, g, p) = BankOf(h, f, p - 1)
      BY <3>2, <3>3, BankSame
    <3> QED BY <2>1, <2>2, <3>1, <3>4
  <2>5. \A p \in 0 .. h.b : /\ p < pos => t[p + 1] = s[p + 1]
                            /\ p = pos => t[p + 1] = row
                            /\ p > pos => t[p + 1] = s[p]
    BY <1>11, <2>2, <2>3, <2>4
  <2>6. row \in BankRows
    BY <1>8
  <2>7. RowPut(s, t, pos, row)
    BY <1>5, <2>1, <2>2, <2>5 DEF RowPut
  <2>8. t = InsertAt(s, pos + 1, row)
    BY <2>1, <2>2, <2>6, <2>7, RowInserted
  <2> QED BY <2>8 DEF s, t
<1>13. pos \in Tables!Places(BanksOf(h, f))
  BY <1>2, <1>5, BanksAreRows DEF Tables!Places
<1>14. /\ ContactsRead = ContactsOf(h, f) /\ ContactsRead' = ContactsOf(k, g)
       /\ ChannelsRead = ChannelsOf(h, f) /\ ChannelsRead' = ChannelsOf(k, g)
       /\ BanksRead = BanksOf(h, f) /\ BanksRead' = BanksOf(k, g)
  BY <1>1, <1>2, <1>4, <1>6, TablesSeen
<1>15. BanksRead' = Tables!InsertAt(BanksRead, pos + 1, row)
  BY <1>12, <1>14, InsertAtTables
<1> QED BY <1>10, <1>13, <1>14, <1>15 DEF Tables!PutBank, row

(* The banks when one of them has another list.                            *)
OthersAs(h, f, g, bank) ==
  \A p \in 0 .. h.b - 1 : p # bank => BankAs(h, f, p, h, g, p)

LEMMA ListReplaced ==
  ASSUME NEW h \in Headers, NEW f \in Seq(Items), Layout(h, f),
         NEW g \in Seq(Items), Layout(h, g), NEW bank \in 0 .. h.b - 1,
         OthersAs(h, f, g, bank), Bank(h, g, bank).name = Bank(h, f, bank).name
  PROVE  /\ BanksOf(h, g) = [BanksOf(h, f) EXCEPT ![bank + 1].list = ListOf(h, g, bank)]
         /\ bank + 1 \in DOMAIN BanksOf(h, f)
         /\ BanksOf(h, f)[bank + 1].list = ListOf(h, f, bank)
<1> DEFINE s == BanksOf(h, f)
           t == BanksOf(h, g)
           row == [BankOf(h, f, bank) EXCEPT !.list = ListOf(h, g, bank)]
<1>1. row = BankOf(h, g, bank)
  BY DEF BankOf
<1>2. row \in BankRows
  <2>1. BankOf(h, g, bank) \in BankRows
    BY ListIs, Zenon
  <2> QED BY <1>1, <2>1
<1>3. /\ s \in Seq(BankRows) /\ Len(s) = h.b
      /\ \A p \in 0 .. h.b - 1 : s[p + 1] = BankOf(h, f, p)
  BY BanksAreRows
<1>4. /\ t \in Seq(BankRows) /\ Len(t) = h.b
      /\ \A p \in 0 .. h.b - 1 : t[p + 1] = BankOf(h, g, p)
  BY BanksAreRows
<1>5. \A p \in 0 .. h.b - 1 : p # bank => BankOf(h, g, p) = BankOf(h, f, p)
  <2>1. \A p \in 0 .. h.b - 1 : Bank(h, f, p).num \in Nat
    BY Places
  <2> QED BY <2>1, BankSame DEF OthersAs
<1>6. s[bank + 1] = BankOf(h, f, bank) /\ s[bank + 1].list = ListOf(h, f, bank)
  BY <1>3 DEF BankOf
<1> HIDE DEF s, t, row
<1>7. RowSet(s, t, bank, row)
  BY <1>1, <1>3, <1>4, <1>5 DEF RowSet
<1>8. s \in Seq(BankRows) /\ t \in Seq(BankRows) /\ row \in BankRows
  BY <1>2, <1>3, <1>4
<1>9. t = [s EXCEPT ![bank + 1] = row] /\ bank + 1 \in DOMAIN s
  BY <1>7, <1>8, RowReplaced
<1>10. row = [s[bank + 1] EXCEPT !.list = ListOf(h, g, bank)]
  BY <1>6 DEF row
<1>11. t = [s EXCEPT ![bank + 1].list = ListOf(h, g, bank)]
  BY <1>9, <1>10
<1> QED BY <1>6, <1>9, <1>11 DEF s, t

LEMMA insertBankDataActs ==
  ASSUME LaidOut, sound, sound', NEW ch \in Channels, NEW bank \in 0 .. MaxBanks,
         NEW pos \in Positions, insertBankData(ch, bank, pos), ret' = 0
  PROVE  Tables!PutBankEntry(ch, bank, pos)
<1> DEFINE h == header
           f == file
           r == OffsetsRaised(h, f, OffsetPos(h, bank + 1))
           a == BankPos(h, f, bank)
           entry == Number("entry", ch)
           g == Inserted(Raised(r, {a}), a + 1 + pos, entry)
<1>1. /\ bank < h.b /\ At(f, a).num < MaxEntries /\ header' = h
      /\ pos <= At(f, a).num /\ file' = g
  BY DEF Refused, insertBankData
<1>2. /\ h \in Headers /\ h.ct \in Nat /\ h.ch \in Nat /\ h.b \in Nat
      /\ f \in Seq(Items) /\ Layout(h, f)
  BY SoundState
<1>3. bank \in 0 .. h.b - 1 /\ ch \in Int /\ pos \in Nat
  BY <1>1, <1>2, BoundAssumption DEF Channels, Positions
<1>4. At(f, a) = Bank(h, f, bank) /\ Bank(h, f, bank).num \in Nat
  BY <1>2, <1>3, Places DEF Bank
<1>5. header = h /\ file = f
  OBVIOUS
<1> HIDE DEF h, f
<1>6. CASE pos <= At(f, a).num
  <2>1. /\ pos \in 0 .. Bank(h, f, bank).num
        /\ Bank(h, f, bank).num < MaxEntries
    BY <1>1, <1>3, <1>4, <1>6
  <2>2. entry.num = ch
    BY DEF Number
  <2>3. /\ g \in Seq(Items) /\ Layout(h, g)
        /\ \A q \in 0 .. h.ct + h.ch - 1 : At(g, q) = At(f, q)
        /\ \A p \in 0 .. h.b - 1 : p # bank => BankAs(h, f, p, h, g, p)
        /\ Bank(h, g, bank).name = Bank(h, f, bank).name
        /\ Bank(h, g, bank).num = Bank(h, f, bank).num + 1
        /\ EntryPut(h, f, g, bank, pos, entry)
    BY <1>2, <1>3, <2>1, EntryInserted, Zenon
  <2>4. file' = g
    BY <1>1, <1>6
  <2> HIDE DEF g, entry
  <2>5. ContactsOf(h, g) = ContactsOf(h, f) /\ ChannelsOf(h, g) = ChannelsOf(h, f)
    <3>1. SameFront(h, f, g)
      BY <2>3 DEF SameFront
    <3> QED BY <1>2, <3>1, FrontSame
  <2> DEFINE n == Bank(h, f, bank).num
             s == ListOf(h, f, bank)
             t == ListOf(h, g, bank)
  <2>6. /\ s \in Seq(Int) /\ Len(s) = n
        /\ \A e \in 0 .. n - 1 : s[e + 1] = At(f, EntryPos(h, f, bank, e)).num
    BY <1>2, <1>3, ListIs
  <2>7. /\ t \in Seq(Int) /\ Len(t) = n + 1
        /\ \A e \in 0 .. n : t[e + 1] = At(g, EntryPos(h, g, bank, e)).num
    <3>1. (n + 1) - 1 = n
      BY <1>4
    <3> QED BY <1>2, <1>3, <2>3, <3>1, ListIs
  <2>8. t = InsertAt(s, pos + 1, ch)
    <3>1. n \in Nat /\ pos \in 0 .. n
      BY <1>4, <2>1
    <3>2. \A e \in 0 .. n :
            /\ e < pos => At(g, EntryPos(h, g, bank, e)) = At(f, EntryPos(h, f, bank, e))
            /\ e = pos => At(g, EntryPos(h, g, bank, e)) = entry
            /\ e > pos => At(g, EntryPos(h, g, bank, e)) = At(f, EntryPos(h, f, bank, e - 1))
      BY <2>3 DEF EntryPut
    <3> HIDE DEF n, s, t
    <3>3. ASSUME NEW e \in 0 .. n
          PROVE  /\ e < pos => t[e + 1] = s[e + 1]
                 /\ e = pos => t[e + 1] = ch
                 /\ e > pos => t[e + 1] = s[e]
      <4>1. /\ e < pos => e \in 0 .. n - 1
            /\ e > pos => e - 1 \in 0 .. n - 1 /\ (e - 1) + 1 = e
        BY <3>1
      <4>2. t[e + 1] = At(g, EntryPos(h, g, bank, e)).num
        BY <2>7
      <4>3. e < pos => t[e + 1] = s[e + 1]
        BY <2>6, <3>2, <4>1, <4>2
      <4>4. e = pos => t[e + 1] = ch
        BY <2>2, <3>2, <4>1, <4>2
      <4>5. e > pos => t[e + 1] = s[e]
        BY <2>6, <3>2, <4>1, <4>2
      <4> QED BY <4>3, <4>4, <4>5
    <3>4. RowPut(s, t, pos, ch)
      BY <2>6, <2>7, <3>1, <3>3 DEF RowPut
    <3>5. s \in Seq(Int) /\ t \in Seq(Int) /\ ch \in Int
      BY <1>3, <2>6, <2>7
    <3> QED BY <3>4, <3>5, RowInserted
  <2> HIDE DEF n
  <2>9. /\ BanksOf(h, g) = [BanksOf(h, f) EXCEPT ![bank + 1].list = t]
        /\ bank + 1 \in DOMAIN BanksOf(h, f)
        /\ BanksOf(h, f)[bank + 1].list = s
    <3>1. OthersAs(h, f, g, bank)
      BY <2>3 DEF OthersAs
    <3>2. /\ h \in Headers /\ f \in Seq(Items) /\ Layout(h, f)
          /\ g \in Seq(Items) /\ Layout(h, g) /\ bank \in 0 .. h.b - 1
          /\ Bank(h, g, bank).name = Bank(h, f, bank).name
      BY <1>2, <1>3, <2>3
    <3> QED BY <3>1, <3>2, ListReplaced
  <2> HIDE DEF s, t
  <2>10. /\ ContactsRead = ContactsOf(h, f) /\ ContactsRead' = ContactsOf(h, g)
         /\ ChannelsRead = ChannelsOf(h, f) /\ ChannelsRead' = ChannelsOf(h, g)
         /\ BanksRead = BanksOf(h, f) /\ BanksRead' = BanksOf(h, g)
    BY <1>1, <1>2, <1>5, <2>4, TablesSeen
  <2>11. pos \in Tables!Places(BanksRead[bank + 1].list)
    BY <2>1, <2>6, <2>9, <2>10 DEF Tables!Places, n
  <2>12. t = Tables!InsertAt(BanksRead[bank + 1].list, pos + 1, ch)
    BY <2>8, <2>9, <2>10, InsertAtTables
  <2>13. BanksRead' = [BanksRead EXCEPT ![bank + 1].list = Tables!InsertAt(@, pos + 1, ch)]
    BY <2>9, <2>10, <2>12
  <2>14. Tables!PutBankEntry(ch, bank, pos)
    BY <2>5, <2>9, <2>10, <2>11, <2>13 DEF Tables!PutBankEntry
  <2> QED BY <2>14
<1> QED BY <1>1, <1>6

(* No cell is an entry of two banks, or two entries of one.                *)
LEMMA EntriesInOrder ==
  ASSUME NEW h \in Headers, NEW f \in Seq(Items), Layout(h, f),
         NEW p \in 0 .. h.b - 1, NEW q \in 0 .. h.b - 1, p < q,
         NEW d \in 0 .. Bank(h, f, p).num - 1, NEW e \in 0 .. Bank(h, f, q).num - 1
  PROVE  EntryPos(h, f, p, d) < EntryPos(h, f, q, e)
<1> DEFINE a == Start(h, f, p)
           b == Start(h, f, q)
           m == Bank(h, f, p).num
<1>1. /\ a \in Nat /\ b \in Nat /\ m \in Nat /\ d \in 0 .. m - 1 /\ e \in Nat
  <2>1. a \in 0 .. Len(f) - 1 /\ b \in 0 .. Len(f) - 1 /\ m \in Nat
    BY BanksWithin, Places
  <2>2. e \in Nat
    <3>1. Bank(h, f, q).num \in Nat
      BY Places
    <3> QED BY <3>1
  <2> QED BY <2>1, <2>2
<1>2. EntryPos(h, f, p, d) = a + 1 + d /\ EntryPos(h, f, q, e) = b + 1 + e
  BY Places
<1>3. a + 1 + m <= b
  <2>1. q \in 0 .. h.b /\ p \in 0 .. q - 1
    BY DEF Headers
  <2>2. End(h, f, p) <= Start(h, f, q)
    BY <2>1, Ordered
  <2> QED BY <2>2 DEF End
<1> HIDE DEF a, b, m
<1> QED BY <1>1, <1>2, <1>3

LEMMA EntriesApart ==
  ASSUME NEW h \in Headers, NEW f \in Seq(Items), Layout(h, f),
         NEW p \in 0 .. h.b - 1, NEW q \in 0 .. h.b - 1,
         NEW d \in 0 .. Bank(h, f, p).num - 1, NEW e \in 0 .. Bank(h, f, q).num - 1,
         EntryPos(h, f, p, d) = EntryPos(h, f, q, e)
  PROVE  p = q /\ d = e
<1> DEFINE x == EntryPos(h, f, p, d)
           y == EntryPos(h, f, q, e)
<1>1. x \in Int /\ y \in Int /\ x = y /\ p \in Int /\ q \in Int
  <2>1. x \in 0 .. Len(f) - 1 /\ y \in 0 .. Len(f) - 1
    BY BanksWithin
  <2>2. h.b \in Nat
    BY DEF Headers
  <2> HIDE DEF x, y
  <2>3. x \in Int /\ y \in Int
    BY <2>1
  <2> QED BY <2>2, <2>3 DEF x, y
<1>2. (p < q => x < y) /\ (q < p => y < x)
  BY EntriesInOrder
<1>3. p = q
  <2> HIDE DEF x, y
  <2> QED BY <1>1, <1>2
<1>4. d = e
  <2> DEFINE a == Start(h, f, p)
  <2>1. x = a + 1 + d /\ y = a + 1 + e
    BY <1>3, Places
  <2>2. a \in 0 .. Len(f) - 1 /\ Bank(h, f, p).num \in Nat
    BY BanksWithin, Places
  <2>3. d \in Int /\ e \in Int /\ a \in Int
    BY <1>3, <2>2
  <2>4. x = y
    BY <1>1
  <2> HIDE DEF a, x, y
  <2> QED BY <2>1, <2>3, <2>4
<1> QED BY <1>3, <1>4

LEMMA writeBankDataActs ==
  ASSUME LaidOut, sound, sound', NEW ch \in Channels, NEW bank \in 0 .. MaxBanks,
         NEW pos \in Positions, writeBankData(ch, bank, pos), ret' = 0
  PROVE  Tables!SetBankEntry(ch, bank, pos)
<1> DEFINE h == header
           f == file
           item == Number("entry", ch)
           x == EntryPos(h, f, bank, pos)
           g == Overwritten(f, x, item)
<1>1. /\ bank < h.b /\ pos < At(f, BankPos(h, f, bank)).num
      /\ header' = h /\ file' = g
  <2>1. header.b \in Nat /\ bank \in Int
    BY BoundAssumption, SoundState
  <2>2. bank < header.b
    <3>1. ~ (bank >= header.b)
      BY writeBankDataStray, Zenon
    <3> QED BY <2>1, <3>1
  <2>3. ~ (bank >= header.b)
    BY <2>1, <2>2
  <2> QED BY <2>2, <2>3 DEF Refused, writeBankData, Writable
<1>2. /\ h \in Headers /\ h.ct \in Nat /\ h.ch \in Nat /\ h.b \in Nat
      /\ f \in Seq(Items) /\ Layout(h, f)
  BY SoundState
<1>3. bank \in 0 .. h.b - 1 /\ ch \in Int /\ pos \in Nat
  BY <1>1, <1>2, BoundAssumption DEF Channels, Positions
<1>4. /\ At(f, BankPos(h, f, bank)) = Bank(h, f, bank)
      /\ Bank(h, f, bank).num \in Nat
  BY <1>2, <1>3, Places DEF Bank
<1>5. pos \in 0 .. Bank(h, f, bank).num - 1
  BY <1>1, <1>3, <1>4
<1>6. header = h /\ file = f
  OBVIOUS
<1> HIDE DEF h, f
<1>7. x \in 0 .. Len(f) - 1 /\ At(f, x).kind = "entry"
  BY <1>2, <1>3, <1>5, BanksWithin DEF Layout, Bank
<1>8. item \in Items /\ item.kind = "entry" /\ item.num = ch
  BY <1>3, KindsAndTexts, NumberType DEF Number
<1> HIDE DEF item, x
<1>9. /\ g \in Seq(Items) /\ Layout(h, g) /\ At(g, x) = item
      /\ \A q \in 0 .. Len(f) - 1 : q # x => At(g, q) = At(f, q)
      /\ \A q \in 0 .. h.b : Start(h, g, q) = Start(h, f, q)
  BY <1>2, <1>7, <1>8, OverwrittenSame
<1> HIDE DEF g
<1>10. /\ ContactsOf(h, g) = ContactsOf(h, f) /\ ChannelsOf(h, g) = ChannelsOf(h, f)
  <2>1. ASSUME NEW p \in 0 .. h.ct - 1 PROVE At(g, p) = At(f, p)
    <3>1. p \in 0 .. Len(f) - 1 /\ At(f, p).kind = "contact"
      BY <1>2, Places DEF Layout
    <3>2. p # x
      BY <1>7, <3>1
    <3> QED BY <1>9, <3>1, <3>2
  <2>2. ASSUME NEW p \in 0 .. h.ch - 1
        PROVE  At(g, ChannelPos(h, p)) = At(f, ChannelPos(h, p))
    <3>1. ChannelPos(h, p) \in 0 .. Len(f) - 1 /\ At(f, ChannelPos(h, p)).kind = "channel"
      BY <1>2, Places DEF Layout
    <3>2. ChannelPos(h, p) # x
      BY <1>7, <3>1
    <3> QED BY <1>9, <3>1, <3>2
  <2>3. ContactsOf(h, g) = ContactsOf(h, f)
    BY <1>2, <2>1, ContactsSame
  <2>4. ChannelsOf(h, g) = ChannelsOf(h, f)
    BY <1>2, <2>2, ChannelsSame
  <2> QED BY <2>3, <2>4
<1>11. ASSUME NEW p \in 0 .. h.b - 1
       PROVE  /\ Bank(h, g, p) = Bank(h, f, p)
              /\ Start(h, g, p) = Start(h, f, p)
              /\ BankPos(h, g, p) = BankPos(h, f, p)
  <2>1. p \in 0 .. h.b /\ p < h.b
    BY <1>2
  <2>2. Start(h, g, p) = Start(h, f, p)
    BY <1>9, <2>1
  <2>3. Start(h, f, p) \in 0 .. Len(f) - 1 /\ At(f, Start(h, f, p)).kind = "bank"
    BY <1>2, BanksWithin DEF Layout
  <2>4. Start(h, f, p) # x
    BY <1>7, <2>3
  <2> QED BY <1>9, <2>1, <2>2, <2>3, <2>4 DEF Bank, Start
<1>12. ASSUME NEW p \in 0 .. h.b - 1, NEW e \in 0 .. Bank(h, f, p).num - 1,
              p # bank \/ e # pos
       PROVE  /\ At(g, EntryPos(h, f, p, e)) = At(f, EntryPos(h, f, p, e))
  <2>1. EntryPos(h, f, p, e) \in 0 .. Len(f) - 1
    BY <1>2, BanksWithin
  <2>2. EntryPos(h, f, p, e) # x
    BY <1>2, <1>3, <1>5, <1>12, EntriesApart DEF x
  <2> QED BY <1>9, <2>1, <2>2
<1>13. ASSUME NEW p \in 0 .. h.b - 1, p # bank PROVE BankAs(h, f, p, h, g, p)
  <2>1. Start(h, g, p) = Start(h, f, p) /\ At(g, Start(h, f, p)) = At(f, Start(h, f, p))
    BY <1>11 DEF Bank
  <2>2. \A e \in 0 .. Bank(h, f, p).num - 1 :
          At(g, EntryPos(h, f, p, e)) = At(f, EntryPos(h, f, p, e))
    BY <1>12, <1>13
  <2> QED BY <1>2, <2>1, <2>2, BankUntouched
<1> DEFINE n == Bank(h, f, bank).num
           s == ListOf(h, f, bank)
           t == ListOf(h, g, bank)
<1>14. /\ s \in Seq(Int) /\ Len(s) = n
       /\ \A e \in 0 .. n - 1 : s[e + 1] = At(f, EntryPos(h, f, bank, e)).num
  BY <1>2, <1>3, ListIs
<1>15. /\ t \in Seq(Int) /\ Len(t) = n
       /\ \A e \in 0 .. n - 1 : t[e + 1] = At(g, EntryPos(h, f, bank, e)).num
  <2>1. Bank(h, g, bank).num = n
    BY <1>3, <1>11
  <2>2. \A e : EntryPos(h, g, bank, e) = EntryPos(h, f, bank, e)
    BY <1>3, <1>11 DEF EntryPos
  <2>3. /\ t \in Seq(Int) /\ Len(t) = n
        /\ \A e \in 0 .. n - 1 : t[e + 1] = At(g, EntryPos(h, g, bank, e)).num
    BY <1>2, <1>3, <1>9, <2>1, ListIs
  <2> HIDE DEF n, t
  <2> QED BY <2>2, <2>3
<1>16. t = [s EXCEPT ![pos + 1] = ch] /\ pos + 1 \in DOMAIN s
  <2>1. \A e \in 0 .. n - 1 : e # pos => t[e + 1] = s[e + 1]
    BY <1>3, <1>12, <1>14, <1>15
  <2>2. t[pos + 1] = ch
    BY <1>5, <1>8, <1>9, <1>15 DEF x
  <2>3. pos \in 0 .. n - 1
    BY <1>5
  <2> HIDE DEF n, s, t
  <2>4. RowSet(s, t, pos, ch)
    BY <1>14, <1>15, <2>1, <2>2, <2>3 DEF RowSet
  <2> QED BY <1>3, <1>14, <1>15, <2>4, RowReplaced
<1>17. /\ BanksOf(h, g) = [BanksOf(h, f) EXCEPT ![bank + 1].list = t]
       /\ bank + 1 \in DOMAIN BanksOf(h, f)
       /\ BanksOf(h, f)[bank + 1].list = s
  <2>1. Bank(h, g, bank).name = Bank(h, f, bank).name
    BY <1>3, <1>11
  <2>2. OthersAs(h, f, g, bank)
    BY <1>13 DEF OthersAs
  <2>3. /\ h \in Headers /\ f \in Seq(Items) /\ Layout(h, f)
        /\ g \in Seq(Items) /\ Layout(h, g) /\ bank \in 0 .. h.b - 1
    BY <1>2, <1>3, <1>9
  <2> QED BY <2>1, <2>2, <2>3, ListReplaced
<1> HIDE DEF n, s, t
<1>18. /\ ContactsRead = ContactsOf(h, f) /\ ContactsRead' = ContactsOf(h, g)
       /\ ChannelsRead = ChannelsOf(h, f) /\ ChannelsRead' = ChannelsOf(h, g)
       /\ BanksRead = BanksOf(h, f) /\ BanksRead' = BanksOf(h, g)
  BY <1>1, <1>2, <1>6, TablesSeen
<1>19. BanksRead' = [BanksRead EXCEPT ![bank + 1].list[pos + 1] = ch]
  BY <1>16, <1>17, <1>18
<1> QED BY <1>10, <1>16, <1>17, <1>18, <1>19 DEF Tables!SetBankEntry

(* The places of the tables that are read, as the guards have them.        *)
LEMMA PlacesRead ==
  ASSUME LaidOut, sound
  PROVE  /\ Tables!Places(ContactsRead) = 0 .. header.ct
         /\ Tables!Places(ChannelsRead) = 0 .. header.ch
         /\ Tables!Places(BanksRead) = 0 .. header.b
         /\ DOMAIN ContactsRead = 1 .. header.ct
         /\ DOMAIN ChannelsRead = 1 .. header.ch
         /\ DOMAIN BanksRead = 1 .. header.b
<1>1. /\ header \in Headers /\ file \in Seq(Items) /\ Layout(header, file)
  BY SoundState
<1>2. /\ ContactsRead = ContactsOf(header, file)
      /\ ChannelsRead = ChannelsOf(header, file)
      /\ BanksRead = BanksOf(header, file)
  BY <1>1, TablesRead
<1>3. ContactsRead \in Seq(Texts) /\ Len(ContactsRead) = header.ct
  BY <1>1, <1>2, ContactRows
<1>4. ChannelsRead \in Seq(ChannelRows) /\ Len(ChannelsRead) = header.ch
  BY <1>1, <1>2, ChannelsAre
<1>5. BanksRead \in Seq(BankRows) /\ Len(BanksRead) = header.b
  BY <1>1, <1>2, BanksAreRows
<1>6. \A s, S : s \in Seq(S) => DOMAIN s = 1 .. Len(s)
  OBVIOUS
<1>7. /\ DOMAIN ContactsRead = 1 .. header.ct
      /\ DOMAIN ChannelsRead = 1 .. header.ch
      /\ DOMAIN BanksRead = 1 .. header.b
  BY <1>3, <1>4, <1>5, <1>6, Zenon
<1> QED BY <1>3, <1>4, <1>5, <1>7, Zenon DEF Tables!Places

LEMMA ListRead ==
  ASSUME LaidOut, sound, NEW bank \in 0 .. header.b - 1
  PROVE  /\ Bank(header, file, bank).num \in Nat
         /\ At(file, BankPos(header, file, bank)) = Bank(header, file, bank)
         /\ Tables!Places(BanksRead[bank + 1].list) = 0 .. Bank(header, file, bank).num
         /\ DOMAIN BanksRead[bank + 1].list = 1 .. Bank(header, file, bank).num
<1> DEFINE s == BanksOf(header, file)
           l == ListOf(header, file, bank)
<1>1. header \in Headers /\ header.b \in Nat /\ file \in Seq(Items) /\ Layout(header, file)
  BY SoundState
<1>2. BanksRead = s
  BY <1>1, TablesRead
<1>3. bank + 1 \in 1 .. header.b /\ (bank + 1) - 1 = bank
  BY <1>1
<1>4. s[bank + 1] = BankOf(header, file, bank)
  BY <1>3 DEF BanksOf
<1>5. BankOf(header, file, bank).list = l
  BY DEF BankOf
<1>6. l \in Seq(Int) /\ Len(l) = Bank(header, file, bank).num
  BY <1>1, ListIs
<1> HIDE DEF s, l
<1>7. DOMAIN l = 1 .. Len(l)
  BY <1>6
<1>8. BanksRead[bank + 1].list = l
  BY <1>2, <1>4, <1>5
<1>9. /\ Bank(header, file, bank).num \in Nat
      /\ At(file, BankPos(header, file, bank)) = Bank(header, file, bank)
  BY <1>1, Places DEF Bank
<1> QED BY <1>6, <1>7, <1>8, <1>9, Zenon DEF Tables!Places

(* A call that returns -1 changes no table.                                *)
LEMMA RefusalsChangeNothing ==
  ASSUME LaidOut, [Next]_vars, sound, sound', ret' = -1
  PROVE  UNCHANGED Tables!tables
<1>1. CASE UNCHANGED vars
  <2>1. header' = header /\ file' = file
    BY <1>1 DEF vars
  <2> QED BY <2>1, StutterActs
<1>2. CASE create
  BY <1>2 DEF create
<1>3. ASSUME Refused PROVE UNCHANGED Tables!tables
  <2>1. header' = header /\ file' = file
    BY <1>3 DEF Refused
  <2> QED BY <2>1, StutterActs
<1>4. ASSUME NEW bank \in 0 .. MaxBanks, NEW pos \in Positions, SpoilsOffsets(bank, pos)
      PROVE  UNCHANGED Tables!tables
  <2>1. header' = header /\ file' = file
    BY <1>4, SpoilsStep DEF SpoilsOffsets
  <2> QED BY <2>1, StutterActs
<1>5. ret' # 0
  OBVIOUS
<1>6. ASSUME NEW n \in Names, NEW pos \in Positions,
             \/ insertContact(n, pos) \/ writeContact(n, pos)
             \/ insertBankHeader(n, pos) \/ writeBankHeader(n, pos)
             \/ \E ct \in Contacts : insertChannel(n, ct, pos) \/ writeChannel(n, ct, pos)
             \/ \E ch \in Channels, bank \in 0 .. MaxBanks :
                  insertBankData(ch, bank, pos) \/ writeBankData(ch, bank, pos)
      PROVE  Refused \/ \E bank \in 0 .. MaxBanks : SpoilsOffsets(bank, pos)
  BY <1>5, <1>6, Answered, Zenon
<1> QED BY <1>1, <1>2, <1>3, <1>4, <1>6 DEF Next

(* An insertion is refused if and only if its place is not there.          *)
LEMMA InsertionsAct ==
  ASSUME LaidOut, sound, sound', NEW n \in Names, NEW pos \in Positions
  PROVE  /\ insertContact(n, pos) => Tables!InsertContact(n, pos)
         /\ insertBankHeader(n, pos) => Tables!InsertBank(n, pos)
         /\ \A ct \in Contacts :
              insertChannel(n, ct, pos) =>
                Tables!InsertChannel([name |-> n, contact |-> ct], pos)
<1>1. header.ct \in Nat /\ header.ch \in Nat /\ header.b \in Nat /\ pos \in Nat
  BY SoundState, BoundAssumption DEF Positions
<1>2. /\ Tables!Places(ContactsRead) = 0 .. header.ct
      /\ Tables!Places(ChannelsRead) = 0 .. header.ch
      /\ Tables!Places(BanksRead) = 0 .. header.b
  BY PlacesRead
<1>3. /\ pos > header.ct => pos \notin Tables!Places(ContactsRead)
      /\ pos > header.ch => pos \notin Tables!Places(ChannelsRead)
      /\ pos > header.b => pos \notin Tables!Places(BanksRead)
  BY <1>1, <1>2
<1>4. Refused => Tables!Refused
  BY DEF Refused, Tables!Refused
<1>5. ASSUME insertContact(n, pos) PROVE Tables!InsertContact(n, pos)
  <2>1. CASE ret' = 0
    <3>1. Tables!PutContact(n, pos)
      BY <1>5, <2>1, insertContactActs
    <3>2. pos \in Tables!Places(ContactsRead)
      BY <3>1 DEF Tables!PutContact
    <3> QED BY <2>1, <3>1, <3>2 DEF Tables!InsertContact, Tables!Answer
  <2>2. CASE ret' # 0
    <3>1. pos > header.ct /\ Refused
      BY <1>5, <2>2, Answered
    <3> QED BY <1>3, <1>4, <3>1 DEF Tables!InsertContact, Tables!Answer
  <2> QED BY <2>1, <2>2
<1>6. ASSUME insertBankHeader(n, pos) PROVE Tables!InsertBank(n, pos)
  <2>1. CASE ret' = 0
    <3>1. Tables!PutBank(n, pos)
      BY <1>6, <2>1, insertBankHeaderActs
    <3>2. pos \in Tables!Places(BanksRead)
      BY <3>1 DEF Tables!PutBank
    <3> QED BY <2>1, <3>1, <3>2 DEF Tables!InsertBank, Tables!Answer
  <2>2. CASE ret' # 0
    <3>1. pos > header.b /\ Refused
      BY <1>6, <2>2, Answered
    <3> QED BY <1>3, <1>4, <3>1 DEF Tables!InsertBank, Tables!Answer
  <2> QED BY <2>1, <2>2
<1>7. ASSUME NEW ct \in Contacts, insertChannel(n, ct, pos)
      PROVE  Tables!InsertChannel([name |-> n, contact |-> ct], pos)
  <2> DEFINE c == [name |-> n, contact |-> ct]
  <2>1. CASE ret' = 0
    <3>1. Tables!PutChannel(c, pos)
      BY <1>7, <2>1, insertChannelActs
    <3> HIDE DEF c
    <3>2. pos \in Tables!Places(ChannelsRead)
      BY <3>1 DEF Tables!PutChannel
    <3>3. Tables!InsertChannel(c, pos)
      BY <2>1, <3>1, <3>2 DEF Tables!InsertChannel, Tables!Answer
    <3> QED BY <3>3 DEF c
  <2>2. CASE ret' # 0
    <3>1. pos > header.ch /\ Refused
      BY <1>7, <2>2, Answered
    <3> HIDE DEF c
    <3>2. Tables!InsertChannel(c, pos)
      BY <1>3, <1>4, <3>1 DEF Tables!InsertChannel, Tables!Answer
    <3> QED BY <3>2 DEF c
  <2> QED BY <2>1, <2>2
<1> QED BY <1>5, <1>6, <1>7

(* Nor is a call that overwrites refused unless its place is not there.    *)
LEMMA WritesAct ==
  ASSUME LaidOut, sound, sound', NEW n \in Names, NEW pos \in Positions
  PROVE  /\ writeContact(n, pos) => Tables!WriteContact(n, pos)
         /\ writeBankHeader(n, pos) => Tables!Refused
         /\ \A ct \in Contacts :
              writeChannel(n, ct, pos) =>
                Tables!WriteChannel([name |-> n, contact |-> ct], pos)
<1>1. header.ct \in Nat /\ header.ch \in Nat /\ pos \in Nat
  BY SoundState, BoundAssumption DEF Positions
<1>2. DOMAIN ContactsRead = 1 .. header.ct /\ DOMAIN ChannelsRead = 1 .. header.ch
  BY PlacesRead
<1>3. /\ pos >= header.ct => pos + 1 \notin DOMAIN ContactsRead
      /\ pos >= header.ch => pos + 1 \notin DOMAIN ChannelsRead
  BY <1>1, <1>2
<1>4. Refused => Tables!Refused
  BY DEF Refused, Tables!Refused
<1>5. ASSUME writeContact(n, pos) PROVE Tables!WriteContact(n, pos)
  <2>1. CASE ret' = 0
    <3>1. Tables!SetContact(n, pos)
      BY <1>5, <2>1, writeContactActs
    <3>2. pos + 1 \in DOMAIN ContactsRead
      BY <3>1 DEF Tables!SetContact
    <3> QED BY <2>1, <3>1, <3>2 DEF Tables!WriteContact, Tables!Answer
  <2>2. CASE ret' # 0
    <3>1. pos >= header.ct /\ Refused
      BY <1>5, <2>2, Answered
    <3> QED BY <1>3, <1>4, <3>1 DEF Tables!WriteContact, Tables!Answer
  <2> QED BY <2>1, <2>2
<1>6. writeBankHeader(n, pos) => Tables!Refused
  BY <1>4, Answered
<1>7. ASSUME NEW ct \in Contacts, writeChannel(n, ct, pos)
      PROVE  Tables!WriteChannel([name |-> n, contact |-> ct], pos)
  <2> DEFINE c == [name |-> n, contact |-> ct]
  <2>1. CASE ret' = 0
    <3>1. Tables!SetChannel(c, pos)
      BY <1>7, <2>1, writeChannelActs
    <3> HIDE DEF c
    <3>2. pos + 1 \in DOMAIN ChannelsRead
      BY <3>1 DEF Tables!SetChannel
    <3>3. Tables!WriteChannel(c, pos)
      BY <2>1, <3>1, <3>2 DEF Tables!WriteChannel, Tables!Answer
    <3> QED BY <3>3 DEF c
  <2>2. CASE ret' # 0
    <3>1. pos >= header.ch /\ Refused
      BY <1>7, <2>2, Answered
    <3> HIDE DEF c
    <3>2. Tables!WriteChannel(c, pos)
      BY <1>3, <1>4, <3>1 DEF Tables!WriteChannel, Tables!Answer
    <3> QED BY <3>2 DEF c
  <2> QED BY <2>1, <2>2
<1> QED BY <1>5, <1>6, <1>7

LEMMA insertBankDataAnswers ==
  ASSUME LaidOut, sound, sound', NEW ch \in Channels, NEW bank \in 0 .. MaxBanks,
         NEW pos \in Positions, insertBankData(ch, bank, pos)
  PROVE  Tables!InsertBankEntry(ch, bank, pos)
<1>1. header.b \in Nat /\ pos \in Nat /\ bank \in Nat
  BY SoundState, BoundAssumption DEF Positions
<1>2. DOMAIN BanksRead = 1 .. header.b
  BY PlacesRead
<1> DEFINE fits == /\ bank + 1 \in DOMAIN BanksRead
                   /\ pos \in Tables!Places(BanksRead[bank + 1].list)
<1>3. CASE ret' = 0
  <2>1. Tables!PutBankEntry(ch, bank, pos)
    BY <1>3, insertBankDataActs
  <2>2. fits
    BY <2>1 DEF Tables!PutBankEntry
  <2> QED BY <1>3, <2>1, <2>2 DEF Tables!InsertBankEntry, Tables!Answer
<1>4. CASE ret' # 0
  <2>1. SpoilsOffsets(bank, pos) \/ (bank >= header.b /\ Refused)
    BY <1>4, Answered
  <2>2. ret' = -1
    BY <2>1 DEF SpoilsOffsets, Refused
  <2>3. ~ fits
    <3>1. CASE bank >= header.b
      <4>1. bank + 1 \notin DOMAIN BanksRead
        BY <1>1, <1>2, <3>1
      <4> QED BY <4>1
    <3>2. CASE SpoilsOffsets(bank, pos)
      <4>1. bank \in 0 .. header.b - 1 /\ pos > At(file, BankPos(header, file, bank)).num
        BY <1>1, <3>2 DEF SpoilsOffsets
      <4>2. pos > Bank(header, file, bank).num /\ Bank(header, file, bank).num \in Nat
        BY <4>1, ListRead
      <4>3. pos \notin 0 .. Bank(header, file, bank).num
        BY <1>1, <4>2
      <4> QED BY <4>1, <4>3, ListRead
    <3> QED BY <2>1, <3>1, <3>2
  <2> QED BY <2>2, <2>3 DEF Tables!InsertBankEntry, Tables!Answer, Tables!Refused
<1> QED BY <1>3, <1>4

LEMMA writeBankDataAnswers ==
  ASSUME LaidOut, sound, sound', NEW ch \in Channels, NEW bank \in 0 .. MaxBanks,
         NEW pos \in Positions, writeBankData(ch, bank, pos)
  PROVE  IF pos <= header.b THEN Tables!WriteBankEntry(ch, bank, pos) ELSE Tables!Refused
<1>1. header.b \in Nat /\ pos \in Nat /\ bank \in Nat
  BY SoundState, BoundAssumption DEF Positions
<1>2. DOMAIN BanksRead = 1 .. header.b
  BY PlacesRead
<1> DEFINE fits == /\ bank + 1 \in DOMAIN BanksRead
                   /\ pos + 1 \in DOMAIN BanksRead[bank + 1].list
<1>3. CASE ret' = 0
  <2>1. Tables!SetBankEntry(ch, bank, pos)
    BY <1>3, writeBankDataActs
  <2>2. fits
    BY <2>1 DEF Tables!SetBankEntry
  <2>3. bank < header.b
    BY <1>1, <1>2, <2>2
  <2>4. pos <= header.b
    <3>1. Writable(header, file, bank, pos)
      <4>1. ~ (bank >= header.b)
        BY <1>1, <2>3
      <4> QED BY <1>3, <4>1 DEF writeBankData, Refused
    <3> QED BY <1>1, <3>1 DEF Writable
  <2>5. Tables!WriteBankEntry(ch, bank, pos)
    BY <1>3, <2>1, <2>2 DEF Tables!WriteBankEntry, Tables!Answer
  <2> QED BY <2>4, <2>5
<1>4. CASE ret' # 0
  <2>1. \/ bank < header.b /\ ~ Writable(header, file, bank, pos) /\ Refused
        \/ bank >= header.b /\ Refused
    BY <1>4, Answered
  <2>2. Tables!Refused
    BY <2>1 DEF Refused, Tables!Refused
  <2>3. ASSUME pos <= header.b PROVE ~ fits
    <3>1. CASE bank >= header.b
      <4>1. bank + 1 \notin DOMAIN BanksRead
        BY <1>1, <1>2, <3>1
      <4> QED BY <4>1
    <3>2. CASE bank < header.b
      <4>1. bank \in 0 .. header.b - 1 /\ ~ Writable(header, file, bank, pos)
        BY <1>1, <2>1, <3>2
      <4>2. ~ (pos < Bank(header, file, bank).num) /\ Bank(header, file, bank).num \in Nat
        BY <1>1, <2>3, <4>1, ListRead DEF Writable
      <4>3. pos + 1 \notin 1 .. Bank(header, file, bank).num
        BY <1>1, <4>2
      <4> QED BY <4>1, <4>3, ListRead
    <3> QED BY <1>1, <3>1, <3>2
  <2> QED BY <2>2, <2>3 DEF Tables!WriteBankEntry, Tables!Answer
<1> QED BY <1>3, <1>4

LEMMA AllCallsAct == LaidOut /\ [Next]_vars => (sound /\ sound' => CallsAct)
<1> SUFFICES ASSUME LaidOut, [Next]_vars, sound, sound' PROVE CallsAct
  OBVIOUS
<1>1. create => Tables!Create
  BY createActs DEF create, Tables!Create
<1>2. ret' = -1 => UNCHANGED Tables!tables
  BY RefusalsChangeNothing
<1>3. ASSUME NEW n \in Names, NEW pos \in Positions
      PROVE  /\ insertContact(n, pos) => Tables!InsertContact(n, pos)
             /\ writeContact(n, pos) => Tables!WriteContact(n, pos)
             /\ insertBankHeader(n, pos) => Tables!InsertBank(n, pos)
             /\ writeBankHeader(n, pos) => Tables!Refused
             /\ \A ct \in Contacts : LET c == [name |-> n, contact |-> ct] IN
                  /\ insertChannel(n, ct, pos) => Tables!InsertChannel(c, pos)
                  /\ writeChannel(n, ct, pos) => Tables!WriteChannel(c, pos)
  BY InsertionsAct, WritesAct
<1>4. ASSUME NEW ch \in Channels, NEW bank \in 0 .. MaxBanks, NEW pos \in Positions
      PROVE  /\ insertBankData(ch, bank, pos) => Tables!InsertBankEntry(ch, bank, pos)
             /\ writeBankData(ch, bank, pos) =>
                  IF pos <= header.b THEN Tables!WriteBankEntry(ch, bank, pos)
                  ELSE Tables!Refused
  BY insertBankDataAnswers, writeBankDataAnswers
<1> QED BY <1>1, <1>2, <1>3, <1>4 DEF CallsAct

(* What a call does to the file is what cps_io.h says that this call, with *)
(* its arguments, does to three tables, as long as the file is sound       *)
(* before and after it.                                                    *)
THEOREM AlwaysActsAsTables == Spec => ActsAsTables
<1>1. LaidOut /\ [Next]_vars => [sound /\ sound' => CallsAct]_vars
  BY AllCallsAct
<1> QED BY <1>1, AlwaysLaidOut, PTL DEF Spec, ActsAsTables
=============================================================================
