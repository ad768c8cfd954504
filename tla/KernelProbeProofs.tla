-------------------------- MODULE KernelProbeProofs --------------------------
(***************************************************************************)
(* KernelProbe's safety for any name, any index files, any buffer that     *)
(* holds the name and any cut of the files into reads.                     *)
(***************************************************************************)
EXTENDS KernelProbe, TLAPS

(* A part of a sequence, letter by letter.                                 *)
LEMMA PartIs ==
  ASSUME NEW S, NEW s, s \in Seq(S), NEW a, NEW b, a \in 1 .. b + 1, b \in 0 .. Len(s)
  PROVE  /\ SubSeq(s, a, b) \in Seq(S) /\ Len(SubSeq(s, a, b)) = b - a + 1
         /\ \A i \in 1 .. b - a + 1 : SubSeq(s, a, b)[i] = s[a + i - 1]
OBVIOUS

(* Two sequences of one length and the same letters are one.               *)
LEMMA SameLetters ==
  ASSUME NEW S, NEW s, s \in Seq(S), NEW r, r \in Seq(S), Len(s) = Len(r),
         \A i \in 1 .. Len(s) : s[i] = r[i]
  PROVE  s = r
OBVIOUS

(* A part of a part is a part of the whole.                                *)
LEMMA PartOfPart ==
  ASSUME NEW S, NEW s, s \in Seq(S), NEW a, NEW b, a \in 1 .. b + 1, b \in 0 .. Len(s),
         NEW c, NEW d, c \in 1 .. d + 1, d \in 0 .. b - a + 1
  PROVE  SubSeq(SubSeq(s, a, b), c, d) = SubSeq(s, a + c - 1, a + d - 1)
<1> DEFINE p == SubSeq(s, a, b)
           q == SubSeq(p, c, d)
           x == a + c - 1
           y == a + d - 1
           r == SubSeq(s, x, y)
           n == d - c + 1
<1>1. a \in Nat /\ b \in Nat /\ c \in Nat /\ d \in Nat /\ Len(s) \in Nat
  OBVIOUS
<1>2. x \in 1 .. y + 1 /\ y \in 0 .. Len(s) /\ y - x + 1 = n /\ n \in Nat
  BY <1>1
<1>3. /\ \A i \in 1 .. n : x + i - 1 = a + (c + i - 1) - 1
      /\ \A i \in 1 .. n : c + i - 1 \in 1 .. b - a + 1
  BY <1>1
<1>4. /\ p \in Seq(S) /\ Len(p) = b - a + 1
      /\ \A i \in 1 .. b - a + 1 : p[i] = s[a + i - 1]
  BY PartIs
<1> HIDE DEF p, x, y
<1>5. p \in Seq(S) /\ d \in 0 .. Len(p)
  BY <1>4
<1>6. q \in Seq(S) /\ Len(q) = n /\ \A i \in 1 .. n : q[i] = p[c + i - 1]
  BY <1>5, PartIs
<1>7. r \in Seq(S) /\ Len(r) = y - x + 1 /\ \A i \in 1 .. y - x + 1 : r[i] = s[x + i - 1]
  BY <1>2, PartIs
<1> HIDE DEF q, r, n
<1>8. Len(q) = Len(r) /\ \A i \in 1 .. Len(q) : q[i] = r[i]
  <2>1. Len(q) = n /\ Len(r) = n /\ y - x + 1 = n
    BY <1>2, <1>6, <1>7
  <2>2. \A i \in 1 .. n : q[i] = s[a + (c + i - 1) - 1]
    BY <1>3, <1>4, <1>6
  <2>3. \A i \in 1 .. n : r[i] = s[a + (c + i - 1) - 1]
    BY <1>3, <1>7, <2>1
  <2> QED
    BY <2>1, <2>2, <2>3
<1>9. q = r
  BY <1>6, <1>7, <1>8, SameLetters
<1> QED
  BY <1>9 DEF q, r, p, x, y

(* The last letters of a part are the part that ends where it does.        *)
LEMMA LastOfPart ==
  ASSUME NEW S, NEW s, s \in Seq(S), NEW a, NEW b, a \in 1 .. b + 1, b \in 0 .. Len(s),
         NEW n, n \in 0 .. b - a + 1
  PROVE  Last(SubSeq(s, a, b), n) = SubSeq(s, b - n + 1, b)
<1> DEFINE d == b - a + 1
           c == d - n + 1
<1>1. a \in Nat /\ b \in Nat /\ n \in Nat
  OBVIOUS
<1>2. c \in 1 .. d + 1 /\ d \in 0 .. d /\ a + c - 1 = b - n + 1 /\ a + d - 1 = b
  BY <1>1
<1>3. Len(SubSeq(s, a, b)) = d
  BY PartIs
<1>4. Last(SubSeq(s, a, b), n) = SubSeq(SubSeq(s, a, b), c, d)
  BY <1>3 DEF Last
<1>5. d \in 0 .. b - a + 1
  BY <1>2
<1> HIDE DEF c, d
<1>6. SubSeq(SubSeq(s, a, b), c, d) = SubSeq(s, a + c - 1, a + d - 1)
  BY <1>2, <1>5, PartOfPart
<1> QED
  BY <1>2, <1>4, <1>6

(* What follows what in a concatenation.                                   *)
LEMMA JoinIs ==
  ASSUME NEW S, NEW p, p \in Seq(S), NEW q, q \in Seq(S)
  PROVE  /\ p \o q \in Seq(S) /\ Len(p \o q) = Len(p) + Len(q)
         /\ \A i \in 1 .. Len(p) + Len(q) :
              (p \o q)[i] = IF i <= Len(p) THEN p[i] ELSE q[i - Len(p)]
OBVIOUS

(* Two parts that lie side by side are one.                                *)
LEMMA PartsJoin ==
  ASSUME NEW S, NEW s, s \in Seq(S), NEW a, NEW b, a \in 1 .. b + 1, b \in 0 .. Len(s),
         NEW e, e \in b .. Len(s)
  PROVE  SubSeq(s, a, b) \o SubSeq(s, b + 1, e) = SubSeq(s, a, e)
<1> DEFINE p == SubSeq(s, a, b)
           z == b + 1
           q == SubSeq(s, z, e)
           r == SubSeq(s, a, e)
           k == b - a + 1
           n == e - a + 1
<1>1. a \in Nat /\ b \in Nat /\ e \in Nat /\ Len(s) \in Nat /\ a <= b + 1 /\ b <= e
  OBVIOUS
<1>2. z \in 1 .. e + 1 /\ e \in 0 .. Len(s) /\ a \in 1 .. e + 1 /\ k \in Nat /\ n \in Nat
  BY <1>1
<1>3. /\ \A i \in 1 .. n : i <= k => i \in 1 .. b - a + 1
      /\ \A i \in 1 .. n : ~(i <= k) =>
           i - k \in 1 .. e - z + 1 /\ z + (i - k) - 1 = a + i - 1
      /\ k + (e - z + 1) = n
  BY <1>1
<1> HIDE DEF z
<1>4. p \in Seq(S) /\ Len(p) = k /\ \A i \in 1 .. b - a + 1 : p[i] = s[a + i - 1]
  BY PartIs
<1>5. q \in Seq(S) /\ Len(q) = e - z + 1 /\ \A i \in 1 .. e - z + 1 : q[i] = s[z + i - 1]
  <2>1. z \in 1 .. e + 1 /\ e \in 0 .. Len(s)
    BY <1>2
  <2> QED
    BY <2>1, PartIs
<1>6. r \in Seq(S) /\ Len(r) = n /\ \A i \in 1 .. n : r[i] = s[a + i - 1]
  BY <1>2, PartIs
<1> HIDE DEF p, q, r, k, n
<1>7. p \in Seq(S) /\ q \in Seq(S) /\ Len(p) = k /\ Len(p) + Len(q) = n
  BY <1>3, <1>4, <1>5
<1>8. /\ p \o q \in Seq(S) /\ Len(p \o q) = n
      /\ \A i \in 1 .. n : (p \o q)[i] = IF i <= k THEN p[i] ELSE q[i - k]
  <2>1. /\ p \o q \in Seq(S) /\ Len(p \o q) = Len(p) + Len(q)
        /\ \A i \in 1 .. Len(p) + Len(q) :
             (p \o q)[i] = IF i <= Len(p) THEN p[i] ELSE q[i - Len(p)]
    <3>1. p \in Seq(S) /\ q \in Seq(S)
      BY <1>4, <1>5
    <3> QED
      BY <3>1, JoinIs
  <2> QED
    BY <1>7, <2>1
<1>9. \A i \in 1 .. n : (p \o q)[i] = r[i]
  BY <1>3, <1>4, <1>5, <1>6, <1>8
<1>10. p \o q = r
  BY <1>6, <1>8, <1>9, SameLetters
<1> QED
  BY <1>10 DEF p, q, r, z
-----------------------------------------------------------------------------
(* w follows the letter i of s, between the letters a and b.               *)
At(w, s, a, b, i) ==
  i \in Int /\ a - 1 <= i /\ i + Len(w) <= b /\ SubSeq(s, i + 1, i + Len(w)) = w

(* A name occurs in a part where it stands in the whole, within that part. *)
LEMMA OccursAt ==
  ASSUME NEW S, NEW w, w \in Seq(S), NEW s, s \in Seq(S),
         NEW a, NEW b, a \in 1 .. b + 1, b \in 0 .. Len(s)
  PROVE  Occurs(w, SubSeq(s, a, b)) <=> \E i : At(w, s, a, b, i)
<1> DEFINE p == SubSeq(s, a, b)
           W == Len(w)
<1>1. a \in Nat /\ b \in Nat /\ W \in Nat /\ a >= 1
  OBVIOUS
<1>2. Len(p) = b - a + 1
  BY PartIs
<1>3. ASSUME NEW j, j \in 0 .. Len(p) - W
      PROVE  SubSeq(p, j + 1, j + W) = SubSeq(s, (a + j - 1) + 1, (a + j - 1) + W)
  <2> DEFINE c == j + 1
             d == j + W
  <2>1. /\ c \in 1 .. d + 1 /\ d \in 0 .. b - a + 1
        /\ a + c - 1 = (a + j - 1) + 1 /\ a + d - 1 = (a + j - 1) + W
    BY <1>1, <1>2, <1>3
  <2> HIDE DEF c, d
  <2>2. SubSeq(p, c, d) = SubSeq(s, a + c - 1, a + d - 1)
    BY <2>1, PartOfPart
  <2>3. SubSeq(p, c, d) = SubSeq(s, (a + j - 1) + 1, (a + j - 1) + W)
    BY <2>1, <2>2
  <2> QED
    BY <2>3 DEF c, d
<1>4. ASSUME Occurs(w, p) PROVE \E i : At(w, s, a, b, i)
  <2>1. PICK j \in 0 .. Len(p) - W : SubSeq(p, j + 1, j + W) = w
    BY <1>4 DEF Occurs
  <2> DEFINE i == a + j - 1
  <2>2. i \in Int /\ a - 1 <= i /\ i + W <= b
    BY <1>1, <1>2, <2>1
  <2>3. SubSeq(s, i + 1, i + W) = w
    BY <1>3, <2>1
  <2>4. At(w, s, a, b, i)
    BY <2>2, <2>3 DEF At
  <2> QED
    BY <2>4
<1>5. ASSUME NEW i, At(w, s, a, b, i) PROVE Occurs(w, p)
  <2> DEFINE j == i - a + 1
  <2>1. i \in Int /\ a - 1 <= i /\ i + W <= b /\ SubSeq(s, i + 1, i + W) = w
    BY <1>5 DEF At
  <2>2. j \in 0 .. Len(p) - W /\ a + j - 1 = i
    BY <1>1, <1>2, <2>1
  <2> HIDE DEF j
  <2>3. SubSeq(p, j + 1, j + W) = SubSeq(s, (a + j - 1) + 1, (a + j - 1) + W)
    BY <1>3, <2>2
  <2>4. SubSeq(p, j + 1, j + W) = w
    BY <2>1, <2>2, <2>3
  <2> QED
    BY <2>2, <2>4 DEF Occurs
<1> QED
  BY <1>4, <1>5

(* What occurs in a part occurs in the whole.                              *)
LEMMA PartOccurs ==
  ASSUME NEW S, NEW w, w \in Seq(S), NEW s, s \in Seq(S),
         NEW a, NEW b, a \in 1 .. b + 1, b \in 0 .. Len(s), Occurs(w, SubSeq(s, a, b))
  PROVE  Occurs(w, s)
<1>1. PICK i : At(w, s, a, b, i)
  BY OccursAt
<1>2. i \in Int /\ a - 1 <= i /\ i + Len(w) <= b /\ SubSeq(s, i + 1, i + Len(w)) = w
  BY <1>1 DEF At
<1>3. i \in 0 .. Len(s) - Len(w)
  BY <1>2
<1> QED
  BY <1>2, <1>3 DEF Occurs

(* The name cannot hide across a read: it stands in what was read before,  *)
(* or it ends in what was just read and begins no earlier than the letters *)
(* that were carried over.                                                 *)
LEMMA NoneAcross ==
  ASSUME NEW S, NEW w, w \in Seq(S), w # <<>>, NEW s, s \in Seq(S),
         NEW p, NEW e, p \in 0 .. e, e \in 0 .. Len(s),
         ~Occurs(w, SubSeq(s, 1, p)),
         ~Occurs(w, SubSeq(s, p - Min2(Len(w) - 1, p) + 1, e))
  PROVE  ~Occurs(w, SubSeq(s, 1, e))
<1> DEFINE W == Len(w)
           x == p - Min2(Len(w) - 1, p) + 1
<1>1. W \in Nat /\ W >= 1 /\ p \in Nat /\ e \in Nat /\ p <= e /\ e <= Len(s) /\ Len(s) \in Nat
  OBVIOUS
<1>2. 1 \in 1 .. p + 1 /\ 1 \in 1 .. e + 1 /\ p \in 0 .. Len(s)
  BY <1>1
<1>3. x \in 1 .. e + 1 /\ (x = 1 \/ x = p - W + 2)
  <2> DEFINE m == Min2(Len(w) - 1, p)
  <2>1. m \in 0 .. p /\ (m = p \/ m = W - 1)
    <3>1. CASE Len(w) - 1 < p
      BY <1>1, <3>1 DEF Min2
    <3>2. CASE ~(Len(w) - 1 < p)
      BY <1>1, <3>2 DEF Min2
    <3> QED
      BY <3>1, <3>2
  <2> HIDE DEF m, W
  <2>2. p - m + 1 \in 1 .. e + 1 /\ (p - m + 1 = 1 \/ p - m + 1 = p - W + 2)
    BY <1>1, <2>1
  <2> QED
    BY <2>2 DEF m
<1>4. ~Occurs(w, SubSeq(s, x, e))
  OBVIOUS
<1> HIDE DEF x
<1> SUFFICES ASSUME NEW i, At(w, s, 1, e, i) PROVE FALSE
  BY <1>2, OccursAt
<1>5. i \in Int /\ 0 <= i /\ i + W <= e /\ SubSeq(s, i + 1, i + W) = w
  BY DEF At
<1>6. ~At(w, s, 1, p, i)
  BY <1>2, OccursAt
<1>7. ~At(w, s, x, e, i)
  BY <1>3, <1>4, OccursAt
<1>8. i + W <= p \/ x - 1 <= i
  BY <1>1, <1>3, <1>5
<1> QED
  BY <1>5, <1>6, <1>7, <1>8 DEF At
-----------------------------------------------------------------------------
(* After p letters of the file f the name was not among them, and the      *)
(* buffer b holds the last wlen - 1.                                       *)
Carried(f, p, b) ==
  /\ f \in Seq(STRING) /\ p \in 0 .. Len(f) /\ ~Occurs(Want, SubSeq(f, 1, p))
  /\ b = Last(SubSeq(f, 1, p), Min2(Len(Want) - 1, p))

(* One turn of ktls_file_names' loop, n more letters of f in the buffer    *)
(* behind the ones carried over: what is found there is in the file, and   *)
(* when nothing is, what is kept is what the next turn needs.              *)
Turned(f, p, b, n) ==
  LET have == b \o SubSeq(f, p + 1, p + n)
  IN  /\ Found(have) => Occurs(Want, f)
      /\ ~Found(have) => Carried(f, p + n, Kept(have))

(* Every turn is such a turn.                                              *)
LEMMA Turn ==
  ASSUME NEW f, NEW p, NEW b, Carried(f, p, b), NEW n, n \in 1 .. Len(f) - p
  PROVE  Turned(f, p, b, n)
<1> DEFINE have == b \o SubSeq(f, p + 1, p + n)
<1>0. /\ f \in Seq(STRING) /\ p \in 0 .. Len(f) /\ ~Occurs(Want, SubSeq(f, 1, p))
      /\ b = Last(SubSeq(f, 1, p), Min2(Len(Want) - 1, p))
  BY DEF Carried
<1> DEFINE k == Min2(Len(Want) - 1, p)
           e == p + n
           x == p - k + 1
           W == Len(Want)
<1>1. Want \in Seq(STRING) /\ Want # <<>> /\ W \in Nat /\ W >= 1
  BY ProbeAssumption
<1>2. p \in Nat /\ n \in Nat /\ n >= 1 /\ Len(f) \in Nat /\ p <= Len(f)
  BY <1>0
<1>3. k \in 0 .. p /\ (k = p \/ k = W - 1) /\ k <= W - 1
  <2>1. CASE W - 1 < p
    BY <1>1, <1>2, <2>1 DEF Min2
  <2>2. CASE ~(W - 1 < p)
    BY <1>1, <1>2, <2>2 DEF Min2
  <2> QED
    BY <2>1, <2>2
<1>4. e \in 0 .. Len(f) /\ p \in 0 .. e /\ e \in p .. Len(f) /\ 1 \in 1 .. p + 1 /\ 1 \in 1 .. e + 1
  BY <1>2
<1>5. x \in 1 .. p + 1 /\ x \in 1 .. e + 1 /\ k \in 0 .. p - 1 + 1 /\ e - x + 1 = k + n
  BY <1>2, <1>3
<1>6. ~Occurs(Want, SubSeq(f, 1, p)) /\ b = Last(SubSeq(f, 1, p), k)
      /\ have = b \o SubSeq(f, p + 1, e)
  BY <1>0
<1>7. Min2(W - 1, k + n) = Min2(W - 1, e) /\ Min2(W - 1, e) \in 0 .. k + n /\ k + n <= e
  <2> HIDE DEF k, W
  <2>1. CASE k = p
    <3>1. k + n = p + n
      BY <2>1
    <3> QED
      BY <1>1, <1>2, <3>1 DEF Min2
  <2>2. CASE k = W - 1 /\ k # p
    <3>1. k < p
      BY <1>2, <1>3, <2>2
    <3>2. Min2(W - 1, k + n) = W - 1 /\ Min2(W - 1, e) = W - 1
      BY <1>1, <1>2, <1>3, <2>2, <3>1 DEF Min2
    <3> QED
      BY <1>1, <1>2, <1>3, <2>2, <3>1, <3>2
  <2> QED
    BY <1>3, <2>1, <2>2
<1>8. x = p - Min2(Len(Want) - 1, p) + 1
  OBVIOUS
<1> HIDE DEF k, e, x, W, have
<1>9. b = SubSeq(f, x, p)
  <2>1. Last(SubSeq(f, 1, p), k) = SubSeq(f, p - k + 1, p)
    BY <1>0, <1>4, <1>5, LastOfPart
  <2> QED
    BY <1>6, <2>1 DEF x
<1>10. have = SubSeq(f, x, e)
  <2>1. SubSeq(f, x, p) \o SubSeq(f, p + 1, e) = SubSeq(f, x, e)
    BY <1>0, <1>4, <1>5, PartsJoin
  <2> QED
    BY <1>6, <1>9, <2>1
<1>11. Found(have) => Occurs(Want, f)
  BY <1>0, <1>1, <1>4, <1>5, <1>10, PartOccurs DEF Found
<1>12. ASSUME ~Found(have) PROVE ~Occurs(Want, SubSeq(f, 1, e))
  <2>1. ~Occurs(Want, SubSeq(f, p - Min2(Len(Want) - 1, p) + 1, e))
    BY <1>8, <1>10, <1>12 DEF Found
  <2> QED
    BY <1>0, <1>1, <1>4, <1>6, <2>1, NoneAcross
<1>13. Kept(have) = Last(SubSeq(f, 1, e), Min2(Len(Want) - 1, e))
  <2> DEFINE m == Min2(W - 1, e)
  <2>1. Len(have) = k + n
    <3>1. Len(SubSeq(f, x, e)) = e - x + 1
      BY <1>0, <1>4, <1>5, PartIs
    <3> QED
      BY <1>5, <1>10, <3>1
  <2>2. Held(have) = m
    BY <1>7, <2>1 DEF Held, W
  <2>3. m \in 0 .. e - x + 1 /\ m \in 0 .. e - 1 + 1
    <3>1. e \in Nat /\ k + n \in Nat
      BY <1>2, <1>3, <1>4
    <3> HIDE DEF m
    <3>2. m \in 0 .. k + n
      BY <1>7 DEF m
    <3> QED
      BY <1>5, <1>7, <3>1, <3>2
  <2> HIDE DEF m
  <2>4. Last(SubSeq(f, x, e), m) = SubSeq(f, e - m + 1, e)
    BY <1>0, <1>4, <1>5, <2>3, LastOfPart
  <2>5. Last(SubSeq(f, 1, e), m) = SubSeq(f, e - m + 1, e)
    BY <1>0, <1>4, <2>3, LastOfPart
  <2>6. Kept(have) = Last(SubSeq(f, x, e), m)
    BY <1>10, <2>2 DEF Kept
  <2> QED
    BY <2>4, <2>5, <2>6 DEF m, W
<1>14. ~Found(have) => Carried(f, e, Kept(have))
  BY <1>0, <1>4, <1>12, <1>13 DEF Carried
<1> QED
  BY <1>11, <1>14 DEF Turned, have, e
-----------------------------------------------------------------------------
(* What every variable ranges over.                                        *)
TypeInv ==
  /\ index \in [{"dep", "builtin"} -> Seq(STRING)]
  /\ loaded \in BOOLEAN /\ seen \in BOOLEAN /\ trouble \in BOOLEAN /\ denied \in BOOLEAN
  /\ pc \in {"idle", "open", "read"} /\ file \in {"dep", "builtin"}

(* Between searches nothing is read and nothing carried over; while one    *)
(* runs there is no answer yet, and one that met no trouble was begun      *)
(* because tls was not loaded and went on because modules.dep lacks it.    *)
SearchInv ==
  /\ pc # "read" => pos = 0 /\ buf = <<>>
  /\ pc # "idle" =>
       /\ answer = "none"
       /\ ~trouble => ~seen /\ (file = "builtin" => ~Occurs(Want, index["dep"]))

(* A built-in tls is always loaded; and one that modules.dep does not list *)
(* and that was not there when a call asked, or that a call denied, does   *)
(* not come.                                                               *)
LoadedInv ==
  /\ Occurs(Want, index["builtin"]) => loaded
  /\ pc # "idle" /\ ~seen /\ ~Occurs(Want, index["dep"]) => ~loaded
  /\ denied => ~loaded /\ ~Occurs(Want, index["dep"])

ProbeInv == TypeInv /\ SearchInv /\ LoadedInv /\ CarryExact /\ AnswerExact

(* What is carried over is a text too.                                     *)
LEMMA CarryIsText ==
  ASSUME NEW f, f \in Seq(STRING), NEW p, p \in 0 .. Len(f)
  PROVE  Last(SubSeq(f, 1, p), Min2(Len(Want) - 1, p)) \in Seq(STRING)
<1> DEFINE k == Min2(Len(Want) - 1, p)
<1>1. Len(Want) \in Nat /\ Len(Want) >= 1 /\ p \in Nat
  BY ProbeAssumption
<1>2. k \in 0 .. p - 1 + 1
  <2>1. CASE Len(Want) - 1 < p
    BY <1>1, <2>1 DEF Min2
  <2>2. CASE ~(Len(Want) - 1 < p)
    BY <1>1, <2>2 DEF Min2
  <2> QED
    BY <2>1, <2>2
<1> HIDE DEF k
<1>3. 1 \in 1 .. p + 1 /\ p - k + 1 \in 1 .. p + 1
  BY <1>1, <1>2
<1>4. Last(SubSeq(f, 1, p), k) = SubSeq(f, p - k + 1, p)
  BY <1>2, <1>3, LastOfPart
<1>5. SubSeq(f, p - k + 1, p) \in Seq(STRING)
  <2> DEFINE x == p - k + 1
  <2>1. x \in 1 .. p + 1
    BY <1>3
  <2> HIDE DEF x
  <2>2. SubSeq(f, x, p) \in Seq(STRING)
    BY <2>1, PartIs
  <2> QED
    BY <2>2 DEF x
<1> QED
  BY <1>4, <1>5 DEF k

(* The files are texts, and an empty one does not name tls.                *)
LEMMA EmptyNamesNothing ==
  /\ ~Occurs(Want, <<>>) /\ Min2(Len(Want) - 1, 0) = 0 /\ Last(<<>>, 0) = <<>>
  /\ \A f \in Seq(STRING) : SubSeq(f, 1, 0) = <<>> /\ SubSeq(f, 1, Len(f)) = f
<1>1. Want \in Seq(STRING) /\ Len(Want) \in Nat /\ Len(Want) >= 1
  BY ProbeAssumption
<1>2. ~Occurs(Want, <<>>)
  <2>1. Len(<<>>) = 0
    OBVIOUS
  <2>2. \A i \in 0 .. 0 - Len(Want) : FALSE
    BY <1>1
  <2> QED
    BY <2>1, <2>2 DEF Occurs
<1>3. Min2(Len(Want) - 1, 0) = 0
  BY <1>1 DEF Min2
<1>4. Last(<<>>, 0) = <<>>
  BY DEF Last
<1>5. \A f \in Seq(STRING) : SubSeq(f, 1, 0) = <<>> /\ SubSeq(f, 1, Len(f)) = f
  OBVIOUS
<1> QED
  BY <1>2, <1>3, <1>4, <1>5

(* No call has been made, and a built-in tls is there.                     *)
LEMMA InitHolds == Init => ProbeInv
<1> SUFFICES ASSUME Init PROVE ProbeInv
  OBVIOUS
<1>1. TypeInv
  <2>1. index["dep"] \in Seq(STRING) /\ index["builtin"] \in Seq(STRING)
    BY ProbeAssumption DEF Init
  <2>2. index \in [{"dep", "builtin"} -> Seq(STRING)]
    BY <2>1 DEF Init
  <2> QED
    BY <2>2 DEF Init, TypeInv
<1>2. SearchInv /\ LoadedInv
  BY DEF Init, SearchInv, LoadedInv
<1>3. CarryExact /\ AnswerExact
  BY DEF Init, CarryExact, AnswerExact
<1> QED
  BY <1>1, <1>2, <1>3 DEF ProbeInv

(* ktls_available asks: with tls there and nothing failing that is the     *)
(* answer, and a search begins with nothing read.                          *)
LEMMA AvailableKeeps == ASSUME ProbeInv, Available PROVE ProbeInv'
<1> USE DEF ProbeInv
<1>1. PICK access \in BOOLEAN, uname \in BOOLEAN :
       /\ trouble' = (~access \/ (~loaded /\ ~uname))
       /\ IF (loaded /\ access) \/ ~uname
            THEN Answer(loaded /\ access, ~access \/ ~uname)
            ELSE /\ pc' = "open" /\ answer' = "none"
                 /\ UNCHANGED <<pos, buf, denied>>
  BY DEF Available
<1>2. pc = "idle" /\ seen' = loaded /\ file' = "dep" /\ index' = index /\ loaded' = loaded
  BY DEF Available, kernel
<1>3. pos = 0 /\ buf = <<>>
  BY <1>2 DEF SearchInv
<1>4. CASE (loaded /\ access) \/ ~uname
  <2>1. /\ pc' = "idle" /\ answer' = (IF loaded /\ access THEN "yes" ELSE "no")
        /\ pos' = 0 /\ buf' = <<>>
        /\ denied' = (denied \/ (~(loaded /\ access) /\ ~(~access \/ ~uname)))
    BY <1>1, <1>4 DEF Answer
  <2>2. denied' = denied
    BY <1>4, <2>1 DEF TypeInv
  <2>3. TypeInv'
    BY <1>1, <1>2, <2>1, <2>2 DEF TypeInv
  <2>4. SearchInv' /\ LoadedInv' /\ CarryExact'
    BY <1>2, <2>1, <2>2 DEF SearchInv, LoadedInv, CarryExact
  <2>5. AnswerExact'
    BY <1>1, <1>2, <1>4, <2>1 DEF AnswerExact, TypeInv
  <2> QED
    BY <2>3, <2>4, <2>5
<1>5. CASE ~((loaded /\ access) \/ ~uname)
  <2>1. pc' = "open" /\ answer' = "none" /\ pos' = 0 /\ buf' = <<>> /\ denied' = denied
    BY <1>1, <1>3, <1>5
  <2>2. ~trouble' => ~loaded
    BY <1>1, <1>5
  <2>3. TypeInv'
    BY <1>1, <1>2, <2>1 DEF TypeInv
  <2>4. SearchInv' /\ LoadedInv' /\ CarryExact' /\ AnswerExact'
    BY <1>2, <2>1, <2>2 DEF SearchInv, LoadedInv, CarryExact, AnswerExact
  <2> QED
    BY <2>3, <2>4
<1> QED
  BY <1>4, <1>5

(* A file is opened: nothing of it was read.                               *)
LEMMA OpenKeeps == ASSUME ProbeInv, Open PROVE ProbeInv'
<1> USE DEF ProbeInv
<1>1. /\ pc = "open" /\ pc' = "read" /\ index' = index /\ loaded' = loaded /\ file' = file
      /\ pos' = pos /\ buf' = buf /\ answer' = answer /\ seen' = seen /\ trouble' = trouble
      /\ denied' = denied
  BY DEF Open, kernel
<1>2. TypeInv' /\ SearchInv' /\ LoadedInv' /\ AnswerExact'
  BY <1>1 DEF TypeInv, SearchInv, LoadedInv, AnswerExact, Listed
<1>3. CarryExact'
  <2>1. pos = 0 /\ buf = <<>>
    BY <1>1 DEF SearchInv
  <2>2. index[file] \in Seq(STRING)
    BY DEF TypeInv
  <2>3. /\ SubSeq(index[file], 1, 0) = <<>> /\ Min2(Len(Want) - 1, 0) = 0
        /\ Last(<<>>, 0) = <<>> /\ ~Occurs(Want, <<>>)
    BY <2>2, EmptyNamesNothing
  <2>4. 0 \in 0 .. Len(index[file])
    BY <2>2
  <2> QED
    BY <1>1, <2>1, <2>3, <2>4 DEF CarryExact
<1> QED
  BY <1>2, <1>3

(* A read adds what Turn says.                                             *)
LEMMA ReadKeeps == ASSUME ProbeInv, Read PROVE ProbeInv'
<1> USE DEF ProbeInv
<1> DEFINE f == index[file]
           has(n) == buf \o SubSeq(f, pos + 1, pos + n)
<1>1. PICK n :
        /\ n \in 1 .. Min2(BufSize - Len(buf), Len(f) - pos)
        /\ IF Found(has(n))
             THEN Answer(TRUE, trouble)
             ELSE /\ pos' = pos + n /\ buf' = Kept(has(n))
                  /\ UNCHANGED <<pc, answer, denied>>
  BY DEF Read
<1>2. /\ pc = "read" /\ index' = index /\ loaded' = loaded /\ file' = file
      /\ seen' = seen /\ trouble' = trouble
  BY DEF Read, kernel
<1>3. f \in Seq(STRING)
  BY DEF TypeInv
<1>4. Carried(f, pos, buf) /\ pos \in 0 .. Len(f)
  BY <1>2, <1>3 DEF CarryExact, Carried
<1>5. buf \in Seq(STRING)
  BY <1>3, <1>4, CarryIsText DEF Carried
<1>6. n \in 1 .. Len(f) - pos
  <2>1. BufSize - Len(buf) \in Int /\ Len(f) - pos \in Int
    BY <1>3, <1>4, <1>5, ProbeAssumption
  <2>2. Min2(BufSize - Len(buf), Len(f) - pos) \in Int
        /\ Min2(BufSize - Len(buf), Len(f) - pos) <= Len(f) - pos
    BY <2>1 DEF Min2
  <2> QED
    BY <1>1, <2>1, <2>2
<1>7. /\ Found(has(n)) => Occurs(Want, f)
      /\ ~Found(has(n)) => Carried(f, pos + n, Kept(has(n)))
  <2> HIDE DEF f
  <2>1. Turned(f, pos, buf, n)
    BY <1>4, <1>6, Turn
  <2> QED
    BY <2>1 DEF Turned
<1> HIDE DEF has
<1>8. CASE Found(has(n))
  <2>1. pc' = "idle" /\ answer' = "yes" /\ pos' = 0 /\ buf' = <<>> /\ denied' = denied
    BY <1>1, <1>8 DEF Answer, TypeInv
  <2>2. Listed
    BY <1>7, <1>8 DEF Listed, TypeInv
  <2>3. TypeInv' /\ SearchInv' /\ LoadedInv' /\ CarryExact'
    BY <1>2, <2>1 DEF TypeInv, SearchInv, LoadedInv, CarryExact
  <2>4. AnswerExact'
    BY <1>2, <2>1, <2>2 DEF AnswerExact, Listed
  <2> QED
    BY <2>3, <2>4
<1>9. CASE ~Found(has(n))
  <2>1. /\ pos' = pos + n /\ buf' = Kept(has(n))
        /\ pc' = pc /\ answer' = answer /\ denied' = denied
    BY <1>1, <1>9
  <2>2. Carried(f, pos', buf')
    BY <1>7, <1>9, <2>1
  <2>3. CarryExact'
    BY <1>2, <2>2 DEF CarryExact, Carried
  <2>4. TypeInv' /\ SearchInv' /\ LoadedInv' /\ AnswerExact'
    BY <1>2, <2>1 DEF TypeInv, SearchInv, LoadedInv, AnswerExact, Listed
  <2> QED
    BY <2>3, <2>4
<1> QED
  BY <1>8, <1>9

(* A file that did not name tls, or could not be read: after modules.dep   *)
(* comes modules.builtin, and after that the answer is no.                 *)
LEMMA MissedKeeps ==
  ASSUME ProbeInv, pc # "idle", NEW t, t \in BOOLEAN, trouble' = t, trouble => t, Missed(t),
         ~t => ~Occurs(Want, index[file]),
         UNCHANGED <<kernel, seen>>
  PROVE  ProbeInv'
<1> USE DEF ProbeInv
<1>1. index' = index /\ loaded' = loaded /\ seen' = seen
  BY DEF kernel
<1>2. /\ answer = "none"
      /\ ~t => ~seen
      /\ ~t /\ file = "builtin" => ~Occurs(Want, index["dep"])
  BY DEF SearchInv
<1>3. CASE file = "dep"
  <2>1. /\ pc' = "open" /\ file' = "builtin" /\ pos' = 0 /\ buf' = <<>>
        /\ answer' = answer /\ denied' = denied
    BY <1>3 DEF Missed
  <2>2. TypeInv' /\ LoadedInv' /\ CarryExact' /\ AnswerExact'
    BY <1>1, <1>2, <2>1 DEF TypeInv, LoadedInv, CarryExact, AnswerExact
  <2>3. SearchInv'
    BY <1>1, <1>2, <1>3, <2>1 DEF SearchInv
  <2> QED
    BY <2>2, <2>3
<1>4. CASE file # "dep"
  <2>1. file = "builtin"
    BY <1>4 DEF TypeInv
  <2>2. /\ pc' = "idle" /\ answer' = "no" /\ pos' = 0 /\ buf' = <<>> /\ file' = file
        /\ denied' = (denied \/ ~t)
    BY <1>4 DEF Missed, Answer
  <2>3. ~t => ~Listed /\ ~seen
    BY <1>2, <2>1 DEF Listed
  <2>4. TypeInv' /\ SearchInv' /\ CarryExact'
    BY <1>1, <2>2 DEF TypeInv, SearchInv, CarryExact
  <2>5. LoadedInv'
    BY <1>1, <1>2, <2>1, <2>2 DEF LoadedInv
  <2>6. AnswerExact'
    BY <1>1, <2>2, <2>3 DEF AnswerExact, Listed
  <2> QED
    BY <2>4, <2>5, <2>6
<1> QED
  BY <1>3, <1>4

(* At the end of a file all of it was searched.                            *)
LEMMA EndKeeps == ASSUME ProbeInv, End PROVE ProbeInv'
<1> USE DEF ProbeInv
<1>1. /\ pc = "read" /\ pos = Len(index[file]) /\ Missed(trouble) /\ trouble' = trouble
      /\ UNCHANGED <<kernel, seen>>
  BY DEF End
<1>2. index[file] \in Seq(STRING) /\ trouble \in BOOLEAN
  BY DEF TypeInv
<1>3. ~Occurs(Want, index[file])
  BY <1>1, <1>2, EmptyNamesNothing DEF CarryExact
<1> QED
  BY <1>1, <1>2, <1>3, MissedKeeps

(* A failed open or read ends the file's turn, and is remembered.          *)
LEMMA FailKeeps == ASSUME ProbeInv, Fail PROVE ProbeInv'
<1>1. /\ pc # "idle" /\ trouble' = TRUE /\ Missed(TRUE) /\ UNCHANGED <<kernel, seen>>
  BY DEF Fail
<1> QED
  BY <1>1, MissedKeeps

(* The kernel comes by tls only where modules.dep lists it, and loses it   *)
(* only where it is not built in.                                          *)
LEMMA KernelKeeps ==
  ASSUME ProbeInv, UNCHANGED <<index, call, denied>>, loaded' \in BOOLEAN,
         loaded' => loaded \/ Occurs(Want, index["dep"]),
         loaded => loaded' \/ ~Occurs(Want, index["builtin"])
  PROVE  ProbeInv'
<1> USE DEF ProbeInv
<1>1. /\ index' = index /\ pc' = pc /\ file' = file /\ pos' = pos /\ buf' = buf
      /\ answer' = answer /\ seen' = seen /\ trouble' = trouble /\ denied' = denied
  BY DEF call
<1>2. TypeInv' /\ SearchInv' /\ CarryExact' /\ AnswerExact'
  BY <1>1 DEF TypeInv, SearchInv, CarryExact, AnswerExact, Listed
<1>3. LoadedInv'
  BY <1>1 DEF LoadedInv
<1> QED
  BY <1>2, <1>3

(* Every step of a call, of the lookup and of the machine around them.     *)
LEMMA NextKeeps == ProbeInv /\ [Next]_vars => ProbeInv'
<1> SUFFICES ASSUME ProbeInv, [Next]_vars PROVE ProbeInv'
  OBVIOUS
<1>0. loaded \in BOOLEAN /\ Occurs(Want, index["dep"]) \in BOOLEAN
  BY DEF ProbeInv, TypeInv, Occurs
<1>1. CASE Available
  BY <1>1, AvailableKeeps
<1>2. CASE Searching
  BY <1>2, OpenKeeps, ReadKeeps, EndKeeps DEF Searching
<1>3. CASE Fail
  BY <1>3, FailKeeps
<1>4. ASSUME UlpLookup
      PROVE  /\ loaded' \in BOOLEAN
             /\ loaded' => loaded \/ Occurs(Want, index["dep"])
             /\ loaded => loaded'
  BY <1>0, <1>4 DEF UlpLookup
<1>5. CASE LoadModule
  <2>1. UNCHANGED <<index, call, denied>> /\ (UlpLookup \/ loaded' = loaded)
    BY <1>5 DEF LoadModule
  <2> QED
    BY <1>0, <1>4, <2>1, KernelKeeps
<1>6. CASE AttachUlp
  <2>1. UNCHANGED <<index, call, denied>> /\ UlpLookup
    BY <1>6 DEF AttachUlp
  <2> QED
    BY <1>4, <2>1, KernelKeeps
<1>7. CASE Modprobe
  BY <1>7, KernelKeeps DEF Modprobe
<1>8. CASE Rmmod
  BY <1>8, KernelKeeps DEF Rmmod
<1>9. CASE UNCHANGED vars
  <2>1. UNCHANGED <<index, call, denied>> /\ loaded' = loaded
    BY <1>9 DEF vars, kernel
  <2> QED
    BY <1>0, <2>1, KernelKeeps
<1> QED
  BY <1>1, <1>2, <1>3, <1>5, <1>6, <1>7, <1>8, <1>9 DEF Next
-----------------------------------------------------------------------------
(* However the reads cut the files, whatever fails and whoever loads or    *)
(* unloads the module meanwhile, the invariant holds.                      *)
THEOREM ProbeInvariant == Spec => []ProbeInv
<1> QED
  BY InitHolds, NextKeeps, PTL DEF Spec

(* For every name, file and buffer: the carry of ktls_file_names never     *)
(* loses a name that two reads cut in two.                                 *)
THEOREM CarryAlwaysExact == Spec => []CarryExact
<1>1. ProbeInv => CarryExact
  BY DEF ProbeInv
<1> QED
  BY <1>1, ProbeInvariant, PTL

(* And ktls_available answers what it promises: true only with reason, and *)
(* false, where nothing failed, only when tls was neither there nor listed.*)
THEOREM AnswersAlwaysExact == Spec => []AnswerExact
<1>1. ProbeInv => AnswerExact
  BY DEF ProbeInv
<1> QED
  BY <1>1, ProbeInvariant, PTL

(* After such a false no call and no other process gets tls into this      *)
(* kernel, as ktls.h says.                                                 *)
THEOREM FalseIsFinal == Spec => FalseMeansNoHelp
<1>1. ASSUME ProbeInv, ProbeInv', [Next]_vars
      PROVE  [denied => ~loaded' /\ (loader' = "ok" => loader = "ok")]_vars
  <2> SUFFICES ASSUME denied, Next
               PROVE  ~loaded' /\ (loader' = "ok" => loader = "ok")
    BY <1>1
  <2>1. ~loaded /\ ~Occurs(Want, index["dep"]) /\ loaded \in BOOLEAN
    BY <1>1 DEF ProbeInv, LoadedInv, TypeInv
  <2>2. CASE Available
    BY <2>1, <2>2 DEF Available, kernel
  <2>3. CASE Searching \/ Fail
    <3>1. loaded' = loaded /\ loader' = loader
      <4>1. Open => loaded' = loaded /\ loader' = loader
        BY DEF Open, kernel
      <4>2. Read => loaded' = loaded /\ loader' = loader
        BY DEF Read, kernel
      <4>3. End \/ Fail => loaded' = loaded /\ loader' = loader
        BY DEF End, Fail, kernel
      <4> QED
        BY <2>3, <4>1, <4>2, <4>3 DEF Searching
    <3> QED
      BY <2>1, <3>1
  <2>4. UlpLookup => ~loaded'
    BY <2>1 DEF UlpLookup
  <2>5. CASE LoadModule
    <3>1. PICK socket \in BOOLEAN :
            /\ IF socket THEN UlpLookup ELSE UNCHANGED loaded
            /\ loader' = IF socket /\ loaded' THEN "ok" ELSE "failed"
      BY <2>5 DEF LoadModule
    <3>2. ~loaded'
      BY <2>1, <2>4, <3>1
    <3> QED
      BY <3>1, <3>2
  <2>6. CASE AttachUlp
    BY <2>4, <2>6 DEF AttachUlp
  <2>7. CASE Modprobe \/ Rmmod
    BY <2>1, <2>7 DEF Modprobe, Rmmod
  <2> QED
    BY <2>2, <2>3, <2>5, <2>6, <2>7 DEF Next
<1> QED
  BY <1>1, ProbeInvariant, PTL DEF Spec, FalseMeansNoHelp
=============================================================================
