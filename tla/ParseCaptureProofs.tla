------------------------- MODULE ParseCaptureProofs -------------------------
(***************************************************************************)
(* Proofs about ParseCapture, for any traffic, and about the parsers of    *)
(* DnsMessage and TlsHello it runs, for any bytes.  The parsers are        *)
(* recursive over a message.  That their recursions have a solution, and   *)
(* what it is, follows by induction over sets of numbers, which needs no   *)
(* theorem with an operator as its parameter.                              *)
(***************************************************************************)
EXTENDS ParseCapture, FiniteSetTheorems, SequenceTheorems, WellFoundedInduction, TLAPS

-----------------------------------------------------------------------------
(***************************************************************************)
(* Induction.  The theorems of the library have an operator parameter; as  *)
(* facts about sets, from the least element of one, they need none.        *)
(***************************************************************************)

\* Less-than on Nat is well-founded.
LEMMA LessWellFounded == IsWellFoundedOn({p \in Nat \X Nat : p[1] < p[2]}, Nat)
  BY NatLessThanWellFounded DEF OpToRel

\* A set of numbers has a least element, unless it is empty.
LEMMA LeastElement ==
  ASSUME NEW T \in SUBSET Nat, T # {}
  PROVE  \E n \in T : \A m \in T : n <= m
<1> DEFINE R == {p \in Nat \X Nat : p[1] < p[2]}
<1>1. \A m, n \in Nat : m < n => <<m, n>> \in R
  OBVIOUS
<1>2. IsWellFoundedOn(R, Nat)
  BY LessWellFounded
<1> HIDE DEF R
<1>3. PICK n \in T : \A m \in T : ~ (<<m, n>> \in R)
  BY <1>2, WFMin
<1>4. ASSUME NEW m \in T
      PROVE  n <= m
  <2>1. m \in Nat /\ n \in Nat
    OBVIOUS
  <2>2. ~ (m < n)
    BY <2>1, <1>1, <1>3
  <2>3. QED
    BY <2>1, <2>2
<1>5. QED
  BY <1>4

\* A set of numbers with 0 and the successors of its elements is Nat.
LEMMA Induction ==
  ASSUME NEW S, 0 \in S, \A n \in Nat : n \in S => n + 1 \in S
  PROVE  Nat \subseteq S
<1> SUFFICES ASSUME NEW k \in Nat, k \notin S
    PROVE  FALSE
  OBVIOUS
<1>1. PICK n \in Nat \ S : \A m \in Nat \ S : n <= m
  BY LeastElement
<1>2. n - 1 \in Nat /\ n - 1 \in S
  BY <1>1
<1>3. (n - 1) + 1 \in S
  BY <1>2
<1>4. QED
  BY <1>1, <1>2, <1>3

\* From the end of a message back to its beginning.
LEMMA BackwardInduction ==
  ASSUME NEW S, NEW end \in Nat,
         \A off \in Nat \ {0} : off > end => off \in S,
         \A off \in 1 .. end : (\A later \in Nat : later > off => later \in S) => off \in S
  PROVE  Nat \ {0} \subseteq S
<1> DEFINE T == {k \in Nat : \A off \in Nat \ {0} : off + k > end => off \in S}
<1>1. 0 \in T
  OBVIOUS
<1>2. ASSUME NEW k \in Nat, k \in T
      PROVE  k + 1 \in T
  <2> SUFFICES ASSUME NEW off \in Nat \ {0}, off + (k + 1) > end
      PROVE  off \in S
    OBVIOUS
  <2>1. \A later \in Nat : later > off => later \in S
    BY <1>2
  <2>2. CASE off > end
    BY <2>2
  <2>3. CASE ~ (off > end)
    BY <2>1, <2>3
  <2>4. QED
    BY <2>2, <2>3
<1> HIDE DEF T
<1>3. end \in T
  BY <1>1, <1>2, Induction
<1>4. QED
  BY <1>3 DEF T

-----------------------------------------------------------------------------
(***************************************************************************)
(* The labels of a question.                                               *)
(***************************************************************************)

\* One turn of the loop over the labels; from has what follows.
LabelsStep(msg, from, off) ==
  IF off > Len(msg) THEN [labels |-> <<>>, end |-> "cut", off |-> off]
  ELSE IF msg[off] = 0 THEN [labels |-> <<>>, end |-> "root", off |-> off + 1]
  ELSE IF msg[off] > 63 THEN [labels |-> <<>>, end |-> "pointer", off |-> off + 2]
  ELSE IF off + msg[off] > Len(msg) THEN [labels |-> <<>>, end |-> "cut", off |-> off]
  ELSE [labels |-> <<SubSeq(msg, off + 1, off + msg[off])>> \o from[off + msg[off] + 1].labels,
        end |-> from[off + msg[off] + 1].end, off |-> from[off + msg[off] + 1].off]

\* The recursion of Labels has a solution.
LEMMA LabelsEquation ==
  ASSUME NEW msg \in Seq(Nat)
  PROVE  Labels(msg) = [off \in Nat \ {0} |-> LabelsStep(msg, Labels(msg), off)]
<1> DEFINE Solved(f, k) == \A off \in Nat \ {0} : off + k > Len(msg) => f[off] = LabelsStep(msg, f, off)
<1> DEFINE S == {k \in Nat : \E f : f = [off \in Nat \ {0} |-> f[off]] /\ Solved(f, k)}
<1>1. 0 \in S
  <2> DEFINE f == [off \in Nat \ {0} |-> [labels |-> <<>>, end |-> "cut", off |-> off]]
  <2>1. Solved(f, 0) /\ f = [off \in Nat \ {0} |-> f[off]]
    BY DEF LabelsStep
  <2>2. QED
    BY <2>1
<1>2. ASSUME NEW k \in Nat, k \in S
      PROVE  k + 1 \in S
  <2>1. PICK f : f = [off \in Nat \ {0} |-> f[off]] /\ Solved(f, k)
    BY <1>2
  <2> DEFINE g == [off \in Nat \ {0} |-> IF off + k > Len(msg) THEN f[off] ELSE LabelsStep(msg, f, off)]
  <2>2. ASSUME NEW off \in Nat \ {0}, off + (k + 1) > Len(msg)
        PROVE  g[off] = LabelsStep(msg, g, off)
    <3>1. CASE off > Len(msg)
      BY <2>1, <3>1 DEF LabelsStep
    <3>2. CASE ~ (off > Len(msg))
      <4>1. g[off] = LabelsStep(msg, f, off)
        BY <2>1
      <4>2. msg[off] \in Nat
        BY <3>2
      <4>3. f[off + msg[off] + 1] = g[off + msg[off] + 1]
        <5>1. off + msg[off] + 1 \in Nat \ {0} /\ off + msg[off] + 1 + k > Len(msg)
          BY <4>2, <2>2
        <5>2. QED
          BY <5>1
      <4>4. LabelsStep(msg, g, off) = LabelsStep(msg, f, off)
        BY <4>3, <3>2 DEF LabelsStep
      <4>5. QED
        BY <4>1, <4>4
    <3>3. QED
      BY <3>1, <3>2
  <2>3. g = [off \in Nat \ {0} |-> g[off]]
    OBVIOUS
  <2> HIDE DEF g
  <2>4. QED
    BY <2>2, <2>3
<1>3. PICK f : f = [off \in Nat \ {0} |-> f[off]] /\ Solved(f, Len(msg) + 1)
  <2> HIDE DEF S
  <2>1. Len(msg) + 1 \in S
    BY <1>1, <1>2, Induction, SMTT(30)
  <2>2. QED
    BY <2>1 DEF S
<1>4. f = [off \in Nat \ {0} |-> LabelsStep(msg, f, off)]
  BY <1>3
<1>5. QED
  BY <1>4 DEF Labels, LabelsStep

\* One turn of the loop over the labels.
LEMMA LabelsAt ==
  ASSUME NEW msg \in Seq(Nat), NEW off \in Nat \ {0}
  PROVE  Labels(msg)[off] = LabelsStep(msg, Labels(msg), off)
  BY LabelsEquation

\* What the loop over the labels can end with.
Question == [labels : Seq(Seq(Nat)), end : {"cut", "root", "pointer"}, off : Nat \ {0}]

\* A question whose reading has come to an end at off.
Ended(why, off) == [labels |-> <<>>, end |-> why, off |-> off]

\* A label in front of the rest of a question.
Before(label, rest) == [labels |-> <<label>> \o rest.labels, end |-> rest.end, off |-> rest.off]

\* The same, by what stands at off.
LEMMA LabelsCases ==
  ASSUME NEW msg \in Seq(Nat), NEW off \in Nat \ {0}
  PROVE  /\ off > Len(msg) => Labels(msg)[off] = Ended("cut", off)
         /\ off <= Len(msg) =>
              /\ msg[off] \in Nat
              /\ msg[off] = 0 => Labels(msg)[off] = Ended("root", off + 1)
              /\ msg[off] > 63 => Labels(msg)[off] = Ended("pointer", off + 2)
              /\ msg[off] # 0 /\ ~ (msg[off] > 63) /\ off + msg[off] > Len(msg) =>
                   Labels(msg)[off] = Ended("cut", off)
              /\ msg[off] # 0 /\ ~ (msg[off] > 63) /\ off + msg[off] <= Len(msg) =>
                   /\ SubSeq(msg, off + 1, off + msg[off]) \in Seq(Nat)
                   /\ Labels(msg)[off] = Before(SubSeq(msg, off + 1, off + msg[off]),
                                                Labels(msg)[off + msg[off] + 1])
<1>1. Labels(msg)[off] = LabelsStep(msg, Labels(msg), off)
  BY LabelsAt
<1>2. off <= Len(msg) => off \in 1 .. Len(msg) /\ msg[off] \in Nat
  OBVIOUS
<1>3. ASSUME off <= Len(msg), off + msg[off] <= Len(msg), msg[off] \in Nat
      PROVE  SubSeq(msg, off + 1, off + msg[off]) \in Seq(Nat)
  BY <1>3
<1>4. ASSUME off > Len(msg)
      PROVE  Labels(msg)[off] = Ended("cut", off)
  BY <1>1, <1>4 DEF LabelsStep, Ended
<1>5. ASSUME off <= Len(msg), msg[off] = 0
      PROVE  Labels(msg)[off] = Ended("root", off + 1)
  BY <1>1, <1>5 DEF LabelsStep, Ended
<1>6. ASSUME off <= Len(msg), msg[off] > 63
      PROVE  Labels(msg)[off] = Ended("pointer", off + 2)
  BY <1>1, <1>2, <1>6 DEF LabelsStep, Ended
<1>7. ASSUME off <= Len(msg), msg[off] # 0 /\ ~ (msg[off] > 63)
      PROVE  Labels(msg)[off] = IF off + msg[off] > Len(msg) THEN Ended("cut", off)
                                ELSE Before(SubSeq(msg, off + 1, off + msg[off]),
                                            Labels(msg)[off + msg[off] + 1])
  BY <1>1, <1>7 DEF LabelsStep, Ended, Before
<1>8. ASSUME off <= Len(msg)
      PROVE  /\ msg[off] \in Nat
             /\ msg[off] = 0 => Labels(msg)[off] = Ended("root", off + 1)
             /\ msg[off] > 63 => Labels(msg)[off] = Ended("pointer", off + 2)
             /\ msg[off] # 0 /\ ~ (msg[off] > 63) /\ off + msg[off] > Len(msg) =>
                   Labels(msg)[off] = Ended("cut", off)
             /\ msg[off] # 0 /\ ~ (msg[off] > 63) /\ off + msg[off] <= Len(msg) =>
                   /\ SubSeq(msg, off + 1, off + msg[off]) \in Seq(Nat)
                   /\ Labels(msg)[off] = Before(SubSeq(msg, off + 1, off + msg[off]),
                                                Labels(msg)[off + msg[off] + 1])
  <2>1. msg[off] \in Nat
    BY <1>2, <1>8
  <2>2. QED
    BY <1>3, <1>5, <1>6, <1>7, <1>8, <2>1
<1>9. QED
  BY <1>4, <1>8

\* The types of what is read, and that the place of its end is behind it.
LEMMA LabelsType ==
  ASSUME NEW msg \in Seq(Nat), NEW off \in Nat \ {0}
  PROVE  /\ Labels(msg)[off] \in Question
         /\ Labels(msg)[off].off >= off
         /\ Labels(msg)[off].end = "root" => Labels(msg)[off].off \in off + 1 .. Len(msg) + 1
<1> DEFINE Typed(q, o) == /\ q \in Question
                          /\ q.off >= o
                          /\ q.end = "root" => q.off \in o + 1 .. Len(msg) + 1
           S == {o \in Nat \ {0} : Typed(Labels(msg)[o], o)}
<1>1. ASSUME NEW o \in Nat \ {0}, NEW why \in {"cut", "root", "pointer"}, NEW e \in Nat, e >= o,
             why = "root" => e \in o + 1 .. Len(msg) + 1
      PROVE  Typed(Ended(why, e), o)
  <2>1. <<>> \in Seq(Seq(Nat))
    OBVIOUS
  <2>2. Ended(why, e) \in Question
    BY <1>1, <2>1 DEF Ended, Question
  <2>3. QED
    BY <1>1, <2>2 DEF Ended
<1>2. ASSUME NEW o \in Nat \ {0}, NEW next \in Nat, next > o, NEW rest, Typed(rest, next),
             NEW label \in Seq(Nat)
      PROVE  Typed(Before(label, rest), o)
  <2>1. /\ rest.labels \in Seq(Seq(Nat)) /\ rest.end \in {"cut", "root", "pointer"}
        /\ rest.off \in Nat \ {0}
    BY <1>2 DEF Question
  <2>2. <<label>> \o rest.labels \in Seq(Seq(Nat))
    BY <2>1
  <2>3. Before(label, rest) \in Question
    BY <2>1, <2>2 DEF Before, Question
  <2>4. QED
    BY <1>2, <2>1, <2>3 DEF Before
<1> HIDE DEF Typed
<1>3. ASSUME NEW o \in Nat \ {0}, o > Len(msg)
      PROVE  o \in S
  BY <1>1, <1>3, LabelsCases
<1>4. ASSUME NEW o \in 1 .. Len(msg), \A later \in Nat : later > o => later \in S
      PROVE  o \in S
  <2>1. msg[o] \in Nat
    OBVIOUS
  <2>2. CASE msg[o] = 0
    BY <1>1, <2>2, LabelsCases
  <2>3. CASE msg[o] > 63
    BY <1>1, <2>3, LabelsCases
  <2>4. CASE msg[o] # 0 /\ ~ (msg[o] > 63) /\ o + msg[o] > Len(msg)
    BY <1>1, <2>4, LabelsCases
  <2>5. CASE msg[o] # 0 /\ ~ (msg[o] > 63) /\ o + msg[o] <= Len(msg)
    <3> DEFINE next == o + msg[o] + 1
               rest == Labels(msg)[next]
               label == SubSeq(msg, o + 1, o + msg[o])
    <3>1. next \in Nat /\ next > o /\ o \in Nat \ {0}
      BY <2>1
    <3>2. Typed(rest, next)
      BY <1>4, <3>1
    <3>3. label \in Seq(Nat) /\ Labels(msg)[o] = Before(label, rest)
      BY <2>5, LabelsCases
    <3> HIDE DEF next, rest, label
    <3>4. Typed(Before(label, rest), o)
      BY <1>2, <3>1, <3>2, <3>3
    <3>5. QED
      BY <3>1, <3>3, <3>4
  <2>6. msg[o] = 0 \/ msg[o] > 63 \/ (msg[o] # 0 /\ ~ (msg[o] > 63))
    OBVIOUS
  <2>7. o + msg[o] > Len(msg) \/ o + msg[o] <= Len(msg)
    BY <2>1
  <2>8. QED
    BY <2>2, <2>3, <2>4, <2>5, <2>6, <2>7
<1>5. off \in S
  <2> HIDE DEF S
  <2>1. Len(msg) \in Nat
    OBVIOUS
  <2>2. QED
    BY <1>3, <1>4, <2>1, BackwardInduction
<1>6. QED
  BY <1>5 DEF Typed

\* What sequences have in common, their parts have.
LEMMA SubSeqSame ==
  ASSUME NEW s \in Seq(Nat), NEW t \in Seq(Nat), NEW a \in Nat \ {0}, NEW b \in Nat,
         b <= Len(s), b <= Len(t), \A i \in a .. b : s[i] = t[i]
  PROVE  SubSeq(s, a, b) = SubSeq(t, a, b)
<1> DEFINE u == SubSeq(s, a, b)
           v == SubSeq(t, a, b)
<1>1. /\ u \in Seq(Nat) /\ Len(u) = IF a <= b THEN b - a + 1 ELSE 0
      /\ \A i \in 1 .. b - a + 1 : u[i] = s[a + i - 1]
  BY SubSeqProperties, SMTT(30)
<1>2. /\ v \in Seq(Nat) /\ Len(v) = IF a <= b THEN b - a + 1 ELSE 0
      /\ \A i \in 1 .. b - a + 1 : v[i] = t[a + i - 1]
  BY SubSeqProperties
<1> HIDE DEF u, v
<1>3. ASSUME NEW i \in 1 .. Len(u)
      PROVE  u[i] = v[i]
  <2>1. i \in 1 .. b - a + 1 /\ a + i - 1 \in a .. b
    BY <1>1
  <2>2. QED
    BY <1>1, <1>2, <2>1
<1>4. u = v
  BY <1>1, <1>2, <1>3, SeqEqual
<1>5. QED
  BY <1>4 DEF u, v

\* In the first n cells a question reads as in the whole message, unless it is cut off.
LEMMA LabelsCutOff ==
  ASSUME NEW msg \in Seq(Nat), NEW n \in 0 .. Len(msg), NEW off \in Nat \ {0}
  PROVE  LET front == SubSeq(msg, 1, n) IN
         Labels(front)[off].end = "cut" \/ Labels(front)[off] = Labels(msg)[off]
<1> DEFINE front == SubSeq(msg, 1, n)
           S == {o \in Nat \ {0} : Labels(front)[o].end = "cut" \/ Labels(front)[o] = Labels(msg)[o]}
<1>1. front \in Seq(Nat) /\ Len(front) = n /\ \A i \in 1 .. n : front[i] = msg[i]
  OBVIOUS
<1>2. ASSUME NEW o \in Nat \ {0}, o > n
      PROVE  o \in S
  <2>1. Labels(front)[o] = Ended("cut", o)
    BY <1>1, <1>2, LabelsCases
  <2>2. QED
    BY <2>1 DEF Ended
<1>3. ASSUME NEW o \in 1 .. n, \A later \in Nat : later > o => later \in S
      PROVE  o \in S
  <2> DEFINE len == msg[o]
  <2>1. /\ len \in Nat /\ front[o] = len /\ o <= Len(front) /\ o <= Len(msg)
        /\ o \in Nat \ {0} /\ len = msg[o]
    BY <1>1
  <2> HIDE DEF front, len
  <2>2. CASE len = 0
    BY <1>1, <2>1, <2>2, LabelsCases, ZenonT(40)
  <2>3. CASE len > 63
    BY <1>1, <2>1, <2>3, LabelsCases
  <2>4. CASE len # 0 /\ ~ (len > 63) /\ o + len > n
    <3>1. Labels(front)[o] = Ended("cut", o)
      BY <1>1, <2>1, <2>4, LabelsCases
    <3>2. QED
      BY <3>1, <2>1 DEF Ended
  <2>5. CASE len # 0 /\ ~ (len > 63) /\ o + len <= n
    <3> DEFINE next == o + len + 1
    <3>1. SubSeq(front, o + 1, o + len) = SubSeq(msg, o + 1, o + len)
      <4>1. \A i \in o + 1 .. o + len : front[i] = msg[i]
        BY <1>1, <2>1, <2>5, SMTT(30)
      <4>2. o + 1 \in Nat \ {0} /\ o + len \in Nat /\ o + len <= Len(front) /\ o + len <= Len(msg)
        BY <1>1, <2>1, <2>5, SMTT(30)
      <4>3. QED
        BY <1>1, <4>1, <4>2, SubSeqSame
    <3>2. Labels(front)[o] = Before(SubSeq(msg, o + 1, o + len), Labels(front)[next])
      <4>1. front[o] # 0 /\ ~ (front[o] > 63) /\ o + front[o] <= Len(front)
        BY <1>1, <2>1, <2>5
      <4>2. Labels(front)[o] = Before(SubSeq(front, o + 1, o + front[o]), Labels(front)[o + front[o] + 1])
        BY <1>1, <2>1, <4>1, LabelsCases
      <4>3. QED
        BY <2>1, <3>1, <4>2
    <3>3. Labels(msg)[o] = Before(SubSeq(msg, o + 1, o + len), Labels(msg)[next])
      <4>1. o + msg[o] <= Len(msg)
        BY <1>1, <2>1, <2>5 DEF len
      <4>2. QED
        BY <2>1, <2>5, <4>1, LabelsCases DEF len
    <3>4. next \in S
      BY <1>3, <2>1, SMTT(30)
    <3>5. CASE Labels(front)[next].end = "cut"
      BY <2>1, <3>2, <3>5 DEF Before
    <3>6. CASE Labels(front)[next] = Labels(msg)[next]
      BY <2>1, <3>2, <3>3, <3>6
    <3>7. QED
      BY <3>4, <3>5, <3>6
  <2>6. QED
    BY <2>1, <2>2, <2>3, <2>4, <2>5
<1>4. off \in S
  <2> HIDE DEF S
  <2>1. n \in Nat
    OBVIOUS
  <2>2. QED
    BY <1>2, <1>3, <2>1, BackwardInduction
<1>5. QED
  BY <1>4

\* A question that ends at the root is read alike in every message that has its cells.
LEMMA LabelsLocal ==
  ASSUME NEW msg \in Seq(Nat), NEW other \in Seq(Nat), NEW off \in Nat \ {0},
         Labels(msg)[off].end = "root", Labels(msg)[off].off - 1 <= Len(other),
         \A i \in off .. Labels(msg)[off].off - 1 : other[i] = msg[i]
  PROVE  Labels(other)[off] = Labels(msg)[off]
<1> DEFINE Same(o) == \A i \in o .. Labels(msg)[o].off - 1 : other[i] = msg[i]
           Fits(o) == Labels(msg)[o].end = "root" /\ Labels(msg)[o].off - 1 <= Len(other)
           S == {o \in Nat \ {0} : Fits(o) /\ Same(o) => Labels(other)[o] = Labels(msg)[o]}
<1>1. ASSUME NEW o \in Nat \ {0}, o > Len(msg)
      PROVE  o \in S
  <2>1. Labels(msg)[o] = Ended("cut", o)
    BY <1>1, LabelsCases
  <2>2. QED
    BY <2>1 DEF Ended
<1>2. ASSUME NEW o \in 1 .. Len(msg), \A later \in Nat : later > o => later \in S
      PROVE  o \in S
  <2> SUFFICES ASSUME Fits(o), Same(o)
      PROVE  Labels(other)[o] = Labels(msg)[o]
    OBVIOUS
  <2> DEFINE len == msg[o]
             q == Labels(msg)[o]
  <2>1. len \in Nat /\ o <= Len(msg) /\ o \in Nat \ {0}
    OBVIOUS
  <2>2. q.end = "root" /\ q.off \in Nat /\ q.off > o /\ q.off - 1 <= Len(other)
    BY <2>1, LabelsType, SMTT(30)
  <2>3. other[o] = len /\ o <= Len(other)
    BY <2>1, <2>2
  <2>4. CASE len = 0
    BY <2>1, <2>3, <2>4, LabelsCases
  <2>5. CASE len > 63 \/ (len # 0 /\ ~ (len > 63) /\ o + len > Len(msg))
    <3>1. q \in {Ended("pointer", o + 2), Ended("cut", o)}
      BY <2>1, <2>5, LabelsCases
    <3>2. QED
      BY <2>2, <3>1 DEF Ended
  <2>6. CASE len # 0 /\ ~ (len > 63) /\ o + len <= Len(msg)
    <3> DEFINE next == o + len + 1
               rest == Labels(msg)[next]
    <3>1. q = Before(SubSeq(msg, o + 1, o + len), rest)
      BY <2>1, <2>6, LabelsCases
    <3>2. rest.end = "root" /\ rest.off = q.off
      BY <2>2, <3>1 DEF Before
    <3>3. next \in Nat \ {0} /\ next > o
      BY <2>1
    <3>4. rest.off \in next + 1 .. Len(msg) + 1
      BY <3>2, <3>3, LabelsType
    <3>5. Fits(next) /\ Same(next)
      BY <2>1, <2>2, <3>2, <3>3, <3>4
    <3>6. Labels(other)[next] = rest
      BY <1>2, <3>3, <3>5
    <3>7. o + len <= Len(other)
      <4>1. rest.off \in Nat /\ Len(other) \in Nat /\ next + 1 <= rest.off /\ rest.off - 1 <= Len(other)
        BY <2>2, <3>2, <3>3, <3>4
      <4>2. QED
        BY <2>1, <4>1, SMTT(30)
    <3>8. SubSeq(other, o + 1, o + len) = SubSeq(msg, o + 1, o + len)
      <4>1. \A i \in o + 1 .. o + len : other[i] = msg[i]
        BY <2>1, <2>2, <3>2, <3>4, SMTT(30)
      <4>2. o + 1 \in Nat \ {0} /\ o + len \in Nat
        BY <2>1
      <4>3. QED
        BY <2>6, <3>7, <4>1, <4>2, SubSeqSame
    <3>9. Labels(other)[o] = Before(SubSeq(other, o + 1, o + len), Labels(other)[next])
      BY <2>1, <2>3, <2>6, <3>7, LabelsCases
    <3>10. QED
      BY <3>1, <3>6, <3>8, <3>9
  <2>7. QED
    BY <2>1, <2>4, <2>5, <2>6
<1>3. off \in S
  <2> HIDE DEF S
  <2>1. Len(msg) \in Nat
    OBVIOUS
  <2>2. QED
    BY <1>1, <1>2, <2>1, BackwardInduction
<1>4. QED
  BY <1>3

-----------------------------------------------------------------------------
(***************************************************************************)
(* The names of a message.                                                 *)
(***************************************************************************)

\* One turn of the loop over the questions; from has what follows.
NamesStep(msg, from, k, off) ==
  IF k = 0 \/ Labels(msg)[off].end = "cut" THEN <<>>
  ELSE (IF Labels(msg)[off].labels = <<>> THEN <<>> ELSE <<Name(Labels(msg)[off].labels)>>)
         \o from[k - 1][Labels(msg)[off].off + 4]

\* The recursion of NamesFrom has a solution.
LEMMA NamesEquation ==
  ASSUME NEW msg
  PROVE  NamesFrom(msg) = [k \in 0 .. 32 |-> [off \in Nat \ {0} |->
                             NamesStep(msg, NamesFrom(msg), k, off)]]
<1> DEFINE Row(f, k) == [off \in Nat \ {0} |-> NamesStep(msg, f, k, off)]
           S == {n \in Nat : \E f : /\ f = [k \in 0 .. 32 |-> f[k]]
                                    /\ \A k \in 0 .. 32 : k < n => f[k] = Row(f, k)}
<1>1. 0 \in S
  <2> DEFINE f == [k \in 0 .. 32 |-> <<>>]
  <2>1. f = [k \in 0 .. 32 |-> f[k]] /\ \A k \in 0 .. 32 : k < 0 => f[k] = Row(f, k)
    OBVIOUS
  <2>2. QED
    BY <2>1
<1>2. ASSUME NEW n \in Nat, n \in S
      PROVE  n + 1 \in S
  <2>1. PICK f : /\ f = [k \in 0 .. 32 |-> f[k]]
                 /\ \A k \in 0 .. 32 : k < n => f[k] = Row(f, k)
    BY <1>2
  <2> DEFINE g == [k \in 0 .. 32 |-> IF k < n THEN f[k] ELSE Row(f, k)]
  <2>2. ASSUME NEW k \in 0 .. 32, k < n + 1
        PROVE  g[k] = Row(g, k)
    <3>1. k # 0 => g[k - 1] = f[k - 1]
      BY <2>2
    <3>2. ASSUME NEW off \in Nat \ {0}
          PROVE  NamesStep(msg, g, k, off) = NamesStep(msg, f, k, off)
      <4> HIDE DEF g
      <4>1. QED
        BY <3>1 DEF NamesStep
    <3>3. Row(g, k) = Row(f, k)
      BY <3>2
    <3>4. QED
      BY <2>1, <3>3
  <2>3. g = [k \in 0 .. 32 |-> g[k]]
    OBVIOUS
  <2> HIDE DEF g, Row
  <2>4. QED
    BY <2>2, <2>3
<1>3. PICK f : /\ f = [k \in 0 .. 32 |-> f[k]]
               /\ \A k \in 0 .. 32 : k < 33 => f[k] = Row(f, k)
  <2> HIDE DEF S
  <2>1. 33 \in S
    BY <1>1, <1>2, Induction
  <2>2. QED
    BY <2>1 DEF S
<1>4. f = [k \in 0 .. 32 |-> Row(f, k)]
  BY <1>3
<1>5. QED
  BY <1>4 DEF NamesFrom, NamesStep

\* One turn of the loop over the questions.
LEMMA NamesAt ==
  ASSUME NEW msg, NEW k \in 0 .. 32, NEW off \in Nat \ {0}
  PROVE  NamesFrom(msg)[k][off] = NamesStep(msg, NamesFrom(msg), k, off)
  BY NamesEquation

\* What a name can be.
Names == {Name(labels) : labels \in Seq(Seq(Nat))}

\* The name of a question, if it has one.
NameIn(q) == IF q.labels = <<>> THEN <<>> ELSE <<Name(q.labels)>>

\* The same, by how the question ends.
LEMMA NamesCases ==
  ASSUME NEW msg \in Seq(Nat), NEW k \in 0 .. 32, NEW off \in Nat \ {0}
  PROVE  LET q == Labels(msg)[off] IN
         /\ NameIn(q) \in Seq(Names)
         /\ k = 0 \/ q.end = "cut" => NamesFrom(msg)[k][off] = <<>>
         /\ k # 0 /\ q.end # "cut" =>
              NamesFrom(msg)[k][off] = NameIn(q) \o NamesFrom(msg)[k - 1][q.off + 4]
<1> DEFINE q == Labels(msg)[off]
<1>1. q.labels \in Seq(Seq(Nat))
  BY LabelsType DEF Question
<1>2. Name(q.labels) \in Names
  BY <1>1 DEF Names
<1>3. NameIn(q) \in Seq(Names)
  <2>1. <<>> \in Seq(Names) /\ <<Name(q.labels)>> \in Seq(Names)
    BY <1>2
  <2>2. QED
    BY <2>1 DEF NameIn
<1>4. QED
  BY <1>3, NamesAt DEF NamesStep, NameIn

\* A question that is wholly there, and the rest.
LEMMA NamesNext ==
  ASSUME NEW msg \in Seq(Nat), NEW m \in Nat, m + 1 <= 32, NEW off \in Nat \ {0},
         Labels(msg)[off].end # "cut"
  PROVE  LET q == Labels(msg)[off] IN
         /\ NameIn(q) \in Seq(Names)
         /\ q.off + 4 \in Nat \ {0}
         /\ NamesFrom(msg)[m + 1][off] = NameIn(q) \o NamesFrom(msg)[m][q.off + 4]
<1> DEFINE q == Labels(msg)[off]
<1>1. m + 1 \in 0 .. 32 /\ m + 1 # 0 /\ (m + 1) - 1 = m
  OBVIOUS
<1>2. q.off + 4 \in Nat \ {0}
  BY LabelsType DEF Question
<1>3. QED
  BY <1>1, <1>2, NamesCases

\* The loop over the questions returns names.
LEMMA NamesType ==
  ASSUME NEW msg \in Seq(Nat), NEW k \in 0 .. 32, NEW off \in Nat \ {0}
  PROVE  NamesFrom(msg)[k][off] \in Seq(Names)
<1> DEFINE S == {n \in Nat : n <= 32 => \A o \in Nat \ {0} : NamesFrom(msg)[n][o] \in Seq(Names)}
<1>1. 0 \in S
  <2>1. 0 \in 0 .. 32 /\ <<>> \in Seq(Names)
    OBVIOUS
  <2>2. QED
    BY <2>1, NamesCases
<1>2. ASSUME NEW n \in Nat, n \in S
      PROVE  n + 1 \in S
  <2> SUFFICES ASSUME n + 1 <= 32, NEW o \in Nat \ {0}
      PROVE  NamesFrom(msg)[n + 1][o] \in Seq(Names)
    OBVIOUS
  <2> DEFINE q == Labels(msg)[o]
  <2>1. q.off + 4 \in Nat \ {0} /\ n + 1 \in 0 .. 32 /\ n + 1 # 0 /\ (n + 1) - 1 = n
    BY LabelsType DEF Question
  <2>2. NamesFrom(msg)[n][q.off + 4] \in Seq(Names)
    BY <1>2, <2>1
  <2>3. CASE q.end = "cut"
    <3>1. <<>> \in Seq(Names)
      OBVIOUS
    <3>2. QED
      BY <2>1, <2>3, <3>1, NamesCases
  <2>4. CASE q.end # "cut"
    <3>1. NamesFrom(msg)[n + 1][o] = NameIn(q) \o NamesFrom(msg)[n][q.off + 4]
      BY <2>1, <2>4, NamesCases, ZenonT(40)
    <3>2. NameIn(q) \in Seq(Names)
      BY <2>1, NamesCases
    <3>3. QED
      BY <2>2, <3>1, <3>2
  <2>5. QED
    BY <2>3, <2>4
<1>3. k \in S
  <2> HIDE DEF S
  <2>1. k \in Nat
    OBVIOUS
  <2>2. QED
    BY <1>1, <1>2, <2>1, Induction
<1>4. k <= 32 => \A o \in Nat \ {0} : NamesFrom(msg)[k][o] \in Seq(Names)
  BY <1>3
<1>5. k <= 32
  OBVIOUS
<1>6. QED
  BY <1>4, <1>5

\* A prefix is what something was appended to.
LEMMA PrefixIff ==
  ASSUME NEW X, NEW s \in Seq(X), NEW t \in Seq(X)
  PROVE  /\ IsPrefix(<<>>, t)
         /\ IsPrefix(s, t) <=> Len(s) <= Len(t) /\ \A i \in 1 .. Len(s) : s[i] = t[i]
<1>1. Len(s) <= Len(t) => SubSeq(s, 1, Len(s)) = s /\ SubSeq(t, 1, Len(s)) \in Seq(X)
                            /\ Len(SubSeq(t, 1, Len(s))) = Len(s)
                            /\ \A i \in 1 .. Len(s) : SubSeq(t, 1, Len(s))[i] = t[i]
  OBVIOUS
<1>2. ASSUME Len(s) <= Len(t), \A i \in 1 .. Len(s) : s[i] = t[i]
      PROVE  SubSeq(t, 1, Len(s)) = s
  BY <1>1, <1>2, SeqEqual
<1>3. IsPrefix(<<>>, t)
  <2>1. Len(<<>>) = 0 /\ SubSeq(<<>>, 1, 0) = <<>> /\ SubSeq(t, 1, 0) = <<>>
    OBVIOUS
  <2>2. QED
    BY <2>1 DEF IsPrefix
<1>4. QED
  BY <1>1, <1>2, <1>3 DEF IsPrefix

\* What begins alike does so behind the same name.
LEMMA PrefixUnder ==
  ASSUME NEW X, NEW u \in Seq(X), NEW s \in Seq(X), NEW t \in Seq(X), IsPrefix(s, t)
  PROVE  IsPrefix(u \o s, u \o t)
<1>1. Len(s) <= Len(t) /\ \A i \in 1 .. Len(s) : s[i] = t[i]
  BY PrefixIff
<1>2. u \o s \in Seq(X) /\ u \o t \in Seq(X)
  OBVIOUS
<1>3. Len(u \o s) <= Len(u \o t)
  BY <1>1
<1>4. ASSUME NEW i \in 1 .. Len(u \o s)
      PROVE  (u \o s)[i] = (u \o t)[i]
  BY <1>1, <1>4
<1>5. QED
  BY <1>2, <1>3, <1>4, PrefixIff

\* The names in the first n cells are the first names.
LEMMA NamesCutOff ==
  ASSUME NEW msg \in Seq(Nat), NEW n \in 0 .. Len(msg), NEW k \in 0 .. 32, NEW off \in Nat \ {0}
  PROVE  IsPrefix(NamesFrom(SubSeq(msg, 1, n))[k][off], NamesFrom(msg)[k][off])
<1> DEFINE front == SubSeq(msg, 1, n)
           S == {m \in Nat : m <= 32 => \A o \in Nat \ {0} :
                               IsPrefix(NamesFrom(front)[m][o], NamesFrom(msg)[m][o])}
<1>1. front \in Seq(Nat)
  OBVIOUS
<1>2. ASSUME NEW m \in 0 .. 32, NEW o \in Nat \ {0}, NamesFrom(front)[m][o] = <<>>
      PROVE  IsPrefix(NamesFrom(front)[m][o], NamesFrom(msg)[m][o])
  BY <1>2, NamesType, PrefixIff
<1> HIDE DEF front
<1>3. 0 \in S
  <2>1. 0 \in 0 .. 32
    OBVIOUS
  <2>2. QED
    BY <1>1, <1>2, <2>1, NamesCases, ZenonT(40)
<1>4. ASSUME NEW m \in Nat, m \in S
      PROVE  m + 1 \in S
  <2> SUFFICES ASSUME m + 1 <= 32, NEW o \in Nat \ {0}
      PROVE  IsPrefix(NamesFrom(front)[m + 1][o], NamesFrom(msg)[m + 1][o])
    OBVIOUS
  <2> DEFINE q == Labels(msg)[o]
             rest(s) == NamesFrom(s)[m][q.off + 4]
  <2>1. q.off + 4 \in Nat \ {0} /\ m \in 0 .. 32 /\ m + 1 \in 0 .. 32 /\ m + 1 # 0 /\ (m + 1) - 1 = m
    BY LabelsType DEF Question
  <2>2. CASE Labels(front)[o].end = "cut"
    BY <1>1, <1>2, <2>1, <2>2, NamesCases
  <2>3. CASE Labels(front)[o].end # "cut"
    <3>1. Labels(front)[o] = q /\ q.end # "cut"
      BY <2>3, LabelsCutOff DEF front
    <3>2. NamesFrom(front)[m + 1][o] = NameIn(q) \o rest(front)
      <4>1. NamesFrom(front)[m + 1][o] = NameIn(Labels(front)[o]) \o NamesFrom(front)[m][Labels(front)[o].off + 4]
        BY <1>1, <2>3, NamesNext
      <4>2. QED
        BY <3>1, <4>1
    <3>3. NamesFrom(msg)[m + 1][o] = NameIn(q) \o rest(msg) /\ NameIn(q) \in Seq(Names)
      BY <3>1, NamesNext
    <3>4. rest(front) \in Seq(Names) /\ rest(msg) \in Seq(Names)
      BY <1>1, <2>1, NamesType
    <3>5. IsPrefix(rest(front), rest(msg))
      BY <1>4, <2>1
    <3>6. QED
      BY <3>2, <3>3, <3>4, <3>5, PrefixUnder
  <2>4. QED
    BY <2>2, <2>3
<1>5. k \in S
  <2> HIDE DEF S
  <2>1. k \in Nat
    OBVIOUS
  <2>2. QED
    BY <1>3, <1>4, <2>1, Induction
<1>6. IsPrefix(NamesFrom(front)[k][off], NamesFrom(msg)[k][off])
  BY <1>5
<1>7. QED
  BY <1>6 DEF front

\* dns_names returns names.
LEMMA DnsNamesType ==
  ASSUME NEW msg \in Seq(Nat)
  PROVE  DnsNames(msg) \in Seq(Names)
<1>1. <<>> \in Seq(Names)
  OBVIOUS
<1>2. QED
  <2>1. \A k \in 0 .. 32 : \A off \in Nat \ {0} : NamesFrom(msg)[k][off] \in Seq(Names)
    BY NamesType
  <2>2. 2 \in Nat \ {0}
    OBVIOUS
  <2>3. ASSUME msg[1] \in 1 .. 32
        PROVE  NamesFrom(msg)[msg[1]][2] \in Seq(Names)
    <3>1. msg[1] \in 0 .. 32
      BY <2>3
    <3> HIDE <2>3
    <3>2. QED
      BY <2>1, <2>2, <3>1
  <2>4. QED
    BY <1>1, <2>3 DEF DnsNames

\* dns_names of the first cells finds the first names.
LEMMA DnsNamesCutOff ==
  ASSUME NEW msg \in Seq(Nat), NEW n \in 0 .. Len(msg)
  PROVE  IsPrefix(DnsNames(SubSeq(msg, 1, n)), DnsNames(msg))
<1> DEFINE front == SubSeq(msg, 1, n)
<1>1. /\ front \in Seq(Nat) /\ Len(front) = n /\ \A i \in 1 .. n : front[i] = msg[i]
      /\ Len(msg) \in Nat /\ n \in Nat /\ n <= Len(msg)
  OBVIOUS
<1> HIDE DEF front
<1>2. DnsNames(msg) \in Seq(Names)
  BY DnsNamesType
<1>3. CASE DnsNames(front) = <<>>
  BY <1>2, <1>3, PrefixIff DEF front
<1>4. CASE DnsNames(front) # <<>>
  <2>1. front # <<>> /\ front[1] \in 1 .. 32
    BY <1>4 DEF DnsNames
  <2>2. n # 0 /\ msg # <<>> /\ msg[1] = front[1] /\ msg[1] \in 1 .. 32 /\ msg[1] \in 0 .. 32
    BY <1>1, <2>1
  <2>3. DnsNames(front) = NamesFrom(front)[msg[1]][2] /\ DnsNames(msg) = NamesFrom(msg)[msg[1]][2]
    BY <2>1, <2>2 DEF DnsNames
  <2>4. \A k \in 0 .. 32 : \A off \in Nat \ {0} :
           IsPrefix(NamesFrom(front)[k][off], NamesFrom(msg)[k][off])
    BY NamesCutOff DEF front
  <2>5. 2 \in Nat \ {0}
    OBVIOUS
  <2>6. IsPrefix(NamesFrom(front)[msg[1]][2], NamesFrom(msg)[msg[1]][2])
    BY <2>2, <2>4, <2>5
  <2>7. QED
    BY <2>3, <2>6 DEF front
<1>5. QED
  BY <1>3, <1>4 DEF front

-----------------------------------------------------------------------------
(***************************************************************************)
(* parse_question, and dns_names of the same bytes.                        *)
(***************************************************************************)

\* What parse_question returns, and when.
LEMMA ParseQuestionCases ==
  ASSUME NEW msg \in Seq(Nat), ParseQuestion(msg) # None
  PROVE  LET q == Labels(msg)[2] IN
         /\ msg # <<>> /\ msg[1] \in Nat \ {0}
         /\ q.labels \in Seq(Seq(Nat))
         /\ q.end = "root" /\ q.off \in Nat /\ q.off >= 3 /\ q.off + 3 <= Len(msg)
         /\ ParseQuestion(msg) = [name |-> Name(q.labels), type |-> SubSeq(msg, q.off, q.off + 1),
                                  end |-> q.off + 3]
<1> DEFINE q == Labels(msg)[2]
<1>1. 2 \in Nat \ {0} /\ 2 + 1 = 3
  OBVIOUS
<1>2. q \in Question /\ (q.end = "root" => q.off \in 2 + 1 .. Len(msg) + 1)
  BY <1>1, LabelsType
<1>3. /\ ~ (msg = <<>> \/ msg[1] < 1) /\ ~ (q.end # "root" \/ q.off + 3 > Len(msg))
      /\ ParseQuestion(msg) = [name |-> Name(q.labels), type |-> SubSeq(msg, q.off, q.off + 1),
                               end |-> q.off + 3]
  BY DEF ParseQuestion
<1>4. q.labels \in Seq(Seq(Nat)) /\ q.off \in Nat
  BY <1>2 DEF Question
<1>5. msg[1] \in Nat \ {0}
  <2>1. msg # <<>> /\ ~ (msg[1] < 1)
    BY <1>3
  <2>2. msg[1] \in Nat
    BY <2>1
  <2>3. QED
    BY <2>1, <2>2
<1>6. q.off >= 3 /\ q.off + 3 <= Len(msg)
  BY <1>1, <1>2, <1>3, <1>4, SMTT(30)
<1>7. QED
  BY <1>3, <1>4, <1>5, <1>6

\* The name of a question is only empty if it has no label.
LEMMA NameInOne ==
  ASSUME NEW q, Name(q.labels) # <<>>
  PROVE  NameIn(q) = <<Name(q.labels)>>
  BY DEF Name, NameIn

\* parse_question and dns_names agree on the first question.
LEMMA FirstNameAlike ==
  ASSUME NEW msg \in Seq(Nat), ParseQuestion(msg) # None, ParseQuestion(msg).name # <<>>,
         msg[1] <= 32
  PROVE  DnsNames(msg) # <<>> /\ Head(DnsNames(msg)) = ParseQuestion(msg).name
<1> DEFINE q == Labels(msg)[2]
           name == Name(q.labels)
<1>1. /\ msg # <<>> /\ msg[1] \in Nat \ {0} /\ q.end = "root"
      /\ ParseQuestion(msg).name = name
  BY ParseQuestionCases
<1>2. PICK m \in Nat : m + 1 = msg[1] /\ m + 1 <= 32 /\ m \in 0 .. 32
  <2>1. \A j \in Nat \ {0} : j <= 32 => j - 1 \in Nat /\ (j - 1) + 1 = j /\ j - 1 \in 0 .. 32
    OBVIOUS
  <2>2. QED
    BY <1>1, <2>1, ZenonT(40)
<1>3. DnsNames(msg) = NamesFrom(msg)[m + 1][2]
  <2>1. m + 1 \in 1 .. 32
    BY <1>2
  <2>2. QED
    BY <1>1, <1>2, <2>1 DEF DnsNames
<1>4. 2 \in Nat \ {0}
  OBVIOUS
<1>5. NameIn(q) = <<name>> /\ name \in Names
  <2>1. name # <<>>
    BY <1>1
  <2>2. q.labels \in Seq(Seq(Nat))
    BY <1>4, LabelsType DEF Question
  <2>3. QED
    BY <2>1, <2>2, NameInOne DEF Names
<1> DEFINE rest == NamesFrom(msg)[m][q.off + 4]
<1>6. NamesFrom(msg)[m + 1][2] = NameIn(q) \o rest /\ q.off + 4 \in Nat \ {0}
  BY <1>1, <1>2, <1>4, NamesNext
<1>7. rest \in Seq(Names)
  BY <1>2, <1>6, NamesType
<1> HIDE DEF rest, name
<1>8. Head(<<name>> \o rest) = name /\ <<name>> \o rest # <<>>
  BY <1>5, <1>7
<1>9. QED
  BY <1>1, <1>3, <1>5, <1>6, <1>8

\* The spoofed answer holds the query up to the end of its question, but for the header.
LEMMA AnswerCells ==
  ASSUME NEW msg \in Seq(Nat), NEW end \in 1 .. Len(msg)
  PROVE  LET answer == BuildAResponse(msg, end) IN
         /\ answer \in Seq(Nat) /\ Len(answer) = end + 16
         /\ answer[1] = 1 /\ \A i \in 2 .. end : answer[i] = msg[i]
<1> DEFINE question == SubSeq(msg, 2, end)
           front == <<1>> \o question
<1>1. Answer \in Seq(Nat) /\ Len(Answer) = 16
  BY DEF Answer
<1>2. /\ question \in Seq(Nat) /\ Len(question) = end - 1
      /\ \A i \in 1 .. end - 1 : question[i] = msg[i + 1]
  <2>1. \A i \in 2 .. end : msg[i] \in Nat
    OBVIOUS
  <2>2. /\ question \in Seq(Nat) /\ Len(question) = (IF 2 <= end THEN end - 2 + 1 ELSE 0)
        /\ \A i \in 1 .. end - 2 + 1 : question[i] = msg[2 + i - 1]
    BY <2>1, SubSeqProperties
  <2> HIDE DEF question
  <2>3. QED
    BY <2>2
<1> HIDE DEF question
<1>3. /\ front \in Seq(Nat) /\ Len(front) = end /\ front[1] = 1
      /\ \A i \in 2 .. end : front[i] = msg[i]
  <2>1. <<1>> \in Seq(Nat) /\ Len(<<1>>) = 1 /\ <<1>>[1] = 1
    OBVIOUS
  <2>2. /\ front \in Seq(Nat) /\ Len(front) = 1 + (end - 1)
        /\ \A i \in 1 .. 1 + (end - 1) : front[i] = IF i <= 1 THEN <<1>>[i] ELSE question[i - 1]
    BY <1>2, <2>1, ConcatProperties
  <2> HIDE DEF front
  <2>3. ASSUME NEW i \in 2 .. end
        PROVE  front[i] = msg[i]
    <3>1. i \in 1 .. 1 + (end - 1) /\ ~ (i <= 1) /\ i - 1 \in 1 .. end - 1 /\ (i - 1) + 1 = i
      OBVIOUS
    <3>2. QED
      BY <1>2, <2>2, <3>1
  <2>4. QED
    BY <2>1, <2>2, <2>3
<1> HIDE DEF front
<1>4. /\ front \o Answer \in Seq(Nat) /\ Len(front \o Answer) = end + 16
      /\ \A i \in 1 .. end : (front \o Answer)[i] = front[i]
  <2>1. /\ front \o Answer \in Seq(Nat) /\ Len(front \o Answer) = Len(front) + Len(Answer)
        /\ \A i \in 1 .. Len(front) + Len(Answer) : (front \o Answer)[i] =
             IF i <= Len(front) THEN front[i] ELSE Answer[i - Len(front)]
    BY <1>1, <1>3, ConcatProperties
  <2>2. \A i \in 1 .. end : i \in 1 .. end + 16 /\ i <= end
    OBVIOUS
  <2>3. QED
    BY <1>1, <1>3, <2>1, <2>2
<1>5. BuildAResponse(msg, end) = front \o Answer
  BY DEF BuildAResponse, front, question
<1>6. QED
  BY <1>3, <1>4, <1>5

\* A client finds its question in the answer, and nothing else.
LEMMA AnswerReadAlike ==
  ASSUME NEW msg \in Seq(Nat), ParseQuestion(msg) # None
  PROVE  LET answer == BuildAResponse(msg, ParseQuestion(msg).end) IN
         /\ ParseQuestion(answer) = ParseQuestion(msg)
         /\ ParseQuestion(msg).name # <<>> => DnsNames(answer) = <<ParseQuestion(msg).name>>
<1> DEFINE q == Labels(msg)[2]
           parsed == ParseQuestion(msg)
           answer == BuildAResponse(msg, parsed.end)
<1>1. /\ q.labels \in Seq(Seq(Nat))
      /\ q.end = "root" /\ q.off \in Nat /\ q.off >= 3 /\ q.off + 3 <= Len(msg)
      /\ parsed = [name |-> Name(q.labels), type |-> SubSeq(msg, q.off, q.off + 1), end |-> q.off + 3]
  BY ParseQuestionCases
<1> HIDE DEF q
<1>0. PICK e \in Nat : e = q.off /\ e >= 3 /\ e + 3 \in 1 .. Len(msg)
  <2>1. Len(msg) \in Nat /\ q.off \in Nat /\ q.off >= 3 /\ q.off + 3 <= Len(msg)
    BY <1>1
  <2>2. QED
    BY <2>1
<1>2. parsed.end = e + 3 /\ parsed.name = Name(q.labels)
  BY <1>0, <1>1
<1> HIDE DEF parsed
<1>3. /\ answer \in Seq(Nat) /\ Len(answer) = e + 3 + 16
      /\ answer[1] = 1 /\ \A i \in 2 .. e + 3 : answer[i] = msg[i]
  BY <1>0, <1>2, AnswerCells, ZenonT(40)
<1> HIDE DEF answer
<1>4. Labels(answer)[2] = q
  <2>1. 2 \in Nat \ {0} /\ e - 1 <= Len(answer) /\ \A i \in 2 .. e - 1 : answer[i] = msg[i]
    BY <1>0, <1>3, SMTT(30)
  <2>2. q.off - 1 <= Len(answer) /\ (\A i \in 2 .. q.off - 1 : answer[i] = msg[i]) /\ q.end = "root"
    BY <1>0, <1>1, <2>1
  <2>3. QED
    BY <1>3, <2>1, <2>2, LabelsLocal DEF q
<1>5. SubSeq(answer, e, e + 1) = SubSeq(msg, e, e + 1)
  <2>1. /\ e \in Nat \ {0} /\ e + 1 \in Nat /\ e + 1 <= Len(answer) /\ e + 1 <= Len(msg)
        /\ \A i \in e .. e + 1 : answer[i] = msg[i]
    <3>1. Len(msg) \in Nat
      OBVIOUS
    <3>2. e + 1 <= Len(msg) /\ e + 1 <= Len(answer)
      BY <1>0, <1>3, <3>1, SMTT(30)
    <3>3. \A i \in e .. e + 1 : i \in 2 .. e + 3
      BY <1>0
    <3>4. QED
      <4>1. (e \in Nat \ {0}) /\ e + 1 \in Nat
        BY <1>0
      <4>2. QED
        BY <1>3, <3>2, <3>3, <4>1
  <2>2. QED
    BY <1>3, <2>1, SubSeqSame
<1>6. answer # <<>> /\ ~ (answer[1] < 1) /\ answer[1] \in 1 .. 32 /\ ~ (e + 3 > Len(answer))
  BY <1>0, <1>3
<1>7. ParseQuestion(answer) = parsed
  BY <1>0, <1>1, <1>4, <1>5, <1>6 DEF ParseQuestion
<1>8. ASSUME parsed.name # <<>>
      PROVE  DnsNames(answer) = <<parsed.name>>
  <2>1. NameIn(q) = <<parsed.name>> /\ parsed.name \in Names
    BY <1>1, <1>2, <1>8, NameInOne DEF Names
  <2>2. DnsNames(answer) = NamesFrom(answer)[1][2]
    BY <1>3, <1>6 DEF DnsNames
  <2>3. 0 + 1 = 1 /\ 0 \in Nat /\ 0 + 1 <= 32 /\ 2 \in Nat \ {0} /\ 0 \in 0 .. 32
    OBVIOUS
  <2>4. /\ NamesFrom(answer)[0 + 1][2] = NameIn(q) \o NamesFrom(answer)[0][q.off + 4]
        /\ q.off + 4 \in Nat \ {0}
    <3>1. Labels(answer)[2].end # "cut"
      BY <1>1, <1>4
    <3>2. /\ NamesFrom(answer)[0 + 1][2] =
               NameIn(Labels(answer)[2]) \o NamesFrom(answer)[0][Labels(answer)[2].off + 4]
          /\ Labels(answer)[2].off + 4 \in Nat \ {0}
      BY <1>3, <2>3, <3>1, NamesNext, ZenonT(40)
    <3>3. QED
      BY <1>4, <3>2
  <2>5. NamesFrom(answer)[0][q.off + 4] = <<>>
    BY <1>3, <2>3, <2>4, NamesCases
  <2>6. <<parsed.name>> \o <<>> = <<parsed.name>>
    BY <2>1
  <2>7. QED
    BY <2>1, <2>2, <2>3, <2>4, <2>5, <2>6
<1>9. QED
  BY <1>7, <1>8 DEF answer, parsed

-----------------------------------------------------------------------------
(***************************************************************************)
(* tls_sni.                                                                *)
(***************************************************************************)

\* One turn of the loop over the extensions; from has what follows.
ExtensionsStep(p, end, from, off) ==
  IF off + 1 > end \/ off + 1 + p[off + 1] > end THEN None
  ELSE IF p[off] = ServerName THEN HostName(SubSeq(p, off + 2, off + 1 + p[off + 1]))
  ELSE from[off + 2 + p[off + 1]]

\* The recursion of Extensions has a solution.
LEMMA ExtensionsEquation ==
  ASSUME NEW p \in Seq(Nat), NEW end \in 0 .. Len(p)
  PROVE  Extensions(p, end) = [off \in Nat \ {0} |-> ExtensionsStep(p, end, Extensions(p, end), off)]
<1> DEFINE Step(f, off) == ExtensionsStep(p, end, f, off)
           Solved(f, k) == \A off \in Nat \ {0} : off + k > end => f[off] = Step(f, off)
           S == {k \in Nat : \E f : f = [off \in Nat \ {0} |-> f[off]] /\ Solved(f, k)}
<1>1. 0 \in S
  <2> DEFINE f == [off \in Nat \ {0} |-> None]
  <2>1. Solved(f, 0) /\ f = [off \in Nat \ {0} |-> f[off]]
    BY DEF ExtensionsStep
  <2>2. QED
    BY <2>1
<1>2. ASSUME NEW k \in Nat, k \in S
      PROVE  k + 1 \in S
  <2>1. PICK f : f = [off \in Nat \ {0} |-> f[off]] /\ Solved(f, k)
    BY <1>2
  <2> DEFINE g == [off \in Nat \ {0} |-> IF off + k > end THEN f[off] ELSE Step(f, off)]
  <2>2. ASSUME NEW off \in Nat \ {0}, off + (k + 1) > end
        PROVE  g[off] = Step(g, off)
    <3>1. CASE off + 1 > end
      BY <2>1, <3>1 DEF ExtensionsStep
    <3>2. CASE ~ (off + 1 > end)
      <4>1. g[off] = Step(f, off)
        BY <2>1
      <4>2. p[off + 1] \in Nat
        BY <3>2
      <4>3. f[off + 2 + p[off + 1]] = g[off + 2 + p[off + 1]]
        <5>1. off + 2 + p[off + 1] \in Nat \ {0} /\ off + 2 + p[off + 1] + k > end
          BY <4>2, <2>2
        <5>2. QED
          BY <5>1
      <4>4. Step(g, off) = Step(f, off)
        <5> HIDE DEF g
        <5>1. QED
          BY <4>3, <3>2 DEF ExtensionsStep
      <4>5. QED
        BY <4>1, <4>4
    <3>3. QED
      BY <3>1, <3>2
  <2>3. g = [off \in Nat \ {0} |-> g[off]]
    OBVIOUS
  <2> HIDE DEF g, Step
  <2>4. QED
    BY <2>2, <2>3
<1>3. PICK f : f = [off \in Nat \ {0} |-> f[off]] /\ Solved(f, end + 1)
  <2> HIDE DEF S
  <2>1. end + 1 \in S
    <3>1. end + 1 \in Nat
      OBVIOUS
    <3>2. QED
      BY <1>1, <1>2, <3>1, Induction
  <2>2. QED
    BY <2>1 DEF S
<1>4. f = [off \in Nat \ {0} |-> Step(f, off)]
  BY <1>3
<1>5. QED
  BY <1>4 DEF Extensions, ExtensionsStep

\* One turn of the loop over the extensions.
LEMMA ExtensionsAt ==
  ASSUME NEW p \in Seq(Nat), NEW end \in 0 .. Len(p), NEW off \in Nat \ {0}
  PROVE  Extensions(p, end)[off] = ExtensionsStep(p, end, Extensions(p, end), off)
  BY ExtensionsEquation

\* The same, by what stands at off.
LEMMA ExtensionsCases ==
  ASSUME NEW p \in Seq(Nat), NEW end \in 0 .. Len(p), NEW off \in Nat \ {0}
  PROVE  /\ off + 1 > end => Extensions(p, end)[off] = None
         /\ ~ (off + 1 > end) =>
              /\ p[off] \in Nat /\ p[off + 1] \in Nat
              /\ off + 1 + p[off + 1] > end => Extensions(p, end)[off] = None
              /\ ~ (off + 1 + p[off + 1] > end) =>
                   Extensions(p, end)[off] =
                     IF p[off] = ServerName THEN HostName(SubSeq(p, off + 2, off + 1 + p[off + 1]))
                     ELSE Extensions(p, end)[off + 2 + p[off + 1]]
<1>1. ASSUME ~ (off + 1 > end)
      PROVE  p[off] \in Nat /\ p[off + 1] \in Nat
  BY <1>1
<1>2. QED
  BY <1>1, ExtensionsAt DEF ExtensionsStep

\* In the first cells of a segment the extensions read as in all of it, or name nothing.
LEMMA ExtensionsCutOff ==
  ASSUME NEW p \in Seq(Nat), NEW n \in 0 .. Len(p), NEW e \in 0 .. n, NEW end \in 0 .. Len(p),
         e <= end, NEW off \in Nat \ {0}
  PROVE  Extensions(SubSeq(p, 1, n), e)[off] \in {None, Extensions(p, end)[off]}
<1> DEFINE front == SubSeq(p, 1, n)
           S == {o \in Nat \ {0} : Extensions(front, e)[o] \in {None, Extensions(p, end)[o]}}
<1>1. front \in Seq(Nat) /\ Len(front) = n /\ \A i \in 1 .. n : front[i] = p[i]
  OBVIOUS
<1> HIDE DEF front
<1>2. e \in 0 .. Len(front) /\ e \in Nat /\ n \in Nat /\ e <= n /\ end \in Nat
  BY <1>1
<1>3. ASSUME NEW o \in Nat \ {0}, o + 1 > e
      PROVE  o \in S
  BY <1>1, <1>2, <1>3, ExtensionsCases
<1>4. ASSUME NEW o \in Nat \ {0}, o > e
      PROVE  o \in S
  BY <1>2, <1>3, <1>4
<1>5. ASSUME NEW o \in 1 .. e, \A later \in Nat : later > o => later \in S
      PROVE  o \in S
  <2>1. o \in Nat \ {0}
    OBVIOUS
  <2>2. CASE o + 1 > e
    BY <1>3, <2>1, <2>2
  <2>3. CASE ~ (o + 1 > e)
    <3> DEFINE len == p[o + 1]
    <3>1. /\ front[o] = p[o] /\ front[o + 1] = len /\ len \in Nat
          /\ ~ (o + 1 > end) /\ o + 1 <= n
      BY <1>1, <1>2, <2>1, <2>3
    <3>2. CASE o + 1 + len > e
      <4>1. Extensions(front, e)[o] = None
        BY <1>1, <1>2, <2>1, <2>3, <3>1, <3>2, ExtensionsCases
      <4>2. QED
        BY <2>1, <4>1
    <3>3. CASE ~ (o + 1 + len > e)
      <4>1. ~ (o + 1 + len > end)
        BY <1>2, <2>1, <3>1, <3>3
      <4>2. SubSeq(front, o + 2, o + 1 + len) = SubSeq(p, o + 2, o + 1 + len)
        <5> HIDE DEF len
        <5>1. /\ o + 2 \in Nat \ {0} /\ o + 1 + len \in Nat /\ o + 1 + len <= Len(front)
              /\ o + 1 + len <= Len(p) /\ o + 1 + len <= n
          <6>1. Len(p) \in Nat /\ n <= Len(p)
            OBVIOUS
          <6>2. QED
            BY <1>1, <1>2, <2>1, <3>1, <3>3, <6>1
        <5>3. \A i \in o + 2 .. o + 1 + len : front[i] = p[i]
          BY <1>1, <1>2, <2>1, <5>1
        <5>2. QED
          BY <1>1, <5>1, <5>3, SubSeqSame
      <4>3. o + 2 + len \in S
        BY <1>5, <2>1, <3>1, SMTT(30)
      <4>4. Extensions(front, e)[o] =
              IF p[o] = ServerName THEN HostName(SubSeq(p, o + 2, o + 1 + len))
              ELSE Extensions(front, e)[o + 2 + len]
        <5>1. ~ (o + 1 + front[o + 1] > e)
          BY <3>1, <3>3
        <5>2. Extensions(front, e)[o] =
                IF front[o] = ServerName THEN HostName(SubSeq(front, o + 2, o + 1 + front[o + 1]))
                ELSE Extensions(front, e)[o + 2 + front[o + 1]]
          BY <1>1, <1>2, <2>1, <2>3, <5>1, ExtensionsCases
        <5>3. QED
          BY <3>1, <4>2, <5>2
      <4>5. Extensions(p, end)[o] =
              IF p[o] = ServerName THEN HostName(SubSeq(p, o + 2, o + 1 + len))
              ELSE Extensions(p, end)[o + 2 + len]
        BY <2>1, <3>1, <4>1, ExtensionsCases
      <4>6. QED
        BY <2>1, <4>3, <4>4, <4>5
    <3>4. QED
      BY <3>2, <3>3
  <2>4. QED
    BY <2>2, <2>3
<1>6. off \in S
  <2> HIDE DEF S
  <2>1. QED
    BY <1>2, <1>4, <1>5, BackwardInduction
<1>7. Extensions(front, e)[off] \in {None, Extensions(p, end)[off]}
  BY <1>6
<1>8. QED
  BY <1>7 DEF front

\* tls_sni of the first cells finds the name, or none.
LEMMA TlsSniCutOff ==
  ASSUME NEW p \in Seq(Nat), NEW n \in 0 .. Len(p)
  PROVE  TlsSni(SubSeq(p, 1, n)) \in {None, TlsSni(p)}
<1> DEFINE front == SubSeq(p, 1, n)
<1>1. /\ front \in Seq(Nat) /\ Len(front) = n /\ \A i \in 1 .. n : front[i] = p[i]
      /\ n \in Nat /\ Len(p) \in Nat /\ n <= Len(p)
      /\ \A i \in Nat \ {0} : i <= n => front[i] = p[i] /\ p[i] \in Nat
  OBVIOUS
<1>0. ASSUME NEW i \in Nat, i >= 1, i <= n
      PROVE  i \in Nat \ {0} /\ front[i] = p[i] /\ p[i] \in Nat
  BY <1>0, <1>1
<1> HIDE DEF front
<1> DEFINE ciphers(s) == 3 + 1 + s[3]
           compression(s) == ciphers(s) + 1 + s[ciphers(s)]
           total_(s) == compression(s) + 1 + s[compression(s)]
           whole(s) == total_(s) + s[total_(s)]
           end(s) == IF whole(s) < Len(s) THEN whole(s) ELSE Len(s)
           Complete(s) == /\ 2 <= Len(s) /\ s[1] = Handshake /\ s[2] = ClientHello
                          /\ 3 <= Len(s) /\ ciphers(s) <= Len(s) /\ compression(s) <= Len(s)
                          /\ total_(s) <= Len(s)
<1>2. \A s : TlsSni(s) = IF Complete(s) THEN Extensions(s, end(s))[total_(s) + 1] ELSE None
  BY DEF TlsSni
<1>3. CASE ~ Complete(front)
  BY <1>2, <1>3 DEF front
<1>4. CASE Complete(front)
  <2>1. /\ front[1] = Handshake /\ front[2] = ClientHello /\ 2 <= n /\ 3 <= n /\ ciphers(front) <= n
        /\ compression(front) <= n /\ total_(front) <= n
    BY <1>1, <1>4
  <2> HIDE DEF compression, total_
  <2>2. front[1] = p[1] /\ front[2] = p[2] /\ front[3] = p[3] /\ p[3] \in Nat
    <3>1. 1 \in Nat /\ 2 \in Nat /\ 3 \in Nat /\ 1 >= 1 /\ 2 >= 1 /\ 3 >= 1 /\ 1 <= n
      BY <1>1, <2>1
    <3>2. QED
      BY <1>0, <2>1, <3>1
  <2>3. /\ ciphers(front) = ciphers(p) /\ ciphers(p) \in Nat /\ ciphers(p) >= 1
    BY <2>2
  <2> HIDE DEF ciphers
  <2>4. front[ciphers(p)] = p[ciphers(p)] /\ p[ciphers(p)] \in Nat
    BY <1>0, <2>1, <2>3
  <2>5. compression(front) = compression(p) /\ compression(p) \in Nat /\ compression(p) >= 1
    BY <2>3, <2>4 DEF compression
  <2>6. front[compression(p)] = p[compression(p)] /\ p[compression(p)] \in Nat
    BY <1>0, <2>1, <2>5
  <2>7. total_(front) = total_(p) /\ total_(p) \in Nat /\ total_(p) >= 1
    BY <2>5, <2>6 DEF total_
  <2>8. front[total_(p)] = p[total_(p)] /\ p[total_(p)] \in Nat
    BY <1>0, <2>1, <2>7
  <2>9. Complete(p)
    <3>1. /\ 2 <= Len(p) /\ 3 <= Len(p) /\ ciphers(p) <= Len(p) /\ compression(p) <= Len(p)
          /\ total_(p) <= Len(p)
      BY <1>1, <2>1, <2>3, <2>5, <2>7
    <3>2. QED
      BY <2>1, <2>2, <3>1
  <2> HIDE DEF Complete
  <2>10. /\ whole(p) = whole(front) /\ whole(p) \in Nat
         /\ total_(p) + 1 \in Nat \ {0} /\ total_(p) + 1 = total_(front) + 1
    BY <2>7, <2>8
  <2> HIDE DEF whole
  <2>11. end(front) \in 0 .. n /\ end(p) \in 0 .. Len(p) /\ end(front) <= end(p)
    BY <1>1, <2>10
  <2> HIDE DEF end
  <2>12. Extensions(front, end(front))[total_(p) + 1] \in {None, Extensions(p, end(p))[total_(p) + 1]}
    BY <2>10, <2>11, ExtensionsCutOff DEF front
  <2>13. TlsSni(front) \in {None, TlsSni(p)}
    BY <1>2, <1>4, <2>9, <2>10, <2>12
  <2>14. QED
    BY <2>13 DEF front
<1>5. QED
  BY <1>3, <1>4

-----------------------------------------------------------------------------
(***************************************************************************)
(* What FlattenSeq joins.                                                  *)
(***************************************************************************)

\* FlattenSeq adds one sequence after the other to what it has.
LEMMA FlattenIs ==
  ASSUME NEW seqs \in Seq(Seq(Nat)), Len(seqs) # 0
  PROVE  \E f : /\ f = [i \in 1 .. Len(seqs) |-> IF i = 1 THEN seqs[i] ELSE f[i - 1] \o seqs[i]]
                /\ FlattenSeq(seqs) = f[Len(seqs)]
<1> DEFINE D == 1 .. Len(seqs)
           Step(f, i) == IF i = 1 THEN seqs[i] ELSE f[i - 1] \o seqs[i]
           Solved(f, n) == \A i \in D : i < n => f[i] = Step(f, i)
           S == {n \in Nat : \E f : f = [i \in D |-> f[i]] /\ Solved(f, n)}
<1>0. /\ Len(seqs) + 1 \in Nat /\ Len(seqs) \in D
      /\ \A i \in D : i \in Nat /\ i > 0 /\ i < Len(seqs) + 1 /\ (i # 1 => i - 1 \in D /\ i - 1 < i)
  <2>1. Len(seqs) \in Nat
    OBVIOUS
  <2>2. QED
    BY <2>1
<1> HIDE DEF D
<1>1. 0 \in S
  <2> DEFINE f == [i \in D |-> 0]
  <2>1. f = [i \in D |-> f[i]]
    OBVIOUS
  <2>2. Solved(f, 0)
    <3>1. \A i \in D : ~ (i < 0)
      BY DEF D
    <3>2. QED
      BY <3>1
  <2> HIDE DEF f, Solved
  <2>3. QED
    BY <2>1, <2>2
<1>2. ASSUME NEW n \in Nat, n \in S
      PROVE  n + 1 \in S
  <2>1. PICK f : f = [i \in D |-> f[i]] /\ Solved(f, n)
    BY <1>2
  <2> DEFINE g == [i \in D |-> IF i < n THEN f[i] ELSE Step(f, i)]
  <2>2. ASSUME NEW i \in D, i < n + 1
        PROVE  g[i] = Step(g, i)
    <3>1. g[i] = Step(f, i)
      BY <2>1
    <3>2. i # 1 => g[i - 1] = f[i - 1]
      BY <1>0, <2>2
    <3> HIDE DEF g
    <3>3. QED
      BY <3>1, <3>2
  <2>3. g = [i \in D |-> g[i]]
    OBVIOUS
  <2> HIDE DEF g
  <2>4. Solved(g, n + 1)
    BY <2>2
  <2> HIDE DEF Solved
  <2>5. QED
    BY <2>3, <2>4
<1>3. Len(seqs) + 1 \in S
  <2> HIDE DEF S
  <2>1. QED
    BY <1>0, <1>1, <1>2, Induction
<1>4. PICK f : f = [i \in D |-> f[i]] /\ Solved(f, Len(seqs) + 1)
  BY <1>3
<1>5. f = [i \in D |-> Step(f, i)]
  BY <1>0, <1>4
<1>6. FlattenSeq(seqs) = (CHOOSE g : g = [i \in D |-> Step(g, i)])[Len(seqs)]
  BY DEF FlattenSeq, D
<1>7. QED
  BY <1>5, <1>6 DEF D

\* The first sequences, joined.
Flat(seqs, m) == FlattenSeq(SubSeq(seqs, 1, m))

\* Nothing joined is nothing.
LEMMA FlattenEmpty == FlattenSeq(<<>>) = <<>>
  BY DEF FlattenSeq

\* One more sequence is appended.
LEMMA FlatNext ==
  ASSUME NEW seqs \in Seq(Seq(Nat)), NEW m \in Nat, m + 1 <= Len(seqs)
  PROVE  Flat(seqs, m + 1) = Flat(seqs, m) \o seqs[m + 1]
<1> DEFINE s == SubSeq(seqs, 1, m + 1)
           t == SubSeq(seqs, 1, m)
<1>0. seqs[m + 1] \in Seq(Nat)
  OBVIOUS
<1>1. /\ s \in Seq(Seq(Nat)) /\ Len(s) = m + 1 /\ \A i \in 1 .. m + 1 : s[i] = seqs[i]
      /\ t \in Seq(Seq(Nat)) /\ Len(t) = m /\ \A i \in 1 .. m : t[i] = seqs[i]
  OBVIOUS
<1>2. m = 0 => t = <<>>
  BY <1>1
<1> HIDE DEF s, t
<1>3. PICK f : /\ f = [i \in 1 .. m + 1 |-> IF i = 1 THEN s[i] ELSE f[i - 1] \o s[i]]
               /\ FlattenSeq(s) = f[m + 1]
  <2>1. Len(s) # 0 /\ Len(s) = m + 1
    BY <1>1
  <2>2. \E f : /\ f = [i \in 1 .. Len(s) |-> IF i = 1 THEN s[i] ELSE f[i - 1] \o s[i]]
               /\ FlattenSeq(s) = f[Len(s)]
    BY <1>1, <2>1, FlattenIs
  <2>3. QED
    BY <2>1, <2>2
<1>7. \A i \in 1 .. m + 1 : f[i] = IF i = 1 THEN s[i] ELSE f[i - 1] \o s[i]
  BY <1>3
<1>8. 1 \in 1 .. m + 1 /\ m + 1 \in 1 .. m + 1 /\ (m + 1) - 1 = m
  OBVIOUS
<1>4. CASE m = 0
  <2>1. FlattenSeq(s) = seqs[1] /\ FlattenSeq(t) = <<>>
    BY <1>1, <1>2, <1>3, <1>4, <1>7, <1>8, FlattenEmpty
  <2>2. <<>> \o seqs[1] = seqs[1]
    BY <1>0, <1>4, ConcatEmptySeq
  <2>3. FlattenSeq(s) = FlattenSeq(t) \o seqs[m + 1]
    BY <1>4, <2>1, <2>2
  <2>4. QED
    BY <2>3 DEF Flat, s, t
<1>5. CASE m # 0
  <2>1. PICK g : /\ g = [i \in 1 .. m |-> IF i = 1 THEN t[i] ELSE g[i - 1] \o t[i]]
                 /\ FlattenSeq(t) = g[m]
    BY <1>1, <1>5, FlattenIs
  <2> DEFINE S == {n \in Nat : n + 1 <= m => f[n + 1] = g[n + 1]}
  <2>2. 0 \in S
    <3>1. 1 \in 1 .. m /\ 0 + 1 = 1
      BY <1>5
    <3>2. f[1] = s[1] /\ g[1] = t[1] /\ s[1] = t[1]
      BY <1>1, <1>7, <1>8, <2>1, <3>1
    <3>3. QED
      BY <3>1, <3>2
  <2>3. ASSUME NEW n \in Nat, n \in S
        PROVE  n + 1 \in S
    <3> SUFFICES ASSUME (n + 1) + 1 <= m
        PROVE  f[(n + 1) + 1] = g[(n + 1) + 1]
      OBVIOUS
    <3>1. f[n + 1] = g[n + 1]
      BY <2>3
    <3> DEFINE i == (n + 1) + 1
    <3>2. i \in 1 .. m /\ i \in 1 .. m + 1 /\ i # 1 /\ i - 1 = n + 1
      OBVIOUS
    <3> HIDE DEF i
    <3>3. f[i] = f[i - 1] \o s[i] /\ g[i] = g[i - 1] \o t[i] /\ s[i] = t[i]
      BY <1>1, <1>3, <2>1, <3>2
    <3>4. QED
      BY <3>1, <3>2, <3>3 DEF i
  <2>4. f[m] = g[m]
    <3> HIDE DEF S
    <3>1. m - 1 \in Nat /\ (m - 1) + 1 = m
      BY <1>5
    <3>2. m - 1 \in S
      BY <2>2, <2>3, <3>1, Induction
    <3>3. QED
      BY <3>1, <3>2 DEF S
  <2>5. f[m + 1] = f[m] \o s[m + 1]
    <3>1. m + 1 # 1
      BY <1>5
    <3>2. QED
      BY <1>7, <1>8, <3>1
  <2>6. QED
    <3>1. FlattenSeq(s) = FlattenSeq(t) \o seqs[m + 1]
      BY <1>1, <1>3, <1>8, <2>1, <2>4, <2>5
    <3>2. QED
      BY <3>1 DEF Flat, s, t
<1>6. QED
  BY <1>4, <1>5

\* What is joined is a sequence of numbers.
LEMMA FlatType ==
  ASSUME NEW seqs \in Seq(Seq(Nat)), NEW m \in Nat, m <= Len(seqs)
  PROVE  Flat(seqs, m) \in Seq(Nat)
<1> DEFINE S == {n \in Nat : n <= Len(seqs) => Flat(seqs, n) \in Seq(Nat)}
<1>1. 0 \in S
  <2>1. SubSeq(seqs, 1, 0) = <<>> /\ <<>> \in Seq(Nat)
    OBVIOUS
  <2>2. QED
    BY <2>1, FlattenEmpty DEF Flat
<1>2. ASSUME NEW n \in Nat, n \in S
      PROVE  n + 1 \in S
  <2> SUFFICES ASSUME n + 1 <= Len(seqs)
      PROVE  Flat(seqs, n + 1) \in Seq(Nat)
    OBVIOUS
  <2> DEFINE s == Flat(seqs, n)
             t == seqs[n + 1]
  <2>1. t \in Seq(Nat) /\ s \in Seq(Nat)
    BY <1>2
  <2>2. Flat(seqs, n + 1) = s \o t
    BY FlatNext
  <2> HIDE DEF s, t
  <2>3. QED
    BY <2>1, <2>2, ConcatProperties
<1>3. m \in S
  <2> HIDE DEF S
  <2>1. QED
    BY <1>1, <1>2, Induction
<1>4. QED
  BY <1>3

\* Where the next sequence begins, and what its cells are.
LEMMA FlatCells ==
  ASSUME NEW seqs \in Seq(Seq(Nat)), NEW m \in Nat, m + 1 <= Len(seqs)
  PROVE  /\ Len(Flat(seqs, m)) \in Nat
         /\ Len(Flat(seqs, m + 1)) = Len(Flat(seqs, m)) + Len(seqs[m + 1])
         /\ \A i \in 1 .. Len(Flat(seqs, m)) : Flat(seqs, m + 1)[i] = Flat(seqs, m)[i]
         /\ \A i \in 1 .. Len(seqs[m + 1]) :
              Flat(seqs, m + 1)[Len(Flat(seqs, m)) + i] = seqs[m + 1][i]
<1> DEFINE s == Flat(seqs, m)
           t == seqs[m + 1]
<1>1. s \in Seq(Nat) /\ t \in Seq(Nat) /\ Flat(seqs, m + 1) = s \o t
  BY FlatType, FlatNext
<1> HIDE DEF s, t
<1>2. /\ Len(s) \in Nat /\ Len(t) \in Nat /\ Len(s \o t) = Len(s) + Len(t)
      /\ \A i \in 1 .. Len(s) + Len(t) : (s \o t)[i] = IF i <= Len(s) THEN s[i] ELSE t[i - Len(s)]
  BY <1>1, ConcatProperties
<1>3. \A i \in 1 .. Len(s) : (s \o t)[i] = s[i]
  BY <1>2
<1>4. ASSUME NEW i \in 1 .. Len(t)
      PROVE  (s \o t)[Len(s) + i] = t[i]
  <2>1. Len(s) + i \in 1 .. Len(s) + Len(t) /\ ~ (Len(s) + i <= Len(s)) /\ (Len(s) + i) - Len(s) = i
    BY <1>2
  <2>2. QED
    BY <1>2, <2>1
<1>5. QED
  BY <1>1, <1>2, <1>3, <1>4 DEF s, t

\* What was joined first comes first.
LEMMA FlatPrefix ==
  ASSUME NEW seqs \in Seq(Seq(Nat)), NEW k \in Nat, NEW d \in Nat, k + d <= Len(seqs)
  PROVE  /\ Len(Flat(seqs, k)) \in Nat /\ Len(Flat(seqs, k)) <= Len(Flat(seqs, k + d))
         /\ \A i \in 1 .. Len(Flat(seqs, k)) : Flat(seqs, k + d)[i] = Flat(seqs, k)[i]
<1> DEFINE Within(n) == /\ Len(Flat(seqs, k)) <= Len(Flat(seqs, k + n))
                        /\ \A i \in 1 .. Len(Flat(seqs, k)) : Flat(seqs, k + n)[i] = Flat(seqs, k)[i]
           S == {n \in Nat : k + n <= Len(seqs) => Within(n)}
<1>0. Len(Flat(seqs, k)) \in Nat
  <2>1. Flat(seqs, k) \in Seq(Nat)
    BY FlatType
  <2>2. QED
    BY <2>1
<1>1. 0 \in S
  BY <1>0
<1>2. ASSUME NEW n \in Nat, n \in S
      PROVE  n + 1 \in S
  <2> SUFFICES ASSUME k + (n + 1) <= Len(seqs)
      PROVE  Within(n + 1)
    OBVIOUS
  <2> DEFINE j == k + n
  <2>1. j \in Nat /\ j + 1 <= Len(seqs) /\ k + (n + 1) = j + 1
    OBVIOUS
  <2>2. Within(n)
    BY <1>2, <2>1
  <2>3. /\ Len(Flat(seqs, j)) \in Nat
        /\ Len(Flat(seqs, j + 1)) = Len(Flat(seqs, j)) + Len(seqs[j + 1])
        /\ \A i \in 1 .. Len(Flat(seqs, j)) : Flat(seqs, j + 1)[i] = Flat(seqs, j)[i]
    BY <2>1, FlatCells
  <2>4. Len(seqs[j + 1]) \in Nat
    <3>1. seqs[j + 1] \in Seq(Nat)
      BY <2>1
    <3>2. QED
      BY <3>1
  <2> HIDE DEF j
  <2>5. /\ Len(Flat(seqs, k)) <= Len(Flat(seqs, j))
        /\ \A i \in 1 .. Len(Flat(seqs, k)) : Flat(seqs, j)[i] = Flat(seqs, k)[i]
    BY <2>2 DEF j
  <2>6. /\ Len(Flat(seqs, k)) <= Len(Flat(seqs, j + 1))
        /\ \A i \in 1 .. Len(Flat(seqs, k)) : Flat(seqs, j + 1)[i] = Flat(seqs, k)[i]
    BY <1>0, <2>3, <2>4, <2>5
  <2>7. QED
    BY <2>1, <2>6
<1>3. d \in S
  <2> HIDE DEF S
  <2>1. QED
    BY <1>1, <1>2, Induction
<1>4. QED
  BY <1>0, <1>3

\* The cells of the sequences in what they are joined to.
LEMMA FlattenCells ==
  ASSUME NEW seqs \in Seq(Seq(Nat))
  PROVE  /\ FlattenSeq(seqs) \in Seq(Nat)
         /\ FlattenSeq(seqs) = Flat(seqs, Len(seqs))
         /\ Flat(seqs, 0) = <<>>
         /\ \A m \in Nat : m <= Len(seqs) =>
              Len(Flat(seqs, m)) \in Nat /\ Len(Flat(seqs, m)) <= Len(FlattenSeq(seqs))
         /\ \A m \in Nat : m + 1 <= Len(seqs) =>
              /\ Len(Flat(seqs, m + 1)) = Len(Flat(seqs, m)) + Len(seqs[m + 1])
              /\ \A i \in 1 .. Len(seqs[m + 1]) :
                   FlattenSeq(seqs)[Len(Flat(seqs, m)) + i] = seqs[m + 1][i]
<1> DEFINE n == Len(seqs)
<1>1. n \in Nat /\ SubSeq(seqs, 1, n) = seqs /\ SubSeq(seqs, 1, 0) = <<>>
  OBVIOUS
<1>2. FlattenSeq(seqs) = Flat(seqs, n) /\ Flat(seqs, 0) = <<>>
  BY <1>1, FlattenEmpty DEF Flat
<1>3. FlattenSeq(seqs) \in Seq(Nat)
  BY <1>1, <1>2, FlatType
<1> HIDE DEF n
<1>4. ASSUME NEW m \in Nat, m <= n
      PROVE  /\ Len(Flat(seqs, m)) \in Nat /\ Len(Flat(seqs, m)) <= Len(FlattenSeq(seqs))
             /\ \A i \in 1 .. Len(Flat(seqs, m)) : FlattenSeq(seqs)[i] = Flat(seqs, m)[i]
  <2>1. PICK d \in Nat : m + d = n
    <3>1. n - m \in Nat /\ m + (n - m) = n
      BY <1>1, <1>4
    <3>2. QED
      BY <3>1
  <2>2. m + d <= Len(seqs) /\ FlattenSeq(seqs) = Flat(seqs, m + d)
    BY <1>1, <1>2, <2>1 DEF n
  <2>3. /\ Len(Flat(seqs, m)) \in Nat /\ Len(Flat(seqs, m)) <= Len(Flat(seqs, m + d))
        /\ \A i \in 1 .. Len(Flat(seqs, m)) : Flat(seqs, m + d)[i] = Flat(seqs, m)[i]
    BY <2>2, FlatPrefix
  <2>4. QED
    BY <2>2, <2>3
<1>5. ASSUME NEW m \in Nat, m + 1 <= n
      PROVE  /\ Len(Flat(seqs, m + 1)) = Len(Flat(seqs, m)) + Len(seqs[m + 1])
             /\ \A i \in 1 .. Len(seqs[m + 1]) :
                  FlattenSeq(seqs)[Len(Flat(seqs, m)) + i] = seqs[m + 1][i]
  <2>1. /\ Len(Flat(seqs, m)) \in Nat
        /\ Len(Flat(seqs, m + 1)) = Len(Flat(seqs, m)) + Len(seqs[m + 1])
        /\ \A i \in 1 .. Len(seqs[m + 1]) :
             Flat(seqs, m + 1)[Len(Flat(seqs, m)) + i] = seqs[m + 1][i]
    BY <1>5, FlatCells DEF n
  <2>2. \A i \in 1 .. Len(Flat(seqs, m + 1)) : FlattenSeq(seqs)[i] = Flat(seqs, m + 1)[i]
    BY <1>4, <1>5
  <2>3. Len(seqs[m + 1]) \in Nat
    <3>1. seqs[m + 1] \in Seq(Nat)
      BY <1>5 DEF n
    <3>2. QED
      BY <3>1
  <2>4. ASSUME NEW i \in 1 .. Len(seqs[m + 1])
        PROVE  FlattenSeq(seqs)[Len(Flat(seqs, m)) + i] = seqs[m + 1][i]
    <3>1. Len(Flat(seqs, m)) + i \in 1 .. Len(Flat(seqs, m + 1))
      BY <2>1, <2>3
    <3>2. Flat(seqs, m + 1)[Len(Flat(seqs, m)) + i] = seqs[m + 1][i]
      BY <2>1
    <3>3. QED
      BY <2>2, <3>1, <3>2
  <2>5. QED
    BY <2>1, <2>4
<1>6. QED
  BY <1>2, <1>3, <1>4, <1>5 DEF n

-----------------------------------------------------------------------------
(***************************************************************************)
(* The encoding of a name, and that the labels are read from it.           *)
(***************************************************************************)

\* The labels with their lengths in front.
Framed(labels) == [i \in DOMAIN labels |-> <<Len(labels[i])>> \o labels[i]]

\* Where the label after the first m ones begins in an encoded name.
Width(labels, m) == Len(Flat(Framed(labels), m))

\* A label with its length in front.
LEMMA FramedType ==
  ASSUME NEW labels \in Seq(Seq(Nat))
  PROVE  /\ Framed(labels) \in Seq(Seq(Nat)) /\ Len(Framed(labels)) = Len(labels)
         /\ \A i \in 1 .. Len(labels) :
              /\ labels[i] \in Seq(Nat) /\ Len(labels[i]) \in Nat
              /\ Framed(labels)[i] = <<Len(labels[i])>> \o labels[i]
<1>1. Len(labels) \in Nat /\ DOMAIN labels = 1 .. Len(labels)
  OBVIOUS
<1>2. ASSUME NEW i \in 1 .. Len(labels)
      PROVE  labels[i] \in Seq(Nat) /\ Len(labels[i]) \in Nat /\ <<Len(labels[i])>> \o labels[i] \in Seq(Nat)
  <2>1. labels[i] \in Seq(Nat)
    OBVIOUS
  <2>2. <<Len(labels[i])>> \in Seq(Nat)
    BY <2>1
  <2>3. QED
    BY <2>1, <2>2
<1>3. Framed(labels) = [i \in 1 .. Len(labels) |-> <<Len(labels[i])>> \o labels[i]]
  BY <1>1 DEF Framed
<1>4. QED
  BY <1>1, <1>2, <1>3

\* The cells of an encoded name, label by label.
LEMMA NameCells ==
  ASSUME NEW labels \in Seq(Seq(Nat))
  PROVE  LET n == Len(labels)
             name == EncodeName(labels)
         IN /\ name \in Seq(Nat) /\ n \in Nat
            /\ Width(labels, 0) = 0
            /\ Len(name) = Width(labels, n) + 1 /\ name[Width(labels, n) + 1] = 0
            /\ \A m \in Nat : m <= n => Width(labels, m) \in Nat /\ Width(labels, m) <= Width(labels, n)
            /\ \A m \in Nat : m + 1 <= n =>
                 /\ labels[m + 1] \in Seq(Nat) /\ Len(labels[m + 1]) \in Nat
                 /\ Width(labels, m + 1) = Width(labels, m) + 1 + Len(labels[m + 1])
                 /\ name[Width(labels, m) + 1] = Len(labels[m + 1])
                 /\ \A i \in 1 .. Len(labels[m + 1]) : name[Width(labels, m) + 1 + i] = labels[m + 1][i]
<1> DEFINE n == Len(labels)
           seqs == Framed(labels)
           flat == FlattenSeq(seqs)
           name == EncodeName(labels)
<1>1. seqs \in Seq(Seq(Nat)) /\ Len(seqs) = n /\ n \in Nat
  BY FramedType
<1>2. name = flat \o <<0>>
  BY DEF EncodeName, Framed
<1>3. /\ flat \in Seq(Nat) /\ flat = Flat(seqs, n) /\ Len(Flat(seqs, 0)) = 0
      /\ \A m \in Nat : m <= n => Len(Flat(seqs, m)) \in Nat /\ Len(Flat(seqs, m)) <= Len(flat)
      /\ \A m \in Nat : m + 1 <= n =>
           /\ Len(Flat(seqs, m + 1)) = Len(Flat(seqs, m)) + Len(seqs[m + 1])
           /\ \A i \in 1 .. Len(seqs[m + 1]) : flat[Len(Flat(seqs, m)) + i] = seqs[m + 1][i]
  <2>1. /\ FlattenSeq(seqs) \in Seq(Nat)
        /\ FlattenSeq(seqs) = Flat(seqs, Len(seqs))
        /\ Flat(seqs, 0) = <<>>
        /\ \A m \in Nat : m <= Len(seqs) =>
             Len(Flat(seqs, m)) \in Nat /\ Len(Flat(seqs, m)) <= Len(FlattenSeq(seqs))
        /\ \A m \in Nat : m + 1 <= Len(seqs) =>
             /\ Len(Flat(seqs, m + 1)) = Len(Flat(seqs, m)) + Len(seqs[m + 1])
             /\ \A i \in 1 .. Len(seqs[m + 1]) :
                  FlattenSeq(seqs)[Len(Flat(seqs, m)) + i] = seqs[m + 1][i]
    BY <1>1, FlattenCells
  <2>2. Len(<<>>) = 0
    OBVIOUS
  <2> HIDE DEF seqs, n
  <2>3. QED
    BY <1>1, <2>1, <2>2
<1>4. Width(labels, n) = Len(flat) /\ \A m \in Nat : Width(labels, m) = Len(Flat(seqs, m))
  BY <1>3 DEF Width
<1> HIDE DEF flat, name
<1>5. /\ name \in Seq(Nat) /\ Len(name) = Len(flat) + 1 /\ name[Len(flat) + 1] = 0
      /\ Len(flat) \in Nat /\ \A i \in 1 .. Len(flat) : name[i] = flat[i]
  <2>1. <<0>> \in Seq(Nat) /\ Len(<<0>>) = 1 /\ <<0>>[1] = 0 /\ Len(flat) \in Nat
    BY <1>3
  <2>2. /\ name \in Seq(Nat) /\ Len(name) = Len(flat) + 1
        /\ \A i \in 1 .. Len(flat) + 1 : name[i] = IF i <= Len(flat) THEN flat[i] ELSE <<0>>[i - Len(flat)]
    BY <1>2, <1>3, <2>1, ConcatProperties
  <2>3. Len(flat) + 1 \in 1 .. Len(flat) + 1 /\ ~ (Len(flat) + 1 <= Len(flat))
        /\ (Len(flat) + 1) - Len(flat) = 1
    BY <2>1
  <2>4. \A i \in 1 .. Len(flat) : name[i] = flat[i]
    BY <2>1, <2>2
  <2>5. QED
    BY <2>1, <2>2, <2>3, <2>4
<1>6. ASSUME NEW m \in Nat, m + 1 <= n
      PROVE  /\ labels[m + 1] \in Seq(Nat) /\ Len(labels[m + 1]) \in Nat
             /\ Width(labels, m + 1) = Width(labels, m) + 1 + Len(labels[m + 1])
             /\ name[Width(labels, m) + 1] = Len(labels[m + 1])
             /\ \A i \in 1 .. Len(labels[m + 1]) : name[Width(labels, m) + 1 + i] = labels[m + 1][i]
  <2> DEFINE label == labels[m + 1]
             cells == seqs[m + 1]
             w == Len(Flat(seqs, m))
  <2>1. m + 1 \in 1 .. n /\ m <= n /\ m + 1 \in Nat
    BY <1>1, <1>6
  <2>2. label \in Seq(Nat) /\ Len(label) \in Nat /\ cells = <<Len(label)>> \o label
    BY <2>1, FramedType
  <2>3. /\ w \in Nat /\ Width(labels, m) = w /\ Width(labels, m + 1) = w + Len(cells)
        /\ w + Len(cells) <= Len(flat)
        /\ \A i \in 1 .. Len(cells) : flat[w + i] = cells[i]
    <3>1. w \in Nat /\ Width(labels, m) = w
      BY <1>3, <1>4, <2>1
    <3>2. Width(labels, m + 1) = w + Len(cells) /\ Width(labels, m + 1) <= Len(flat)
      BY <1>3, <1>4, <1>6, <2>1
    <3>3. \A i \in 1 .. Len(cells) : flat[w + i] = cells[i]
      BY <1>3, <1>6
    <3>4. QED
      BY <3>1, <3>2, <3>3
  <2> HIDE DEF label, cells, w
  <2>4. /\ Len(cells) = 1 + Len(label) /\ cells[1] = Len(label)
        /\ \A i \in 1 .. Len(label) : cells[1 + i] = label[i]
    <3>1. <<Len(label)>> \in Seq(Nat) /\ Len(<<Len(label)>>) = 1 /\ <<Len(label)>>[1] = Len(label)
      BY <2>2
    <3>2. /\ Len(cells) = 1 + Len(label)
          /\ \A i \in 1 .. 1 + Len(label) : cells[i] = IF i <= 1 THEN <<Len(label)>>[i] ELSE label[i - 1]
      BY <2>2, <3>1, ConcatProperties
    <3>3. 1 \in 1 .. 1 + Len(label)
      BY <2>2
    <3>4. \A i \in 1 .. Len(label) : 1 + i \in 1 .. 1 + Len(label) /\ ~ (1 + i <= 1) /\ (1 + i) - 1 = i
      BY <2>2
    <3>5. QED
      BY <3>1, <3>2, <3>3, <3>4
  <2>5. ASSUME NEW i \in 1 .. Len(cells)
        PROVE  name[w + i] = cells[i]
    <3>1. Len(cells) \in Nat /\ w \in Nat /\ w + Len(cells) <= Len(flat) /\ Len(flat) \in Nat
      BY <1>5, <2>2, <2>3, <2>4
    <3>2. w + i \in 1 .. Len(flat)
      BY <3>1
    <3>3. QED
      BY <1>5, <2>3, <3>2
  <2>6. name[w + 1] = Len(label)
    <3>1. 1 \in 1 .. Len(cells)
      BY <2>2, <2>4
    <3>2. QED
      BY <2>4, <2>5, <3>1
  <2>7. ASSUME NEW i \in 1 .. Len(label)
        PROVE  name[w + 1 + i] = label[i]
    <3>1. 1 + i \in 1 .. Len(cells) /\ w + 1 + i = w + (1 + i)
      BY <2>2, <2>3, <2>4
    <3>2. QED
      BY <2>4, <2>5, <3>1
  <2>8. Width(labels, m + 1) = w + 1 + Len(label)
    BY <2>2, <2>3, <2>4
  <2>9. QED
    BY <2>2, <2>3, <2>6, <2>7, <2>8 DEF label
<1>7. QED
  BY <1>1, <1>3, <1>4, <1>5, <1>6 DEF name

\* The labels of an encoded name are read as they were written.
LEMMA NameDecoded ==
  ASSUME NEW body \in Seq(Nat), NEW labels \in Seq(Seq(Nat)),
         \A i \in DOMAIN labels : Len(labels[i]) \in 1 .. 63,
         NEW o \in Nat \ {0}, o + Len(EncodeName(labels)) - 1 <= Len(body),
         \A i \in 1 .. Len(EncodeName(labels)) : body[o + i - 1] = EncodeName(labels)[i]
  PROVE  Labels(body)[o] = [labels |-> labels, end |-> "root", off |-> o + Len(EncodeName(labels))]
<1> DEFINE n == Len(labels)
           name == EncodeName(labels)
           W(m) == Width(labels, m)
           Rest(m) == [labels |-> SubSeq(labels, m + 1, n), end |-> "root", off |-> o + Len(name)]
           S == {d \in Nat : d <= n => \A m \in Nat : m + d = n => Labels(body)[o + W(m)] = Rest(m)}
<1>1. /\ name \in Seq(Nat) /\ n \in Nat /\ W(0) = 0
      /\ Len(name) = W(n) + 1 /\ name[W(n) + 1] = 0
      /\ \A m \in Nat : m <= n => W(m) \in Nat /\ W(m) <= W(n)
      /\ \A m \in Nat : m + 1 <= n =>
           /\ labels[m + 1] \in Seq(Nat) /\ Len(labels[m + 1]) \in Nat
           /\ W(m + 1) = W(m) + 1 + Len(labels[m + 1])
           /\ name[W(m) + 1] = Len(labels[m + 1])
           /\ \A i \in 1 .. Len(labels[m + 1]) : name[W(m) + 1 + i] = labels[m + 1][i]
  BY NameCells
<1>2. /\ \A i \in 1 .. Len(name) : body[o + i - 1] = name[i]
      /\ o + Len(name) - 1 <= Len(body) /\ Len(name) \in Nat /\ Len(body) \in Nat /\ W(n) \in Nat
      /\ \A m \in Nat : m + 1 <= n => Len(labels[m + 1]) \in 1 .. 63
  BY <1>1
<1> HIDE DEF name, W, n
<1>10. Len(name) = W(n) + 1 /\ W(n) \in Nat /\ Len(name) \in Nat
  BY <1>1, <1>2
<1>3. ASSUME NEW i \in Nat, i + 1 <= Len(name)
      PROVE  body[o + i] = name[i + 1] /\ o + i <= Len(body) /\ o + i \in Nat \ {0}
  <2>1. i + 1 \in 1 .. Len(name) /\ o + (i + 1) - 1 = o + i
    BY <1>2, <1>3
  <2>2. o + i <= Len(body) /\ o + i \in Nat \ {0}
    BY <1>2, <1>3
  <2>3. QED
    BY <1>2, <2>1, <2>2
<1>4. 0 \in S
  <2>1. body[o + W(n)] = 0 /\ o + W(n) <= Len(body) /\ o + W(n) \in Nat \ {0}
    BY <1>1, <1>2, <1>3, SMTT(30)
  <2>2. Labels(body)[o + W(n)] = Ended("root", o + W(n) + 1)
    BY <2>1, LabelsCases
  <2>3. SubSeq(labels, n + 1, n) = <<>>
    BY <1>1, SubSeqEmpty
  <2>4. Labels(body)[o + W(n)] = Rest(n)
    <3>1. o + W(n) + 1 = o + Len(name)
      BY <1>1, <1>2
    <3>2. QED
      BY <2>2, <2>3, <3>1 DEF Ended
  <2>5. \A m \in Nat : m + 0 = n => m = n
    BY <1>1
  <2> HIDE DEF Rest
  <2>6. QED
    BY <2>4, <2>5
<1>5. ASSUME NEW d \in Nat, d \in S
      PROVE  d + 1 \in S
  <2> SUFFICES ASSUME d + 1 <= n, NEW m \in Nat, m + (d + 1) = n
      PROVE  Labels(body)[o + W(m)] = Rest(m)
    OBVIOUS
  <2> DEFINE label == labels[m + 1]
             a == o + W(m)
  <2>1. m + 1 \in Nat /\ (m + 1) + d = n /\ m + 1 <= n /\ m <= n /\ d <= n
    BY <1>1
  <2>2. Labels(body)[o + W(m + 1)] = Rest(m + 1)
    BY <1>5, <2>1
  <2>3. /\ label \in Seq(Nat) /\ Len(label) \in Nat /\ Len(label) \in 1 .. 63
        /\ W(m) \in Nat /\ W(m + 1) \in Nat /\ W(m + 1) <= W(n)
        /\ W(m + 1) = W(m) + 1 + Len(label)
        /\ name[W(m) + 1] = Len(label)
        /\ \A i \in 1 .. Len(label) : name[W(m) + 1 + i] = label[i]
    BY <1>1, <1>2, <2>1
  <2> HIDE DEF label
  <2>13. Len(label) # 0 /\ ~ (Len(label) > 63)
    <3>1. Len(label) \in 1 .. 63
      BY <2>3
    <3>2. \A x \in 1 .. 63 : x # 0 /\ ~ (x > 63)
      OBVIOUS
    <3>3. QED
      BY <3>1, <3>2
  <2>12. W(m) + 1 + Len(label) + 1 <= Len(name) /\ W(m) \in Nat /\ Len(label) \in Nat
    <3>1. W(m + 1) <= W(n) /\ W(m + 1) = W(m) + 1 + Len(label) /\ W(m) \in Nat /\ Len(label) \in Nat
      BY <2>3
    <3>2. QED
      BY <1>10, <3>1
  <2>4. body[a] = Len(label) /\ a <= Len(body) /\ a \in Nat \ {0}
    <3>1. W(m) + 1 <= Len(name)
      BY <1>10, <2>12
    <3>2. QED
      BY <1>3, <2>3, <3>1
  <2>5. a + Len(label) <= Len(body)
    <3>1. (W(m) + Len(label)) + 1 <= Len(name) /\ W(m) + Len(label) \in Nat
          /\ o + (W(m) + Len(label)) = a + Len(label)
      BY <1>10, <2>12, SMTT(30)
    <3>2. QED
      BY <1>3, <3>1
  <2> HIDE DEF a
  <2>6. ASSUME NEW i \in 1 .. Len(label)
        PROVE  body[a + i] = label[i]
    <3>1. W(m) + i \in Nat /\ (W(m) + i) + 1 <= Len(name) /\ o + (W(m) + i) = a + i
          /\ (W(m) + i) + 1 = W(m) + 1 + i
      <4>1. i \in Nat /\ i <= Len(label)
        BY <2>12
      <4>2. W(m) + i \in Nat /\ (W(m) + i) + 1 <= Len(name)
        BY <1>10, <2>12, <4>1, SMTT(30)
      <4>3. o + (W(m) + i) = a + i /\ (W(m) + i) + 1 = W(m) + 1 + i
        <5>1. \A x, y, z \in Nat : x + (y + z) = (x + y) + z /\ (y + z) + 1 = y + 1 + z
          OBVIOUS
        <5>2. o \in Nat
          OBVIOUS
        <5>3. QED
          BY <2>12, <4>1, <5>1, <5>2, ZenonT(40) DEF a
      <4>4. QED
        BY <4>2, <4>3
    <3>2. QED
      BY <1>3, <2>3, <3>1
  <2>7. SubSeq(body, a + 1, a + Len(label)) = label
    <3> DEFINE s == SubSeq(body, a + 1, a + Len(label))
    <3>1. a + 1 \in Int /\ a + Len(label) \in Int /\ \A i \in a + 1 .. a + Len(label) : body[i] \in Nat
      <4>1. a \in Nat \ {0} /\ Len(label) \in Nat /\ a + Len(label) <= Len(body)
        BY <2>4, <2>5, <2>12
      <4>2. \A i \in a + 1 .. a + Len(label) : i \in 1 .. Len(body)
        BY <1>2, <4>1
      <4>3. QED
        BY <4>1, <4>2
    <3>2. /\ s \in Seq(Nat)
          /\ Len(s) = (IF a + 1 <= a + Len(label) THEN (a + Len(label)) - (a + 1) + 1 ELSE 0)
          /\ \A i \in 1 .. (a + Len(label)) - (a + 1) + 1 : s[i] = body[(a + 1) + i - 1]
      BY <3>1, SubSeqProperties, SMTT(30)
    <3> HIDE DEF s
    <3>3. Len(s) = Len(label)
      BY <2>3, <2>4, <3>2
    <3>4. ASSUME NEW i \in 1 .. Len(s)
          PROVE  s[i] = label[i]
      <4>1. i \in 1 .. (a + Len(label)) - (a + 1) + 1 /\ (a + 1) + i - 1 = a + i /\ i \in 1 .. Len(label)
        BY <2>3, <2>4, <3>3
      <4>2. QED
        BY <2>6, <3>2, <4>1
    <3>5. QED
      BY <2>3, <3>2, <3>3, <3>4, SeqEqual DEF s
  <2>8. Labels(body)[a] = Before(label, Labels(body)[o + W(m + 1)])
    <3>1. body[a] # 0 /\ ~ (body[a] > 63) /\ a + body[a] <= Len(body)
      BY <2>4, <2>5, <2>13
    <3>2. Labels(body)[a] = Before(SubSeq(body, a + 1, a + body[a]), Labels(body)[a + body[a] + 1])
      BY <2>4, <3>1, LabelsCases
    <3>3. a + body[a] + 1 = o + W(m + 1)
      BY <2>3, <2>4, SMTT(30) DEF a
    <3>4. QED
      BY <2>4, <2>7, <3>2, <3>3
  <2>9. SubSeq(labels, m + 1, n) = <<label>> \o SubSeq(labels, (m + 1) + 1, n)
    <3>1. m + 1 \in 1 .. Len(labels) /\ n \in m + 1 .. Len(labels)
      BY <1>1, <2>1 DEF n
    <3>2. QED
      BY <3>1, SubSeqRecursiveFirst DEF label
  <2>10. Before(label, Rest(m + 1)) = Rest(m)
    BY <2>9 DEF Before
  <2>11. QED
    BY <2>2, <2>8, <2>10 DEF a
<1>6. n \in S
  <2> HIDE DEF S
  <2>1. QED
    BY <1>1, <1>4, <1>5, Induction
<1>7. Labels(body)[o + W(0)] = Rest(0)
  <2>1. 0 \in Nat /\ 0 + n = n /\ n <= n
    BY <1>1
  <2>2. QED
    BY <1>6, <2>1
<1>8. SubSeq(labels, 0 + 1, n) = labels /\ o + 0 = o
  BY <1>1, SubSeqFull DEF n
<1>9. QED
  BY <1>1, <1>7, <1>8 DEF name

-----------------------------------------------------------------------------
(***************************************************************************)
(* Occurrences in sequences, and copies in bags.                           *)
(***************************************************************************)

\* Sets that correspond one to one are of one size.
LEMMA SameSize ==
  ASSUME NEW S, IsFiniteSet(S), NEW T, NEW f \in [S -> T],
         \A x, y \in S : f[x] = f[y] => x = y, \A z \in T : \E x \in S : f[x] = z
  PROVE  IsFiniteSet(T) /\ Cardinality(T) = Cardinality(S)
<1>1. f \in Bijection(S, T)
  BY DEF Bijection, Injection, Surjection, IsInjective
<1>2. QED
  BY <1>1, FS_Bijection DEF ExistsBijection

\* How often a name occurs in a sequence.
Occurs(s, x) == Cardinality({i \in DOMAIN s : s[i] = x})

\* Nothing occurs in an empty sequence.
LEMMA OccursNone == \A x : Occurs(<<>>, x) = 0
  BY FS_EmptySet DEF Occurs

\* One more occurrence in front.
LEMMA OccursFront ==
  ASSUME NEW X, NEW s \in Seq(X), NEW y \in X, NEW x
  PROVE  /\ Occurs(s, x) \in Nat
         /\ Occurs(<<y>> \o s, x) = (IF y = x THEN 1 ELSE 0) + Occurs(s, x)
<1> DEFINE more == <<y>> \o s
           S == {i \in DOMAIN s : s[i] = x}
           T == {i \in DOMAIN more : more[i] = x}
           shift == [i \in S |-> i + 1]
<1>1. Len(s) \in Nat /\ DOMAIN s = 1 .. Len(s)
  OBVIOUS
<1>2. /\ Len(more) = 1 + Len(s) /\ DOMAIN more = 1 .. 1 + Len(s) /\ more[1] = y
      /\ \A i \in 1 .. Len(s) : more[i + 1] = s[i]
  <2>1. <<y>> \in Seq(X) /\ Len(<<y>>) = 1 /\ <<y>>[1] = y
    OBVIOUS
  <2>2. /\ more \in Seq(X) /\ Len(more) = 1 + Len(s)
        /\ \A i \in 1 .. 1 + Len(s) : more[i] = IF i <= 1 THEN <<y>>[i] ELSE s[i - 1]
    BY <2>1, ConcatProperties
  <2> HIDE DEF more
  <2>3. 1 \in 1 .. 1 + Len(s) /\ DOMAIN more = 1 .. 1 + Len(s)
    BY <1>1, <2>2
  <2>4. ASSUME NEW i \in 1 .. Len(s)
        PROVE  more[i + 1] = s[i]
    <3>1. i + 1 \in 1 .. 1 + Len(s) /\ ~ (i + 1 <= 1) /\ (i + 1) - 1 = i
      BY <1>1
    <3>2. QED
      BY <2>2, <3>1
  <2>5. QED
    BY <2>1, <2>2, <2>3, <2>4
<1> HIDE DEF more
<1>3. IsFiniteSet(S) /\ Cardinality(S) \in Nat /\ S \subseteq Nat \ {0}
  <2>1. IsFiniteSet(1 .. Len(s)) /\ S \subseteq 1 .. Len(s)
    BY <1>1, FS_Interval
  <2>2. QED
    BY <2>1, FS_Subset, FS_CardinalityType
<1>4. T \ {1} = {i + 1 : i \in S}
  <2>1. ASSUME NEW i \in S
        PROVE  i + 1 \in T \ {1}
    <3>1. i \in 1 .. Len(s) /\ s[i] = x
      BY <1>1
    <3>2. i + 1 \in 1 .. 1 + Len(s) /\ i + 1 # 1
      BY <1>1, <3>1
    <3>3. QED
      BY <1>2, <3>1, <3>2
  <2>2. ASSUME NEW j \in T \ {1}
        PROVE  \E i \in S : j = i + 1
    <3>1. j - 1 \in 1 .. Len(s) /\ j = (j - 1) + 1 /\ more[j] = x
      BY <1>1, <1>2
    <3>2. s[j - 1] = x
      BY <1>2, <3>1
    <3>3. QED
      BY <1>1, <3>1, <3>2
  <2> HIDE DEF S, T
  <2>3. QED
    BY <2>1, <2>2
<1>5. Cardinality(T \ {1}) = Cardinality(S) /\ IsFiniteSet(T \ {1})
  <2>1. shift \in [S -> T \ {1}]
    BY <1>4
  <2>2. \A i, j \in S : shift[i] = shift[j] => i = j
    BY <1>3
  <2>3. \A z \in T \ {1} : \E i \in S : shift[i] = z
    BY <1>4
  <2> HIDE DEF shift, S, T
  <2>4. QED
    BY <1>3, <2>1, <2>2, <2>3, SameSize
<1>6. 1 \in T <=> y = x
  BY <1>1, <1>2
<1> DEFINE size == Cardinality(S)
<1>7. CASE y = x
  <2>1. T = (T \ {1}) \cup {1}
    BY <1>6, <1>7
  <2>2. Cardinality((T \ {1}) \cup {1}) = Cardinality(T \ {1}) + 1
    <3> DEFINE R == T \ {1}
    <3>1. IsFiniteSet(R) /\ 1 \notin R
      BY <1>5
    <3> HIDE DEF R
    <3>2. Cardinality(R \cup {1}) = Cardinality(R) + 1
      BY <3>1, FS_AddElement
    <3>3. QED
      BY <3>2 DEF R
  <2>3. Occurs(more, x) = Cardinality(T) /\ Occurs(s, x) = size
    BY DEF Occurs
  <2>4. Cardinality(T) = Cardinality(T \ {1}) + 1
    <3> HIDE DEF T
    <3>1. QED
      BY <2>1, <2>2
  <2>5. size \in Nat /\ Cardinality(T \ {1}) = size
    BY <1>3, <1>5
  <2> HIDE DEF S, T, size
  <2>6. Occurs(more, x) = 1 + Occurs(s, x) /\ Occurs(s, x) \in Nat
    BY <2>3, <2>4, <2>5
  <2>7. QED
    BY <1>7, <2>6 DEF more
<1>8. CASE y # x
  <2>1. T = T \ {1}
    BY <1>6, <1>8
  <2>3. Occurs(more, x) = Cardinality(T) /\ Occurs(s, x) = size
    BY DEF Occurs
  <2>5. size \in Nat /\ Cardinality(T \ {1}) = size
    BY <1>3, <1>5
  <2> HIDE DEF S, T, size
  <2>4. Occurs(more, x) = size
    BY <2>1, <2>3, <2>5
  <2>6. Occurs(more, x) = 0 + Occurs(s, x) /\ Occurs(s, x) \in Nat
    <3>1. size = 0 + size
      BY <2>5
    <3>2. QED
      BY <2>3, <2>4, <2>5, <3>1
  <2>7. QED
    BY <1>8, <2>6 DEF more
<1>9. QED
  BY <1>7, <1>8

\* The copies of an element in a bag, 0 for what is not in it.
Copies(bag, x) == IF x \in DOMAIN bag THEN bag[x] ELSE 0

\* The bag of a sequence has the copies the sequence has.
LEMMA ToBagCopies ==
  ASSUME NEW X, NEW s \in Seq(X), NEW x
  PROVE  Copies(ToBag(s), x) = Occurs(s, x)
<1>1. CASE x \in Range(s)
  BY <1>1 DEF ToBag, Copies, Occurs
<1>2. CASE x \notin Range(s)
  <2>1. {i \in DOMAIN s : s[i] = x} = {}
    BY <1>2 DEF Range
  <2>2. DOMAIN ToBag(s) = Range(s)
    BY DEF ToBag
  <2>3. QED
    BY <1>2, <2>1, <2>2, FS_EmptySet DEF Copies, Occurs
<1>3. QED
  BY <1>1, <1>2

\* The copies in two bags add up.
LEMMA PlusCopies ==
  ASSUME NEW b, NEW c, IsABag(b), IsABag(c), NEW x
  PROVE  /\ Copies(b, x) \in Nat /\ (x \in DOMAIN b <=> Copies(b, x) # 0)
         /\ Copies(b (+) c, x) = Copies(b, x) + Copies(c, x)
<1>1. /\ \A y \in DOMAIN b : b[y] \in Nat \ {0}
      /\ \A y \in DOMAIN c : c[y] \in Nat \ {0}
  BY DEF IsABag
<1>2. DOMAIN (b (+) c) = DOMAIN b \cup DOMAIN c
  BY DEF (+)
<1>3. CASE x \in DOMAIN b \cup DOMAIN c
  <2>1. (b (+) c)[x] = (IF x \in DOMAIN b THEN b[x] ELSE 0) + (IF x \in DOMAIN c THEN c[x] ELSE 0)
    BY <1>3 DEF (+)
  <2>2. QED
    BY <1>1, <1>2, <1>3, <2>1 DEF Copies
<1>4. CASE x \notin DOMAIN b \cup DOMAIN c
  BY <1>2, <1>4 DEF Copies
<1>5. Copies(b, x) \in Nat
  BY <1>1 DEF Copies
<1>6. x \in DOMAIN b <=> Copies(b, x) # 0
  <2>1. CASE x \in DOMAIN b
    BY <1>1, <2>1 DEF Copies
  <2>2. CASE x \notin DOMAIN b
    BY <2>2 DEF Copies
  <2>3. QED
    BY <2>1, <2>2
<1>7. Copies(b (+) c, x) = Copies(b, x) + Copies(c, x)
  BY <1>3, <1>4
<1>8. QED
  BY <1>5, <1>6, <1>7

-----------------------------------------------------------------------------
(***************************************************************************)
(* The encoding of a query, and dns_names of what was captured of it.      *)
(***************************************************************************)

\* The questions of a query, and where the one after the first k begins.
Questions(asked) == [i \in DOMAIN asked |-> EncodeQuestion(asked[i])]
Place(asked, k) == Len(Flat(Questions(asked), k)) + 2

\* The questions are sequences of numbers.
LEMMA QuestionsType ==
  ASSUME NEW asked \in Seq(Seq(Seq(Nat)))
  PROVE  /\ Questions(asked) \in Seq(Seq(Nat)) /\ Len(Questions(asked)) = Len(asked)
         /\ \A i \in 1 .. Len(asked) :
              LET name == EncodeName(asked[i]) IN
              /\ asked[i] \in Seq(Seq(Nat)) /\ Len(name) \in Nat
              /\ Len(Questions(asked)[i]) = Len(name) + 4
              /\ \A j \in 1 .. Len(name) : Questions(asked)[i][j] = name[j]
<1>1. Len(asked) \in Nat /\ DOMAIN asked = 1 .. Len(asked)
  OBVIOUS
<1>2. ASSUME NEW i \in 1 .. Len(asked)
      PROVE  LET name == EncodeName(asked[i]) IN
             /\ asked[i] \in Seq(Seq(Nat)) /\ Len(name) \in Nat
             /\ EncodeQuestion(asked[i]) \in Seq(Nat)
             /\ Len(EncodeQuestion(asked[i])) = Len(name) + 4
             /\ \A j \in 1 .. Len(name) : EncodeQuestion(asked[i])[j] = name[j]
  <2> DEFINE name == EncodeName(asked[i])
  <2>1. asked[i] \in Seq(Seq(Nat))
    OBVIOUS
  <2>2. name \in Seq(Nat)
    BY <2>1, NameCells
  <2>3. EncodeQuestion(asked[i]) = name \o <<0, 1, 0, 1>>
    BY DEF EncodeQuestion
  <2> HIDE DEF name
  <2>4. <<0, 1, 0, 1>> \in Seq(Nat) /\ Len(<<0, 1, 0, 1>>) = 4 /\ Len(name) \in Nat
    BY <2>2
  <2>5. /\ name \o <<0, 1, 0, 1>> \in Seq(Nat)
        /\ Len(name \o <<0, 1, 0, 1>>) = Len(name) + 4
        /\ \A j \in 1 .. Len(name) + 4 :
             (name \o <<0, 1, 0, 1>>)[j] = IF j <= Len(name) THEN name[j] ELSE <<0, 1, 0, 1>>[j - Len(name)]
    BY <2>2, <2>4, ConcatProperties
  <2>6. \A j \in 1 .. Len(name) : j \in 1 .. Len(name) + 4 /\ j <= Len(name)
    BY <2>4
  <2>7. \A j \in 1 .. Len(name) : (name \o <<0, 1, 0, 1>>)[j] = name[j]
    BY <2>5, <2>6
  <2>8. QED
    BY <2>1, <2>3, <2>4, <2>5, <2>7 DEF name
<1>3. Questions(asked) = [i \in 1 .. Len(asked) |-> EncodeQuestion(asked[i])]
  BY <1>1 DEF Questions
<1>4. Questions(asked) \in Seq(Seq(Nat)) /\ Len(Questions(asked)) = Len(asked)
  BY <1>1, <1>2, <1>3
<1>5. \A i \in 1 .. Len(asked) : Questions(asked)[i] = EncodeQuestion(asked[i])
  BY <1>3
<1>6. QED
  BY <1>2, <1>4, <1>5

\* The cells of an encoded query, question by question.
LEMMA QueryCells ==
  ASSUME NEW asked \in Seq(Seq(Seq(Nat)))
  PROVE  LET body == EncodeQuery(asked) IN
         /\ body \in Seq(Nat) /\ Len(asked) \in Nat /\ Len(body) >= 1 /\ body[1] = Len(asked)
         /\ Place(asked, 0) = 2 /\ Place(asked, Len(asked)) = Len(body) + 1
         /\ \A k \in Nat : k <= Len(asked) =>
              Place(asked, k) \in Nat \ {0} /\ Place(asked, k) <= Len(body) + 1
         /\ \A k \in Nat : k + 1 <= Len(asked) =>
              LET name == EncodeName(asked[k + 1]) IN
              /\ asked[k + 1] \in Seq(Seq(Nat)) /\ Len(name) \in Nat
              /\ Place(asked, k + 1) = Place(asked, k) + Len(name) + 4
              /\ \A i \in 1 .. Len(name) : body[Place(asked, k) + i - 1] = name[i]
<1> DEFINE body == EncodeQuery(asked)
           seqs == Questions(asked)
           flat == FlattenSeq(seqs)
           L(k) == Len(Flat(seqs, k))
<1>1. /\ seqs \in Seq(Seq(Nat)) /\ Len(seqs) = Len(asked) /\ Len(asked) \in Nat
      /\ \A i \in 1 .. Len(asked) :
           LET name == EncodeName(asked[i]) IN
           /\ asked[i] \in Seq(Seq(Nat)) /\ Len(name) \in Nat
           /\ Len(seqs[i]) = Len(name) + 4
           /\ \A j \in 1 .. Len(name) : seqs[i][j] = name[j]
  BY QuestionsType
<1>2. body = <<Len(asked)>> \o flat
  BY DEF EncodeQuery, Questions
<1>3. \A k : Place(asked, k) = L(k) + 2
  BY DEF Place
<1> HIDE DEF seqs
<1>4. /\ flat \in Seq(Nat) /\ flat = Flat(seqs, Len(asked)) /\ Len(Flat(seqs, 0)) = 0
      /\ \A m \in Nat : m <= Len(asked) => L(m) \in Nat /\ L(m) <= Len(flat)
      /\ \A m \in Nat : m + 1 <= Len(asked) =>
           /\ L(m + 1) = L(m) + Len(seqs[m + 1])
           /\ \A i \in 1 .. Len(seqs[m + 1]) : flat[L(m) + i] = seqs[m + 1][i]
  <2>1. /\ FlattenSeq(seqs) \in Seq(Nat)
        /\ FlattenSeq(seqs) = Flat(seqs, Len(seqs))
        /\ Flat(seqs, 0) = <<>>
        /\ \A m \in Nat : m <= Len(seqs) =>
             Len(Flat(seqs, m)) \in Nat /\ Len(Flat(seqs, m)) <= Len(FlattenSeq(seqs))
        /\ \A m \in Nat : m + 1 <= Len(seqs) =>
             /\ Len(Flat(seqs, m + 1)) = Len(Flat(seqs, m)) + Len(seqs[m + 1])
             /\ \A i \in 1 .. Len(seqs[m + 1]) :
                  FlattenSeq(seqs)[Len(Flat(seqs, m)) + i] = seqs[m + 1][i]
    BY <1>1, FlattenCells
  <2>2. Len(<<>>) = 0
    OBVIOUS
  <2>3. QED
    BY <1>1, <2>1, <2>2
<1> HIDE DEF flat, body, L
<1>5. /\ body \in Seq(Nat) /\ Len(body) = 1 + Len(flat) /\ body[1] = Len(asked)
      /\ Len(flat) \in Nat /\ \A i \in 1 .. Len(flat) : body[1 + i] = flat[i]
  <2>1. /\ <<Len(asked)>> \in Seq(Nat) /\ Len(<<Len(asked)>>) = 1 /\ <<Len(asked)>>[1] = Len(asked)
        /\ Len(flat) \in Nat
    BY <1>1, <1>4
  <2>2. /\ body \in Seq(Nat) /\ Len(body) = 1 + Len(flat)
        /\ \A i \in 1 .. 1 + Len(flat) : body[i] = IF i <= 1 THEN <<Len(asked)>>[i] ELSE flat[i - 1]
    BY <1>2, <1>4, <2>1, ConcatProperties
  <2>3. 1 \in 1 .. 1 + Len(flat)
    BY <2>1
  <2>4. \A i \in 1 .. Len(flat) : 1 + i \in 1 .. 1 + Len(flat) /\ ~ (1 + i <= 1) /\ (1 + i) - 1 = i
    BY <2>1
  <2>5. QED
    BY <2>1, <2>2, <2>3, <2>4
<1>6. Place(asked, 0) = 2 /\ Place(asked, Len(asked)) = Len(body) + 1
  <2>1. L(0) = 0 /\ L(Len(asked)) = Len(flat) /\ Len(flat) \in Nat
    BY <1>4, <1>5 DEF L
  <2>2. QED
    BY <1>3, <1>5, <2>1
<1>7. ASSUME NEW k \in Nat, k <= Len(asked)
      PROVE  Place(asked, k) \in Nat \ {0} /\ Place(asked, k) <= Len(body) + 1
  <2>1. L(k) \in Nat /\ L(k) <= Len(flat) /\ Place(asked, k) = L(k) + 2 /\ Len(body) = 1 + Len(flat)
        /\ Len(flat) \in Nat
    BY <1>3, <1>4, <1>5, <1>7
  <2>2. QED
    BY <2>1
<1>8. ASSUME NEW k \in Nat, k + 1 <= Len(asked)
      PROVE  LET name == EncodeName(asked[k + 1]) IN
             /\ asked[k + 1] \in Seq(Seq(Nat)) /\ Len(name) \in Nat
             /\ Place(asked, k + 1) = Place(asked, k) + Len(name) + 4
             /\ \A i \in 1 .. Len(name) : body[Place(asked, k) + i - 1] = name[i]
  <2> DEFINE name == EncodeName(asked[k + 1])
             q == seqs[k + 1]
  <2>1. k + 1 \in 1 .. Len(asked) /\ k <= Len(asked) /\ k + 1 \in Nat
    BY <1>1, <1>8
  <2>2. /\ asked[k + 1] \in Seq(Seq(Nat)) /\ Len(name) \in Nat /\ Len(q) = Len(name) + 4
        /\ \A j \in 1 .. Len(name) : q[j] = name[j]
    BY <1>1, <2>1
  <2>3. /\ L(k + 1) = L(k) + Len(q) /\ \A i \in 1 .. Len(q) : flat[L(k) + i] = q[i]
        /\ L(k) \in Nat /\ L(k + 1) <= Len(flat)
    BY <1>4, <1>8, <2>1
  <2> HIDE DEF name, q
  <2>4. Place(asked, k + 1) = Place(asked, k) + Len(name) + 4
    <3>1. Place(asked, k + 1) = L(k + 1) + 2 /\ Place(asked, k) = L(k) + 2
      BY <1>3
    <3>2. QED
      BY <2>2, <2>3, <3>1
  <2>5. ASSUME NEW i \in 1 .. Len(name)
        PROVE  body[Place(asked, k) + i - 1] = name[i]
    <3>1. Len(name) \in Nat /\ L(k) \in Nat /\ L(k) + Len(name) + 4 <= Len(flat) /\ Len(flat) \in Nat
      BY <1>5, <2>2, <2>3
    <3>2. i \in 1 .. Len(q) /\ L(k) + i \in 1 .. Len(flat)
      BY <2>2, <3>1, SMTT(30)
    <3>3. Place(asked, k) + i - 1 = 1 + (L(k) + i)
      <4>1. Place(asked, k) = L(k) + 2
        BY <1>3
      <4>2. QED
        BY <3>1, <4>1
    <3>4. QED
      BY <1>5, <2>2, <2>3, <3>2, <3>3
  <2>6. QED
    BY <2>2, <2>4, <2>5 DEF name
<1>9. QED
  BY <1>1, <1>5, <1>6, <1>7, <1>8 DEF body

\* A name is wholly there if the cells before the type of its question are.
LEMMA WithinPlace ==
  ASSUME NEW asked \in Seq(Seq(Seq(Nat))), NEW n \in Int
  PROVE  NamesWithin(asked, n) =
           {k \in 1 .. Len(asked) : asked[k] # <<>> /\ Place(asked, k) - 5 <= n}
<1>1. Len(asked) \in Nat /\ DOMAIN asked = 1 .. Len(asked)
  OBVIOUS
<1>2. ASSUME NEW k \in 1 .. Len(asked)
      PROVE  Len(EncodeQuery(SubSeq(asked, 1, k))) - 4 = Place(asked, k) - 5
  <2> DEFINE some == SubSeq(asked, 1, k)
             t == SubSeq(Questions(asked), 1, k)
  <2>1. some \in Seq(Seq(Seq(Nat))) /\ Len(some) = k /\ \A i \in 1 .. k : some[i] = asked[i]
    BY <1>1
  <2>2. /\ Questions(asked) \in Seq(Seq(Nat)) /\ Len(Questions(asked)) = Len(asked)
        /\ \A i \in 1 .. Len(asked) : Questions(asked)[i] = EncodeQuestion(asked[i])
    BY <1>1, QuestionsType DEF Questions
  <2>3. t \in Seq(Seq(Nat)) /\ Len(t) = k /\ \A i \in 1 .. k : t[i] = Questions(asked)[i]
    BY <1>1, <2>2
  <2> HIDE DEF some, t
  <2>4. Questions(some) \in Seq(Seq(Nat)) /\ Len(Questions(some)) = k
        /\ \A i \in 1 .. k : Questions(some)[i] = EncodeQuestion(some[i])
    <3>1. DOMAIN some = 1 .. k
      BY <2>1
    <3>2. QED
      BY <2>1, <3>1, QuestionsType DEF Questions
  <2>5. Questions(some) = t
    <3>1. \A i \in 1 .. k : i \in 1 .. Len(asked)
      BY <1>1
    <3>2. \A i \in 1 .. Len(Questions(some)) : Questions(some)[i] = t[i]
      BY <2>1, <2>2, <2>3, <2>4, <3>1
    <3>3. QED
      BY <2>3, <2>4, <3>2, SeqEqual
  <2>6. EncodeQuery(some) = <<k>> \o Flat(Questions(asked), k)
    BY <2>1, <2>5 DEF EncodeQuery, Questions, Flat, t
  <2>7. Flat(Questions(asked), k) \in Seq(Nat)
    <3>1. k \in Nat /\ k <= Len(Questions(asked))
      BY <1>1, <2>2
    <3>2. QED
      BY <2>2, <3>1, FlatType
  <2> DEFINE f == Flat(Questions(asked), k)
  <2>8. f \in Seq(Nat) /\ EncodeQuery(some) = <<k>> \o f /\ Place(asked, k) = Len(f) + 2
    BY <2>6, <2>7 DEF Place
  <2> HIDE DEF f
  <2>9. Len(f) \in Nat /\ Len(<<k>> \o f) = 1 + Len(f)
    BY <2>8
  <2>10. QED
    BY <2>8, <2>9 DEF some
<1>3. QED
  BY <1>1, <1>2 DEF NamesWithin

\* How much of a query is left of it in a message: all of it, with whatever follows, or
\* the first cells and nothing else.
ReadsAs(msg, body, b) ==
  /\ msg \in Seq(Nat) /\ body \in Seq(Nat)
  /\ b \in Nat /\ b <= Len(body) /\ b <= Len(msg)
  /\ Len(msg) = b \/ b = Len(body)
  /\ \A i \in 1 .. b : msg[i] = body[i]

\* A question that is wholly there is read as it was written.
LEMMA QuestionRead ==
  ASSUME NEW asked, IsQuery(asked), NEW msg, NEW b, ReadsAs(msg, EncodeQuery(asked), b),
         NEW k \in Nat, k + 1 <= Len(asked)
  PROVE  /\ Place(asked, k) \in Nat \ {0}
         /\ IF Place(asked, k + 1) - 5 <= b
            THEN Labels(msg)[Place(asked, k)] =
                   [labels |-> asked[k + 1], end |-> "root", off |-> Place(asked, k + 1) - 4]
            ELSE Labels(msg)[Place(asked, k)].end = "cut"
<1> DEFINE body == EncodeQuery(asked)
           labels == asked[k + 1]
           name == EncodeName(labels)
           o == Place(asked, k)
           after == Place(asked, k + 1)
           q == [labels |-> labels, end |-> "root", off |-> o + Len(name)]
<1>1. asked \in Seq(Seq(Seq(Nat))) /\ Len(asked) \in Nat /\ k + 1 \in 1 .. Len(asked) /\ k <= Len(asked)
  BY DEF IsQuery
<1>2. \A i \in DOMAIN labels : Len(labels[i]) \in 1 .. 63
  BY <1>1 DEF IsQuery
<1>3. /\ labels \in Seq(Seq(Nat)) /\ Len(name) \in Nat /\ Len(name) >= 1
      /\ o \in Nat \ {0} /\ after \in Nat \ {0} /\ after <= Len(body) + 1
      /\ after = o + Len(name) + 4
      /\ \A i \in 1 .. Len(name) : body[o + i - 1] = name[i]
  <2>1. /\ labels \in Seq(Seq(Nat)) /\ Len(name) \in Nat
        /\ o \in Nat \ {0} /\ after \in Nat \ {0} /\ after <= Len(body) + 1
        /\ after = o + Len(name) + 4
        /\ \A i \in 1 .. Len(name) : body[o + i - 1] = name[i]
    BY <1>1, QueryCells
  <2>2. Len(name) = Width(labels, Len(labels)) + 1 /\ Width(labels, Len(labels)) \in Nat
    <3>1. Len(labels) \in Nat
      BY <2>1
    <3>2. QED
      BY <2>1, <3>1, NameCells, SMTT(30)
  <2> HIDE DEF name, labels, o, after, body
  <2>3. QED
    BY <2>1, <2>2
<1>4. /\ msg \in Seq(Nat) /\ body \in Seq(Nat) /\ b \in Nat /\ b <= Len(body) /\ b <= Len(msg)
      /\ Len(msg) = b \/ b = Len(body)
      /\ \A i \in 1 .. b : msg[i] = body[i]
      /\ Len(body) \in Nat /\ Len(msg) \in Nat
  BY DEF ReadsAs
<1> HIDE DEF name, body, o, after, labels
<1>5. o + Len(name) - 1 <= Len(body) /\ o + Len(name) \in Nat /\ o + Len(name) - 1 = after - 5
  BY <1>3, <1>4
<1>6. Labels(body)[o] = q
  BY <1>2, <1>3, <1>4, <1>5, NameDecoded DEF name
<1>7. q.end = "root" /\ q.off = o + Len(name)
  OBVIOUS
<1> HIDE DEF q
<1>8. CASE after - 5 <= b
  <2>1. Labels(body)[o].off - 1 <= Len(msg)
    BY <1>3, <1>4, <1>5, <1>6, <1>7, <1>8
  <2>2. ASSUME NEW i \in o .. Labels(body)[o].off - 1
        PROVE  msg[i] = body[i]
    <3>1. Labels(body)[o].off - 1 = after - 5
      BY <1>3, <1>5, <1>6, <1>7
    <3>2. i \in o .. after - 5
      BY <3>1
    <3> HIDE DEF q
    <3>3. i \in 1 .. b
      <4>1. o \in Nat \ {0} /\ after \in Nat /\ b \in Nat /\ after - 5 <= b
        BY <1>3, <1>4, <1>8
      <4>2. \A x \in o .. after - 5 : x \in 1 .. b
        BY <4>1
      <4>3. QED
        BY <3>2, <4>2
    <3>4. QED
      BY <1>4, <3>3
  <2>3. Labels(msg)[o] = q
    BY <1>3, <1>4, <1>6, <1>7, <2>1, <2>2, LabelsLocal
  <2>4. o + Len(name) = after - 4
    BY <1>3
  <2>5. QED
    BY <1>3, <1>8, <2>3, <2>4 DEF q, o, after, labels
<1>9. CASE ~ (after - 5 <= b)
  <2>1. Len(msg) = b /\ b \in 0 .. Len(body)
    BY <1>3, <1>4, <1>9
  <2>2. msg = SubSeq(body, 1, b)
    <3> DEFINE s == SubSeq(body, 1, b)
    <3>1. s \in Seq(Nat) /\ Len(s) = b /\ \A i \in 1 .. b : s[i] = body[i]
      BY <1>4
    <3> HIDE DEF s
    <3>2. QED
      BY <1>4, <2>1, <3>1, SeqEqual DEF s
  <2>3. Labels(msg)[o].end = "cut" \/ Labels(msg)[o] = q
    BY <1>3, <1>4, <1>6, <2>1, <2>2, LabelsCutOff
  <2>4. ASSUME Labels(msg)[o].end = "root"
        PROVE  Labels(msg)[o].off - 1 <= Len(msg)
    <3>1. Labels(msg)[o].off \in o + 1 .. Len(msg) + 1
      BY <1>3, <1>4, <2>4, LabelsType
    <3>2. \A x \in o + 1 .. Len(msg) + 1 : x - 1 <= Len(msg)
      BY <1>3, <1>4
    <3>3. QED
      BY <3>1, <3>2
  <2>5. Labels(msg)[o] # q
    <3>1. SUFFICES ASSUME Labels(msg)[o] = q
                   PROVE  FALSE
      OBVIOUS
    <3>2. Labels(msg)[o].end = "root" /\ Labels(msg)[o].off = o + Len(name)
      BY <1>7, <3>1
    <3>3. o + Len(name) - 1 <= Len(msg)
      BY <1>3, <1>5, <2>4, <3>2
    <3>4. QED
      BY <1>3, <1>4, <1>5, <1>9, <2>1, <3>3
  <2>6. QED
    BY <1>3, <1>9, <2>3, <2>5 DEF o, after
<1>10. QED
  BY <1>8, <1>9

\* The questions stand one behind the other.
LEMMA PlaceGrows ==
  ASSUME NEW asked \in Seq(Seq(Seq(Nat))), NEW k \in Nat, NEW j \in Nat, k <= j, j <= Len(asked)
  PROVE  Place(asked, k) \in Nat \ {0} /\ Place(asked, j) \in Nat \ {0} /\ Place(asked, k) <= Place(asked, j)
<1> DEFINE seqs == Questions(asked)
           d == j - k
<1>1. seqs \in Seq(Seq(Nat)) /\ d \in Nat /\ k + d = j /\ k + d <= Len(seqs) /\ k <= Len(asked)
  <2>1. seqs \in Seq(Seq(Nat)) /\ Len(seqs) = Len(asked)
    BY QuestionsType
  <2> HIDE DEF seqs
  <2>2. Len(asked) \in Nat
    OBVIOUS
  <2>3. QED
    BY <2>1, <2>2
<1>2. Place(asked, k) \in Nat \ {0} /\ Place(asked, j) \in Nat \ {0}
  BY <1>1, QueryCells
<1> HIDE DEF d
<1>3. Len(Flat(seqs, k)) \in Nat /\ Len(Flat(seqs, k)) <= Len(Flat(seqs, k + d))
      /\ Len(Flat(seqs, k + d)) \in Nat
  <2>1. k + d \in Nat /\ (k + d) + 0 = k + d
    BY <1>1
  <2>2. Len(Flat(seqs, k + d)) \in Nat
    BY <1>1, <2>1, FlatPrefix
  <2>3. QED
    BY <1>1, <2>2, FlatPrefix
<1>4. Place(asked, k) = Len(Flat(seqs, k)) + 2 /\ Place(asked, j) = Len(Flat(seqs, k + d)) + 2
  BY <1>1 DEF Place
<1> HIDE DEF seqs
<1> DEFINE u == Len(Flat(seqs, k))
           v == Len(Flat(seqs, k + d))
<1>5. u \in Nat /\ v \in Nat /\ u <= v /\ Place(asked, k) = u + 2 /\ Place(asked, j) = v + 2
  BY <1>3, <1>4
<1> HIDE DEF u, v
<1>6. QED
  BY <1>2, <1>5

\* No name is wholly there before the message begins.
LEMMA NoneWithin ==
  ASSUME NEW asked \in Seq(Seq(Seq(Nat))), NEW n \in Int, n <= 0
  PROVE  NamesWithin(asked, n) = {}
<1> SUFFICES ASSUME NEW j \in 1 .. Len(asked), Place(asked, j) - 5 <= n
    PROVE  FALSE
  BY WithinPlace
<1>1. Len(asked) \in Nat /\ j - 1 \in Nat /\ (j - 1) + 1 = j /\ j \in Nat /\ j - 1 <= Len(asked)
  OBVIOUS
<1> DEFINE name == EncodeName(asked[j])
<1>2. /\ asked[j] \in Seq(Seq(Nat)) /\ Len(name) \in Nat
      /\ Place(asked, j) = Place(asked, j - 1) + Len(name) + 4
  <2>1. \A k \in Nat : k + 1 <= Len(asked) =>
          /\ asked[k + 1] \in Seq(Seq(Nat)) /\ Len(EncodeName(asked[k + 1])) \in Nat
          /\ Place(asked, k + 1) = Place(asked, k) + Len(EncodeName(asked[k + 1])) + 4
    BY QueryCells
  <2>2. j - 1 \in Nat /\ (j - 1) + 1 = j /\ j <= Len(asked)
    BY <1>1
  <2> HIDE DEF name
  <2>3. QED
    BY <2>1, <2>2 DEF name
<1>3. Place(asked, 0) = 2 /\ Place(asked, 0) <= Place(asked, j - 1) /\ Place(asked, j - 1) \in Nat
  BY <1>1, QueryCells, PlaceGrows
<1>4. Len(name) = Width(asked[j], Len(asked[j])) + 1 /\ Width(asked[j], Len(asked[j])) \in Nat
  <2>1. Len(asked[j]) \in Nat
    BY <1>2
  <2>2. QED
    BY <1>2, <2>1, NameCells, SMTT(30)
<1> HIDE DEF name
<1> DEFINE w == Width(asked[j], Len(asked[j]))
           p == Place(asked, j - 1)
<1>5. Place(asked, j) = p + (w + 1) + 4 /\ p \in Nat /\ 2 <= p /\ w \in Nat
  BY <1>2, <1>3, <1>4
<1> HIDE DEF w, p
<1>6. QED
  BY <1>5

\* The names after the k-th question that are wholly there and are x.
Left(asked, k, b, x) == {j \in NamesWithin(asked, b) : j > k /\ Name(asked[j]) = x}

\* There are finitely many names left.
LEMMA LeftFinite ==
  ASSUME NEW asked \in Seq(Seq(Seq(Nat))), NEW k, NEW b \in Int, NEW x
  PROVE  IsFiniteSet(Left(asked, k, b, x)) /\ Cardinality(Left(asked, k, b, x)) \in Nat
<1>1. Len(asked) \in Nat
  OBVIOUS
<1>2. Left(asked, k, b, x) \subseteq 1 .. Len(asked) /\ IsFiniteSet(1 .. Len(asked))
  BY <1>1, WithinPlace, FS_Interval DEF Left
<1>3. QED
  BY <1>2, FS_Subset, FS_CardinalityType

\* The loop of dns_names finds each name that is wholly there, as often as it stands there.
LEMMA NamesRead ==
  ASSUME NEW asked, IsQuery(asked), NEW msg, NEW b, ReadsAs(msg, EncodeQuery(asked), b)
  PROVE  \A x : Occurs(NamesFrom(msg)[Len(asked)][2], x) = Cardinality(Left(asked, 0, b, x))
<1> DEFINE N == Len(asked)
           Found(k, d) == \A x : Occurs(NamesFrom(msg)[d][Place(asked, k)], x)
                                   = Cardinality(Left(asked, k, b, x))
           S == {d \in Nat : d <= N => \A k \in Nat : k + d = N => Found(k, d)}
<1>0. /\ asked \in Seq(Seq(Seq(Nat))) /\ N \in Nat /\ N <= 32 /\ b \in Nat /\ msg \in Seq(Nat)
      /\ b \in Int
  BY DEF IsQuery, ReadsAs
<1>1. 0 \in S
  <2> SUFFICES ASSUME NEW k \in Nat, k + 0 = N, NEW x
      PROVE  Occurs(NamesFrom(msg)[0][Place(asked, k)], x) = Cardinality(Left(asked, k, b, x))
    OBVIOUS
  <2>1. k = N /\ k <= N
    BY <1>0
  <2>2. Place(asked, k) \in Nat \ {0}
    BY <1>0, <2>1, QueryCells
  <2>3. NamesFrom(msg)[0][Place(asked, k)] = <<>>
    <3>1. 0 \in 0 .. 32
      OBVIOUS
    <3>2. QED
      BY <1>0, <2>2, <3>1, NamesCases
  <2>4. Left(asked, k, b, x) = {}
    <3>1. \A j \in 1 .. N : ~ (j > N)
      BY <1>0
    <3>2. QED
      BY <1>0, <2>1, <3>1, WithinPlace DEF Left
  <2>5. QED
    BY <2>3, <2>4, OccursNone, FS_EmptySet
<1>2. ASSUME NEW d \in Nat, d \in S
      PROVE  d + 1 \in S
  <2> SUFFICES ASSUME d + 1 <= N, NEW k \in Nat, k + (d + 1) = N, NEW x
      PROVE  Occurs(NamesFrom(msg)[d + 1][Place(asked, k)], x) = Cardinality(Left(asked, k, b, x))
    OBVIOUS
  <2> DEFINE o == Place(asked, k)
             after == Place(asked, k + 1)
             q == Labels(msg)[o]
             labels == asked[k + 1]
             rest == NamesFrom(msg)[d][after]
  <2>1. /\ d <= N /\ k + 1 \in Nat /\ (k + 1) + d = N /\ k + 1 <= N /\ d + 1 <= 32 /\ d \in 0 .. 32
        /\ d + 1 \in 0 .. 32 /\ k + 1 \in 1 .. N /\ d + 1 # 0
    BY <1>0
  <2>2. Occurs(rest, x) = Cardinality(Left(asked, k + 1, b, x))
    BY <1>2, <2>1
  <2>3. /\ o \in Nat \ {0} /\ after \in Nat \ {0}
        /\ IF after - 5 <= b THEN q = [labels |-> labels, end |-> "root", off |-> after - 4]
                             ELSE q.end = "cut"
    <3>1. after \in Nat \ {0}
      BY <1>0, <2>1, QueryCells
    <3>2. QED
      BY <2>1, <3>1, QuestionRead
  <2>4. \A j \in 1 .. N : j > k + 1 => after <= Place(asked, j) /\ Place(asked, j) \in Nat
    <3>1. ASSUME NEW j \in 1 .. N, j > k + 1
          PROVE  j \in Nat /\ k + 1 <= j /\ j <= N
      BY <1>0, <2>1, <3>1
    <3>2. QED
      BY <1>0, <2>1, <3>1, PlaceGrows
  <2>5. \A j \in 1 .. N : j > k <=> j = k + 1 \/ j > k + 1
    BY <1>0
  <2>6. Left(asked, k, b, x) = {j \in 1 .. N : asked[j] # <<>> /\ Place(asked, j) - 5 <= b
                                                /\ j > k /\ Name(asked[j]) = x}
    BY <1>0, WithinPlace DEF Left
  <2>7. Left(asked, k + 1, b, x) = {j \in 1 .. N : asked[j] # <<>> /\ Place(asked, j) - 5 <= b
                                                /\ j > k + 1 /\ Name(asked[j]) = x}
    BY <1>0, WithinPlace DEF Left
  <2>8. CASE ~ (after - 5 <= b)
    <3>1. NamesFrom(msg)[d + 1][o] = <<>>
      BY <1>0, <2>1, <2>3, <2>8, NamesCases
    <3>2. \A j \in 1 .. N : j > k => ~ (Place(asked, j) - 5 <= b)
      <4> SUFFICES ASSUME NEW j \in 1 .. N, j > k
          PROVE  ~ (Place(asked, j) - 5 <= b)
        OBVIOUS
      <4>1. after <= Place(asked, j) /\ Place(asked, j) \in Nat
        BY <2>3, <2>4, <2>5
      <4> HIDE DEF after
      <4>2. QED
        BY <1>0, <2>3, <2>8, <4>1
    <3>3. Left(asked, k, b, x) = {}
      BY <2>6, <3>2
    <3>4. QED
      BY <3>1, <3>3, OccursNone, FS_EmptySet
  <2>9. CASE after - 5 <= b
    <3>1. q.end # "cut" /\ q.labels = labels /\ q.off + 4 = after
      <4>1. q.end = "root" /\ q.labels = labels /\ q.off = after - 4
        BY <2>3, <2>9
      <4>2. after \in Nat
        BY <2>3
      <4> HIDE DEF after, q
      <4>3. QED
        BY <4>1, <4>2
    <3>2. NamesFrom(msg)[d + 1][o] = NameIn(q) \o rest /\ NameIn(q) \in Seq(Names)
      <4>1. Labels(msg)[o].end # "cut" /\ o \in Nat \ {0} /\ Labels(msg)[o].off + 4 = after
        BY <2>3, <3>1
      <4> HIDE DEF o, after
      <4>2. /\ NameIn(Labels(msg)[o]) \in Seq(Names)
            /\ NamesFrom(msg)[d + 1][o] = NameIn(Labels(msg)[o]) \o NamesFrom(msg)[d][Labels(msg)[o].off + 4]
        BY <1>0, <2>1, <4>1, NamesNext
      <4>3. QED
        BY <4>1, <4>2
    <3>3. rest \in Seq(Names)
      BY <1>0, <2>1, <2>3, NamesType
    <3>4. CASE labels = <<>>
      <4>1. NamesFrom(msg)[d + 1][o] = rest
        <5>1. NameIn(q) = <<>>
          BY <3>1, <3>4 DEF NameIn
        <5> HIDE DEF rest
        <5>2. <<>> \o rest = rest
          BY <3>3, ConcatEmptySeq
        <5>3. QED
          BY <3>2, <5>1, <5>2
      <4>2. Left(asked, k, b, x) = Left(asked, k + 1, b, x)
        <5> HIDE DEF o, after, q, rest
        <5>1. QED
          BY <2>1, <2>5, <2>6, <2>7, <3>4
      <4>3. QED
        BY <2>2, <4>1, <4>2
    <3>5. CASE labels # <<>>
      <4>1. NamesFrom(msg)[d + 1][o] = <<Name(labels)>> \o rest /\ Name(labels) \in Names
        <5>1. NameIn(q) = <<Name(labels)>>
          BY <3>1, <3>5 DEF NameIn
        <5>2. Name(labels) \in Names
          <6>1. labels \in Seq(Seq(Nat))
            BY <1>0, <2>1
          <6>2. QED
            BY <6>1 DEF Names
        <5>3. QED
          BY <3>2, <5>1, <5>2
      <4>2. /\ Occurs(rest, x) \in Nat
            /\ Occurs(<<Name(labels)>> \o rest, x) = (IF Name(labels) = x THEN 1 ELSE 0) + Occurs(rest, x)
        <5> HIDE DEF rest, labels
        <5>1. QED
          BY <3>3, <4>1, OccursFront
      <4>3. CASE Name(labels) = x
        <5>1. Left(asked, k, b, x) = Left(asked, k + 1, b, x) \cup {k + 1}
          <6> HIDE DEF o, q, rest
          <6>1. QED
            BY <2>1, <2>5, <2>6, <2>7, <2>9, <3>5, <4>3
        <5>2. k + 1 \notin Left(asked, k + 1, b, x)
          <6>1. ~ (k + 1 > k + 1)
            OBVIOUS
          <6>2. QED
            BY <6>1 DEF Left
        <5>3. IsFiniteSet(Left(asked, k + 1, b, x)) /\ Cardinality(Left(asked, k + 1, b, x)) \in Nat
          BY <1>0, LeftFinite
        <5> DEFINE L == Left(asked, k + 1, b, x)
        <5>4. Cardinality(L \cup {k + 1}) = Cardinality(L) + 1
          <6> HIDE DEF L
          <6>1. IsFiniteSet(L) /\ k + 1 \notin L
            BY <5>2, <5>3 DEF L
          <6>2. QED
            BY <6>1, FS_AddElement
        <5>5. Cardinality(Left(asked, k, b, x)) = 1 + Cardinality(L)
          BY <5>1, <5>3, <5>4
        <5> HIDE DEF L
        <5>6. Occurs(NamesFrom(msg)[d + 1][o], x) = 1 + Occurs(rest, x)
          BY <4>1, <4>2, <4>3
        <5>7. QED
          BY <2>2, <5>5, <5>6 DEF L
      <4>4. CASE Name(labels) # x
        <5>1. Left(asked, k, b, x) = Left(asked, k + 1, b, x)
          <6> HIDE DEF o, after, q, rest
          <6>1. QED
            BY <2>1, <2>5, <2>6, <2>7, <4>4
        <5>2. Occurs(NamesFrom(msg)[d + 1][o], x) = 0 + Occurs(rest, x)
          BY <4>1, <4>2, <4>4
        <5>3. 0 + Occurs(rest, x) = Occurs(rest, x)
          BY <4>2
        <5>4. QED
          BY <2>2, <5>1, <5>2, <5>3
      <4>5. QED
        BY <4>3, <4>4
    <3>6. QED
      BY <3>4, <3>5
  <2>10. QED
    BY <2>8, <2>9
<1>3. N \in S
  <2> HIDE DEF S
  <2>1. QED
    BY <1>0, <1>1, <1>2, Induction
<1>4. Found(0, N)
  <2>1. 0 \in Nat /\ 0 + N = N /\ N <= N
    BY <1>0
  <2> HIDE DEF Found
  <2>2. QED
    BY <1>3, <2>1
<1>5. Place(asked, 0) = 2
  BY <1>0, QueryCells
<1>6. QED
  BY <1>4, <1>5

\* dns_names of what was captured of a query.
LEMMA DnsNamesRead ==
  ASSUME NEW asked, IsQuery(asked), NEW msg, NEW b, ReadsAs(msg, EncodeQuery(asked), b)
  PROVE  \A x : Occurs(DnsNames(msg), x) =
                  Cardinality({j \in NamesWithin(asked, b) : Name(asked[j]) = x})
<1> SUFFICES ASSUME NEW x
    PROVE  Occurs(DnsNames(msg), x) = Cardinality({j \in NamesWithin(asked, b) : Name(asked[j]) = x})
  OBVIOUS
<1> DEFINE body == EncodeQuery(asked)
<1>1. /\ asked \in Seq(Seq(Seq(Nat))) /\ Len(asked) \in Nat /\ Len(asked) <= 32
      /\ body \in Seq(Nat) /\ Len(body) \in Nat /\ Len(body) >= 1 /\ body[1] = Len(asked)
  <2>1. asked \in Seq(Seq(Seq(Nat))) /\ Len(asked) <= 32
    BY DEF IsQuery
  <2>2. body \in Seq(Nat) /\ Len(asked) \in Nat /\ Len(body) >= 1 /\ body[1] = Len(asked)
    BY <2>1, QueryCells
  <2>3. Len(body) \in Nat
    BY <2>2
  <2>4. QED
    BY <2>1, <2>2, <2>3
<1>2. /\ msg \in Seq(Nat) /\ b \in Nat /\ b <= Len(body) /\ b <= Len(msg)
      /\ Len(msg) = b \/ b = Len(body)
      /\ \A i \in 1 .. b : msg[i] = body[i]
      /\ Len(msg) \in Nat /\ b \in Int
  BY DEF ReadsAs
<1> HIDE DEF body
<1>3. CASE b = 0
  <2>1. Len(msg) = 0
    BY <1>1, <1>2, <1>3
  <2>2. DnsNames(msg) = <<>>
    BY <1>2, <2>1 DEF DnsNames
  <2>3. NamesWithin(asked, b) = {}
    BY <1>1, <1>2, <1>3, NoneWithin
  <2>4. QED
    BY <2>2, <2>3, OccursNone, FS_EmptySet
<1>4. CASE b # 0
  <2>1. 1 \in 1 .. b /\ 1 <= Len(msg)
    BY <1>2, <1>4
  <2>2. msg[1] = Len(asked) /\ msg # <<>>
    BY <1>1, <1>2, <2>1
  <2>3. CASE Len(asked) = 0
    <3>1. DnsNames(msg) = <<>>
      BY <2>2, <2>3 DEF DnsNames
    <3>2. NamesWithin(asked, b) = {}
      <4>1. \A j \in 1 .. Len(asked) : FALSE
        BY <2>3
      <4>2. QED
        BY <1>1, <1>2, <4>1, WithinPlace
    <3>3. QED
      BY <3>1, <3>2, OccursNone, FS_EmptySet
  <2>4. CASE Len(asked) # 0
    <3>1. Len(asked) \in 1 .. 32
      <4> DEFINE N == Len(asked)
      <4>1. N \in Nat /\ N <= 32 /\ N # 0
        BY <1>1, <2>4
      <4> HIDE DEF N
      <4>2. N \in 1 .. 32
        BY <4>1
      <4>3. QED
        BY <4>2 DEF N
    <3>2. DnsNames(msg) = NamesFrom(msg)[Len(asked)][2]
      BY <2>2, <3>1 DEF DnsNames
    <3>3. Occurs(DnsNames(msg), x) = Cardinality(Left(asked, 0, b, x))
      BY <3>2, NamesRead
    <3>4. Left(asked, 0, b, x) = {j \in NamesWithin(asked, b) : Name(asked[j]) = x}
      <4>1. \A j \in 1 .. Len(asked) : j > 0
        OBVIOUS
      <4>2. QED
        BY <1>1, <1>2, <4>1, WithinPlace DEF Left
    <3>5. QED
      BY <3>3, <3>4
  <2>5. QED
    BY <2>3, <2>4
<1>5. QED
  BY <1>3, <1>4

-----------------------------------------------------------------------------
(***************************************************************************)
(* The encoding of a hello, and tls_sni of what was captured of it.        *)
(***************************************************************************)

\* The cells of a vector.
LEMMA VectorCells ==
  ASSUME NEW s \in Seq(Nat)
  PROVE  /\ Vector(s) \in Seq(Nat) /\ Len(s) \in Nat /\ Len(Vector(s)) = Len(s) + 1
         /\ Vector(s)[1] = Len(s)
         /\ \A i \in 1 .. Len(s) : Vector(s)[i + 1] = s[i]
<1>1. <<Len(s)>> \in Seq(Nat) /\ Len(<<Len(s)>>) = 1 /\ <<Len(s)>>[1] = Len(s) /\ Len(s) \in Nat
  OBVIOUS
<1>2. /\ Vector(s) \in Seq(Nat) /\ Len(Vector(s)) = 1 + Len(s)
      /\ \A i \in 1 .. 1 + Len(s) : Vector(s)[i] = IF i <= 1 THEN <<Len(s)>>[i] ELSE s[i - 1]
  BY <1>1, ConcatProperties DEF Vector
<1>3. 1 \in 1 .. 1 + Len(s) /\ 1 + Len(s) = Len(s) + 1
  BY <1>1
<1>4. \A i \in 1 .. Len(s) : i + 1 \in 1 .. 1 + Len(s) /\ ~ (i + 1 <= 1) /\ (i + 1) - 1 = i
  BY <1>1
<1>5. Vector(s)[1] = Len(s) /\ Len(Vector(s)) = Len(s) + 1
  BY <1>1, <1>2, <1>3
<1>6. \A i \in 1 .. Len(s) : Vector(s)[i + 1] = s[i]
  BY <1>2, <1>4
<1>7. QED
  BY <1>1, <1>2, <1>5, <1>6

\* The cells of what is joined.
LEMMA Joined ==
  ASSUME NEW s \in Seq(Nat), NEW t \in Seq(Nat)
  PROVE  /\ s \o t \in Seq(Nat) /\ Len(s) \in Nat /\ Len(t) \in Nat /\ Len(s \o t) = Len(s) + Len(t)
         /\ \A i \in 1 .. Len(s) : (s \o t)[i] = s[i]
         /\ \A i \in 1 .. Len(t) : (s \o t)[Len(s) + i] = t[i]
<1>1. /\ Len(s) \in Nat /\ Len(t) \in Nat /\ Len(s \o t) = Len(s) + Len(t) /\ s \o t \in Seq(Nat)
      /\ \A i \in 1 .. Len(s) + Len(t) : (s \o t)[i] = IF i <= Len(s) THEN s[i] ELSE t[i - Len(s)]
  BY ConcatProperties
<1>2. \A m, n \in Nat : /\ \A i \in 1 .. m : i \in 1 .. m + n /\ i <= m
                        /\ \A i \in 1 .. n : m + i \in 1 .. m + n /\ ~ (m + i <= m) /\ (m + i) - m = i
  OBVIOUS
<1>3. \A i \in 1 .. Len(s) : (s \o t)[i] = s[i]
  BY <1>1, <1>2
<1>4. \A i \in 1 .. Len(t) : (s \o t)[Len(s) + i] = t[i]
  BY <1>1, <1>2
<1>5. QED
  BY <1>1, <1>3, <1>4

\* What follows when a vector is added to a message.
LEMMA VectorAdded ==
  ASSUME NEW s \in Seq(Nat), NEW v \in Seq(Nat)
  PROVE  /\ s \o Vector(v) \in Seq(Nat) /\ Len(s) \in Nat /\ Len(v) \in Nat
         /\ Len(s \o Vector(v)) = Len(s) + 1 + Len(v)
         /\ \A i \in 1 .. Len(s) : (s \o Vector(v))[i] = s[i]
         /\ (s \o Vector(v))[Len(s) + 1] = Len(v)
         /\ \A i \in 1 .. Len(v) : (s \o Vector(v))[Len(s) + 1 + i] = v[i]
<1> DEFINE w == Vector(v)
<1>1. /\ w \in Seq(Nat) /\ Len(v) \in Nat /\ Len(w) = Len(v) + 1 /\ w[1] = Len(v)
      /\ \A i \in 1 .. Len(v) : w[i + 1] = v[i]
  BY VectorCells
<1> HIDE DEF w
<1>2. /\ s \o w \in Seq(Nat) /\ Len(s) \in Nat /\ Len(s \o w) = Len(s) + Len(w)
      /\ \A i \in 1 .. Len(s) : (s \o w)[i] = s[i]
      /\ \A i \in 1 .. Len(w) : (s \o w)[Len(s) + i] = w[i]
  BY <1>1, Joined
<1>3. Len(s \o w) = Len(s) + 1 + Len(v)
  BY <1>1, <1>2
<1>4. (s \o w)[Len(s) + 1] = Len(v)
  <2>1. 1 \in 1 .. Len(w)
    BY <1>1
  <2>2. QED
    BY <1>1, <1>2, <2>1
<1>5. ASSUME NEW i \in 1 .. Len(v)
      PROVE  (s \o w)[Len(s) + 1 + i] = v[i]
  <2>1. i + 1 \in 1 .. Len(w) /\ Len(s) + 1 + i = Len(s) + (i + 1)
    BY <1>1, <1>2
  <2>2. QED
    BY <1>1, <1>2, <2>1
<1>6. QED
  BY <1>1, <1>2, <1>3, <1>4, <1>5 DEF w

\* The places of the lengths in a hello, and what follows the last of them.
AfterSession(h) == 4 + Len(h.session)
AfterCiphers(h) == AfterSession(h) + 1 + Len(h.ciphers)
Total(h) == AfterCiphers(h) + 1 + Len(h.compression)

\* The cells of an encoded hello up to its extensions.
LEMMA HelloCells ==
  ASSUME NEW h, {h.session, h.ciphers, h.compression} \subseteq Seq(Nat),
         EncodeExtensions(h.extensions) \in Seq(Nat)
  PROVE  LET body == EncodeHello(h)
             exts == EncodeExtensions(h.extensions)
         IN /\ body \in Seq(Nat)
            /\ {Len(h.session), Len(h.ciphers), Len(h.compression), Len(exts)} \subseteq Nat
            /\ body[1] = Handshake /\ body[2] = ClientHello /\ body[3] = Len(h.session)
            /\ body[AfterSession(h)] = Len(h.ciphers)
            /\ body[AfterCiphers(h)] = Len(h.compression)
            /\ body[Total(h)] = Len(exts)
            /\ Len(body) = Total(h) + Len(exts)
            /\ \A i \in 1 .. Len(exts) : body[Total(h) + i] = exts[i]
<1> DEFINE exts == EncodeExtensions(h.extensions)
           a == <<Handshake, ClientHello>>
           b == a \o Vector(h.session)
           c == b \o Vector(h.ciphers)
           d == c \o Vector(h.compression)
           body == d \o Vector(exts)
           x == Len(h.session)
           y == Len(h.ciphers)
           z == Len(h.compression)
           w == Len(exts)
<1>1. EncodeHello(h) = body
  BY DEF EncodeHello
<1>2. a \in Seq(Nat) /\ Len(a) = 2 /\ a[1] = Handshake /\ a[2] = ClientHello
  BY DEF Handshake, ClientHello
<1>3. h.session \in Seq(Nat) /\ h.ciphers \in Seq(Nat) /\ h.compression \in Seq(Nat) /\ exts \in Seq(Nat)
  OBVIOUS
<1> HIDE DEF exts, a, b, c, d, body
<1>4. /\ b \in Seq(Nat) /\ x \in Nat /\ Len(b) = 2 + 1 + x
      /\ b[1] = Handshake /\ b[2] = ClientHello /\ b[2 + 1] = x
  <2>1. 1 \in 1 .. 2 /\ 2 \in 1 .. 2
    OBVIOUS
  <2>2. /\ b \in Seq(Nat) /\ x \in Nat /\ Len(b) = Len(a) + 1 + x
        /\ \A i \in 1 .. Len(a) : b[i] = a[i]
        /\ b[Len(a) + 1] = x
    BY <1>2, <1>3, VectorAdded DEF b
  <2> HIDE DEF x
  <2>3. QED
    BY <1>2, <2>1, <2>2
<1>5. /\ c \in Seq(Nat) /\ y \in Nat /\ Len(c) = Len(b) + 1 + y
      /\ \A i \in 1 .. Len(b) : c[i] = b[i]
      /\ c[Len(b) + 1] = y
  BY <1>3, <1>4, VectorAdded DEF c
<1>6. /\ d \in Seq(Nat) /\ z \in Nat /\ Len(d) = Len(c) + 1 + z
      /\ \A i \in 1 .. Len(c) : d[i] = c[i]
      /\ d[Len(c) + 1] = z
  BY <1>3, <1>5, VectorAdded DEF d
<1>7. /\ body \in Seq(Nat) /\ w \in Nat /\ Len(body) = Len(d) + 1 + w
      /\ \A i \in 1 .. Len(d) : body[i] = d[i]
      /\ body[Len(d) + 1] = w
      /\ \A i \in 1 .. w : body[Len(d) + 1 + i] = exts[i]
  BY <1>3, <1>6, VectorAdded, ZenonT(40) DEF body
<1> HIDE DEF x, y, z, w
<1>8. /\ AfterSession(h) = Len(b) + 1 /\ AfterCiphers(h) = Len(c) + 1 /\ Total(h) = Len(d) + 1
      /\ {Len(b), Len(c), Len(d)} \subseteq Nat /\ Len(b) >= 3
  <2>1. AfterSession(h) = 4 + x
    BY DEF AfterSession, x
  <2>2. AfterCiphers(h) = AfterSession(h) + 1 + y
    BY DEF AfterCiphers, y
  <2>3. Total(h) = AfterCiphers(h) + 1 + z
    BY DEF Total, z
  <2>4. Len(b) = 3 + x /\ Len(c) = 3 + x + 1 + y /\ Len(d) = 3 + x + 1 + y + 1 + z
    BY <1>4, <1>5, <1>6
  <2>5. QED
    BY <1>4, <1>5, <1>6, <2>1, <2>2, <2>3, <2>4
<1>9. /\ {1, 2, 3} \subseteq 1 .. Len(b) /\ {1, 2, 3, Len(b) + 1} \subseteq 1 .. Len(c)
      /\ {1, 2, 3, Len(b) + 1, Len(c) + 1} \subseteq 1 .. Len(d)
  BY <1>4, <1>5, <1>6, <1>8
<1>10. /\ body[1] = Handshake /\ body[2] = ClientHello /\ body[3] = x
       /\ body[Len(b) + 1] = y /\ body[Len(c) + 1] = z
  <2>1. /\ c[1] = b[1] /\ c[2] = b[2] /\ c[3] = b[3] /\ b[3] = x
    BY <1>4, <1>5, <1>9
  <2>2. /\ d[1] = c[1] /\ d[2] = c[2] /\ d[3] = c[3] /\ d[Len(b) + 1] = c[Len(b) + 1]
    BY <1>6, <1>9
  <2>3. /\ body[1] = d[1] /\ body[2] = d[2] /\ body[3] = d[3] /\ body[Len(b) + 1] = d[Len(b) + 1]
        /\ body[Len(c) + 1] = d[Len(c) + 1]
    BY <1>7, <1>9
  <2>4. QED
    BY <1>4, <1>5, <1>6, <2>1, <2>2, <2>3
<1>11. QED
  BY <1>1, <1>4, <1>5, <1>6, <1>7, <1>8, <1>10 DEF x, y, z, w, exts

\* The extensions of a hello one by one, and where the one after the first k begins.
Units(exts) == [i \in DOMAIN exts |-> <<exts[i].type>> \o Vector(exts[i].data)]
Behind(h, k) == Total(h) + Len(Flat(Units(h.extensions), k)) + 1

\* The extensions are sequences of numbers.
LEMMA UnitsType ==
  ASSUME NEW exts \in Seq([type : Nat, data : Seq(Nat)])
  PROVE  /\ Units(exts) \in Seq(Seq(Nat)) /\ Len(Units(exts)) = Len(exts) /\ Len(exts) \in Nat
         /\ \A i \in 1 .. Len(exts) :
              LET data == exts[i].data IN
              /\ exts[i].type \in Nat /\ data \in Seq(Nat) /\ Len(data) \in Nat
              /\ Units(exts)[i] = <<exts[i].type>> \o Vector(data)
              /\ Len(Units(exts)[i]) = 2 + Len(data)
              /\ Units(exts)[i][1] = exts[i].type
              /\ Units(exts)[i][2] = Len(data)
              /\ \A j \in 1 .. Len(data) : Units(exts)[i][2 + j] = data[j]
<1>1. Len(exts) \in Nat /\ DOMAIN exts = 1 .. Len(exts)
  OBVIOUS
<1>2. ASSUME NEW i \in 1 .. Len(exts)
      PROVE  LET data == exts[i].data
                 unit == <<exts[i].type>> \o Vector(data)
             IN /\ exts[i].type \in Nat /\ data \in Seq(Nat) /\ Len(data) \in Nat
                /\ unit \in Seq(Nat) /\ Len(unit) = 2 + Len(data)
                /\ unit[1] = exts[i].type /\ unit[2] = Len(data)
                /\ \A j \in 1 .. Len(data) : unit[2 + j] = data[j]
  <2> DEFINE data == exts[i].data
             type == exts[i].type
             unit == <<type>> \o Vector(data)
  <2>1. type \in Nat /\ data \in Seq(Nat)
    <3>1. exts[i] \in [type : Nat, data : Seq(Nat)]
      BY <1>1, ElementOfSeq
    <3>2. QED
      BY <3>1
  <2> HIDE DEF data, type
  <2>2. <<type>> \in Seq(Nat) /\ Len(<<type>>) = 1 /\ <<type>>[1] = type /\ 1 \in 1 .. 1
    BY <2>1
  <2>3. /\ unit \in Seq(Nat) /\ Len(data) \in Nat
        /\ Len(unit) = 1 + 1 + Len(data)
        /\ \A j \in 1 .. 1 : unit[j] = <<type>>[j]
        /\ unit[1 + 1] = Len(data)
        /\ \A j \in 1 .. Len(data) : unit[1 + 1 + j] = data[j]
    <3>1. /\ unit \in Seq(Nat) /\ Len(data) \in Nat
          /\ Len(unit) = Len(<<type>>) + 1 + Len(data)
          /\ \A j \in 1 .. Len(<<type>>) : unit[j] = <<type>>[j]
          /\ unit[Len(<<type>>) + 1] = Len(data)
          /\ \A j \in 1 .. Len(data) : unit[Len(<<type>>) + 1 + j] = data[j]
      BY <2>1, <2>2, VectorAdded
    <3> HIDE DEF unit
    <3>2. QED
      BY <2>2, <3>1
  <2> HIDE DEF unit
  <2>4. unit[1] = type /\ unit[2] = Len(data) /\ Len(unit) = 2 + Len(data)
    BY <2>2, <2>3
  <2>5. \A j \in 1 .. Len(data) : unit[2 + j] = data[j]
    <3>1. 1 + 1 = 2
      OBVIOUS
    <3>2. QED
      BY <2>3, <3>1
  <2>6. QED
    BY <2>1, <2>3, <2>4, <2>5 DEF unit, type, data
<1>3. Units(exts) = [i \in 1 .. Len(exts) |-> <<exts[i].type>> \o Vector(exts[i].data)]
  BY <1>1 DEF Units
<1>4. Units(exts) \in Seq(Seq(Nat)) /\ Len(Units(exts)) = Len(exts)
  <2>1. Units(exts) \in [1 .. Len(exts) -> Seq(Nat)]
    BY <1>2, <1>3
  <2>2. ASSUME NEW X, NEW n \in Nat, NEW f \in [1 .. n -> X]
        PROVE  f \in Seq(X) /\ Len(f) = n
    OBVIOUS
  <2>3. QED
    BY <1>1, <2>1, <2>2
<1>5. \A i \in 1 .. Len(exts) : Units(exts)[i] = <<exts[i].type>> \o Vector(exts[i].data)
  BY <1>3
<1>6. QED
  BY <1>1, <1>2, <1>4, <1>5

\* What IsHello says of a hello.
LEMMA HelloType ==
  ASSUME NEW h, IsHello(h)
  PROVE  /\ h.extensions \in Seq([type : Nat, data : Seq(Nat)]) /\ Len(h.extensions) \in Nat
         /\ DOMAIN h.extensions = 1 .. Len(h.extensions)
         /\ {h.session, h.ciphers, h.compression} \subseteq Seq(Nat)
         /\ EncodeExtensions(h.extensions) = FlattenSeq(Units(h.extensions))
         /\ EncodeExtensions(h.extensions) \in Seq(Nat)
<1>1. h.extensions \in Seq([type : Nat, data : Seq(Nat)])
  BY DEF IsHello
<1>2. EncodeExtensions(h.extensions) = FlattenSeq(Units(h.extensions))
  BY DEF EncodeExtensions, Units
<1>3. FlattenSeq(Units(h.extensions)) \in Seq(Nat)
  BY <1>1, UnitsType, FlattenCells
<1>4. QED
  BY <1>1, <1>2, <1>3 DEF IsHello

\* The cells of an encoded hello, extension by extension.
LEMMA ExtensionCells ==
  ASSUME NEW h, IsHello(h)
  PROVE  LET body == EncodeHello(h)
             N == Len(h.extensions)
         IN /\ body \in Seq(Nat) /\ Len(body) \in Nat /\ Total(h) \in Nat /\ Total(h) >= 6
            /\ Behind(h, 0) = Total(h) + 1 /\ Behind(h, N) = Len(body) + 1
            /\ Total(h) + body[Total(h)] = Len(body)
            /\ \A k \in Nat : k <= N =>
                 Behind(h, k) \in Nat \ {0} /\ Total(h) < Behind(h, k) /\ Behind(h, k) <= Len(body) + 1
            /\ \A k \in Nat : k + 1 <= N =>
                 LET ext == h.extensions[k + 1] IN
                 /\ ext.type \in Nat /\ ext.data \in Seq(Nat) /\ Len(ext.data) \in Nat
                 /\ Behind(h, k + 1) = Behind(h, k) + 2 + Len(ext.data)
                 /\ body[Behind(h, k)] = ext.type
                 /\ body[Behind(h, k) + 1] = Len(ext.data)
                 /\ \A i \in 1 .. Len(ext.data) : body[Behind(h, k) + 1 + i] = ext.data[i]
<1> DEFINE body == EncodeHello(h)
           N == Len(h.extensions)
           seqs == Units(h.extensions)
           exts == EncodeExtensions(h.extensions)
           t == Total(h)
           L(k) == Len(Flat(seqs, k))
<1>1. /\ body \in Seq(Nat) /\ Len(exts) \in Nat /\ Len(body) = t + Len(exts) /\ body[t] = Len(exts)
      /\ \A i \in 1 .. Len(exts) : body[t + i] = exts[i]
      /\ {Len(h.session), Len(h.ciphers), Len(h.compression)} \subseteq Nat
  BY HelloType, HelloCells
<1>2. t \in Nat /\ t >= 6
  <2> DEFINE x == Len(h.session)
             y == Len(h.ciphers)
             z == Len(h.compression)
  <2>1. x \in Nat /\ y \in Nat /\ z \in Nat /\ t = 4 + x + 1 + y + 1 + z
    BY <1>1 DEF Total, AfterCiphers, AfterSession
  <2> HIDE DEF x, y, z, t
  <2>2. QED
    BY <2>1
<1>3. /\ seqs \in Seq(Seq(Nat)) /\ Len(seqs) = N /\ N \in Nat
      /\ \A i \in 1 .. N :
           LET data == h.extensions[i].data IN
           /\ h.extensions[i].type \in Nat /\ data \in Seq(Nat) /\ Len(data) \in Nat
           /\ Len(seqs[i]) = 2 + Len(data)
           /\ seqs[i][1] = h.extensions[i].type
           /\ seqs[i][2] = Len(data)
           /\ \A j \in 1 .. Len(data) : seqs[i][2 + j] = data[j]
  <2> DEFINE e == h.extensions
  <2>1. e \in Seq([type : Nat, data : Seq(Nat)])
    BY HelloType
  <2> HIDE DEF e
  <2>2. /\ Units(e) \in Seq(Seq(Nat)) /\ Len(Units(e)) = Len(e) /\ Len(e) \in Nat
        /\ \A i \in 1 .. Len(e) :
             LET data == e[i].data IN
             /\ e[i].type \in Nat /\ data \in Seq(Nat) /\ Len(data) \in Nat
             /\ Units(e)[i] = <<e[i].type>> \o Vector(data)
             /\ Len(Units(e)[i]) = 2 + Len(data)
             /\ Units(e)[i][1] = e[i].type
             /\ Units(e)[i][2] = Len(data)
             /\ \A j \in 1 .. Len(data) : Units(e)[i][2 + j] = data[j]
    BY <2>1, UnitsType
  <2>3. QED
    BY <2>2 DEF e
<1>4. exts = FlattenSeq(seqs) /\ \A k : Behind(h, k) = t + L(k) + 1
  BY HelloType DEF Behind
<1> HIDE DEF seqs, exts, body, t
<1>5. /\ L(N) = Len(exts) /\ L(0) = 0
      /\ \A m \in Nat : m <= N => L(m) \in Nat /\ L(m) <= Len(exts)
      /\ \A m \in Nat : m + 1 <= N =>
           /\ L(m + 1) = L(m) + Len(seqs[m + 1])
           /\ \A i \in 1 .. Len(seqs[m + 1]) : exts[L(m) + i] = seqs[m + 1][i]
  <2>1. /\ FlattenSeq(seqs) = Flat(seqs, Len(seqs))
        /\ Flat(seqs, 0) = <<>>
        /\ \A m \in Nat : m <= Len(seqs) =>
             Len(Flat(seqs, m)) \in Nat /\ Len(Flat(seqs, m)) <= Len(FlattenSeq(seqs))
        /\ \A m \in Nat : m + 1 <= Len(seqs) =>
             /\ Len(Flat(seqs, m + 1)) = Len(Flat(seqs, m)) + Len(seqs[m + 1])
             /\ \A i \in 1 .. Len(seqs[m + 1]) :
                  FlattenSeq(seqs)[Len(Flat(seqs, m)) + i] = seqs[m + 1][i]
    BY <1>3, FlattenCells
  <2>2. Len(<<>>) = 0
    OBVIOUS
  <2> HIDE DEF N
  <2>3. QED
    BY <1>3, <1>4, <2>1, <2>2
<1> HIDE DEF L, N
<1>6. Behind(h, 0) = t + 1 /\ Behind(h, N) = Len(body) + 1 /\ t + body[t] = Len(body) /\ Len(body) \in Nat
  <2>1. Behind(h, 0) = t + 0 + 1 /\ Behind(h, N) = t + Len(exts) + 1
    BY <1>4, <1>5
  <2>2. QED
    BY <1>1, <1>2, <2>1
<1>7. ASSUME NEW k \in Nat, k <= N
      PROVE  Behind(h, k) \in Nat \ {0} /\ t < Behind(h, k) /\ Behind(h, k) <= Len(body) + 1
  <2>1. L(k) \in Nat /\ L(k) <= Len(exts) /\ Behind(h, k) = t + L(k) + 1 /\ Len(body) = t + Len(exts)
        /\ Len(exts) \in Nat /\ t \in Nat
    BY <1>1, <1>2, <1>4, <1>5, <1>7
  <2>2. QED
    BY <2>1
<1>8. ASSUME NEW k \in Nat, k + 1 <= N
      PROVE  LET ext == h.extensions[k + 1] IN
             /\ ext.type \in Nat /\ ext.data \in Seq(Nat) /\ Len(ext.data) \in Nat
             /\ Behind(h, k + 1) = Behind(h, k) + 2 + Len(ext.data)
             /\ body[Behind(h, k)] = ext.type
             /\ body[Behind(h, k) + 1] = Len(ext.data)
             /\ \A i \in 1 .. Len(ext.data) : body[Behind(h, k) + 1 + i] = ext.data[i]
  <2> DEFINE type == h.extensions[k + 1].type
             data == h.extensions[k + 1].data
             unit == seqs[k + 1]
             o == Behind(h, k)
  <2>1. k + 1 \in 1 .. N /\ k <= N /\ k + 1 \in Nat
    BY <1>3, <1>8
  <2>2. /\ type \in Nat /\ data \in Seq(Nat) /\ Len(data) \in Nat
        /\ Len(unit) = 2 + Len(data) /\ unit[1] = type /\ unit[2] = Len(data)
        /\ \A j \in 1 .. Len(data) : unit[2 + j] = data[j]
    BY <1>3, <2>1
  <2>3. /\ L(k) \in Nat /\ L(k + 1) = L(k) + Len(unit) /\ L(k + 1) <= Len(exts)
        /\ \A i \in 1 .. Len(unit) : exts[L(k) + i] = unit[i]
    BY <1>5, <1>8, <2>1
  <2>4. o = t + L(k) + 1 /\ Behind(h, k + 1) = t + L(k + 1) + 1
    BY <1>4
  <2> HIDE DEF type, data, unit, o
  <2>5. ASSUME NEW i \in 1 .. Len(unit)
        PROVE  body[o + (i - 1)] = unit[i]
    <3>1. /\ Len(exts) \in Nat /\ L(k) \in Nat /\ Len(unit) \in Nat /\ L(k) + Len(unit) <= Len(exts)
          /\ t \in Nat /\ o = t + L(k) + 1
      BY <1>1, <1>2, <2>2, <2>3, <2>4
    <3>2. L(k) + i \in 1 .. Len(exts) /\ o + (i - 1) = t + (L(k) + i)
      BY <3>1
    <3>3. QED
      BY <1>1, <2>3, <3>2
  <2>6. o \in Nat /\ 1 \in 1 .. Len(unit) /\ 2 \in 1 .. Len(unit) /\ o + (1 - 1) = o /\ o + (2 - 1) = o + 1
    BY <1>2, <2>2, <2>3, <2>4, SMTT(30)
  <2>7. body[o] = type /\ body[o + 1] = Len(data)
    BY <2>2, <2>5, <2>6
  <2>8. ASSUME NEW i \in 1 .. Len(data)
        PROVE  body[o + 1 + i] = data[i]
    <3>1. 2 + i \in 1 .. Len(unit) /\ o + ((2 + i) - 1) = o + 1 + i
      BY <2>2, <2>6
    <3>2. QED
      BY <2>2, <2>5, <3>1
  <2>9. Behind(h, k + 1) = o + 2 + Len(data)
    BY <1>2, <2>2, <2>3, <2>4
  <2>10. QED
    BY <2>2, <2>7, <2>8, <2>9 DEF type, data, o
<1>9. QED
  BY <1>1, <1>2, <1>6, <1>7, <1>8 DEF body, t, N

\* The extensions stand one behind the other.
LEMMA BehindGrows ==
  ASSUME NEW h, IsHello(h), NEW k \in Nat, NEW j \in Nat, k <= j, j <= Len(h.extensions)
  PROVE  Behind(h, k) \in Nat /\ Behind(h, j) \in Nat /\ Behind(h, k) <= Behind(h, j)
<1> DEFINE seqs == Units(h.extensions)
           N == Len(h.extensions)
           u == Len(Flat(seqs, k))
           v == Len(Flat(seqs, j))
<1>1. seqs \in Seq(Seq(Nat)) /\ Len(seqs) = N /\ N \in Nat
  BY HelloType, UnitsType
<1>2. Total(h) \in Nat
  BY ExtensionCells
<1> HIDE DEF seqs, N
<1>3. j - k \in Nat /\ k + (j - k) = j /\ j + 0 = j /\ j <= N
  BY DEF N
<1>4. u \in Nat /\ v \in Nat /\ u <= v
  <2>1. v \in Nat
    BY <1>1, <1>3, FlatPrefix
  <2>2. u \in Nat /\ u <= v
    <3>1. Len(Flat(seqs, k)) \in Nat /\ Len(Flat(seqs, k)) <= Len(Flat(seqs, k + (j - k)))
      BY <1>1, <1>3, FlatPrefix, ZenonT(40)
    <3>2. QED
      BY <1>3, <3>1
  <2>3. QED
    BY <2>1, <2>2
<1>5. Behind(h, k) = Total(h) + u + 1 /\ Behind(h, j) = Total(h) + v + 1
  BY DEF Behind, seqs
<1> HIDE DEF u, v
<1>6. QED
  BY <1>2, <1>4, <1>5

\* The name in the j-th extension of a hello, and the first one after the k-th that has any.
Wanted(h, j) == Decode(SubSeq(h.extensions[j].data, 4, Len(h.extensions[j].data)))
Named(h, j) == h.extensions[j].type = ServerName
FirstAfter(h, k, j) ==
  /\ j \in 1 .. Len(h.extensions) /\ j > k /\ Named(h, j)
  /\ \A i \in 1 .. Len(h.extensions) : i > k /\ i < j => ~ Named(h, i)

\* A server_name extension is a whole host_name.
LEMMA HostNameIs ==
  ASSUME NEW name \in Seq(Nat), NEW data, data = NameExtension(name).data
  PROVE  HostName(data) = Decode(SubSeq(data, 4, Len(data)))
<1>1. data = <<Len(name) + 2, 0, Len(name)>> \o name
  BY DEF NameExtension
<1>2. /\ <<Len(name) + 2, 0, Len(name)>> \in Seq(Nat) /\ Len(name) \in Nat
      /\ Len(<<Len(name) + 2, 0, Len(name)>>) = 3
      /\ <<Len(name) + 2, 0, Len(name)>>[2] = 0 /\ <<Len(name) + 2, 0, Len(name)>>[3] = Len(name)
      /\ 2 \in 1 .. 3 /\ 3 \in 1 .. 3
  OBVIOUS
<1> DEFINE a == <<Len(name) + 2, 0, Len(name)>>
<1> HIDE DEF a
<1>3. a \in Seq(Nat) /\ Len(a) = 3 /\ a[2] = 0 /\ a[3] = Len(name) /\ data = a \o name
  BY <1>1, <1>2 DEF a
<1>4. /\ Len(a \o name) = Len(a) + Len(name)
      /\ \A i \in 1 .. Len(a) : (a \o name)[i] = a[i]
  BY <1>3, Joined
<1>5. Len(data) = 3 + Len(name) /\ data[2] = 0 /\ data[3] = Len(name)
  BY <1>2, <1>3, <1>4
<1>6. Len(data) >= 3 /\ 3 + data[3] <= Len(data) /\ 3 + data[3] = Len(data)
  BY <1>2, <1>5
<1>7. QED
  BY <1>5, <1>6 DEF HostName

\* The loop of tls_sni finds the first name, if the extension it is in ends where it may.
LEMMA ExtensionsRead ==
  ASSUME NEW h, IsHello(h), NEW msg \in Seq(Nat), NEW b \in 0 .. Len(msg),
         b <= Len(EncodeHello(h)), \A i \in 1 .. b : msg[i] = EncodeHello(h)[i]
  PROVE  LET read == Extensions(msg, b)[Total(h) + 1] IN
         /\ \A j : FirstAfter(h, 0, j) /\ Behind(h, j) - 1 <= b => read = Wanted(h, j)
         /\ (\A j : FirstAfter(h, 0, j) => ~ (Behind(h, j) - 1 <= b)) => read = None
<1> DEFINE N == Len(h.extensions)
           body == EncodeHello(h)
           Read(k) == Extensions(msg, b)[Behind(h, k)]
           Right(k) == /\ \A j : FirstAfter(h, k, j) /\ Behind(h, j) - 1 <= b => Read(k) = Wanted(h, j)
                       /\ (\A j : FirstAfter(h, k, j) => ~ (Behind(h, j) - 1 <= b)) => Read(k) = None
           S == {d \in Nat : d <= N => \A k \in Nat : k + d = N => Right(k)}
<1>1. /\ N \in Nat /\ body \in Seq(Nat) /\ Len(body) \in Nat
      /\ Behind(h, 0) = Total(h) + 1 /\ Behind(h, N) = Len(body) + 1
      /\ b \in Nat /\ b <= Len(msg) /\ Len(msg) \in Nat /\ b <= Len(body)
      /\ \A i \in 1 .. b : msg[i] = body[i]
  BY HelloType, ExtensionCells
<1>2. /\ \A k \in Nat : k <= N => Behind(h, k) \in Nat \ {0} /\ Behind(h, k) <= Len(body) + 1
      /\ \A k \in Nat : k + 1 <= N =>
           LET ext == h.extensions[k + 1] IN
           /\ ext.type \in Nat /\ ext.data \in Seq(Nat) /\ Len(ext.data) \in Nat
           /\ Behind(h, k + 1) = Behind(h, k) + 2 + Len(ext.data)
           /\ body[Behind(h, k)] = ext.type
           /\ body[Behind(h, k) + 1] = Len(ext.data)
           /\ \A i \in 1 .. Len(ext.data) : body[Behind(h, k) + 1 + i] = ext.data[i]
  BY ExtensionCells
<1> HIDE DEF body
<1>3. 0 \in S
  <2> SUFFICES ASSUME NEW k \in Nat, k + 0 = N
      PROVE  Right(k)
    OBVIOUS
  <2>1. k = N
    BY <1>1
  <2>2. Behind(h, N) + 1 > b /\ Behind(h, N) \in Nat \ {0}
    BY <1>1
  <2>3. Read(k) = None
    BY <2>1, <2>2, ExtensionsCases
  <2>4. \A j : ~ FirstAfter(h, k, j)
    <3>1. \A j \in 1 .. N : ~ (j > N)
      BY <1>1
    <3>2. QED
      BY <2>1, <3>1 DEF FirstAfter
  <2> HIDE DEF Read
  <2>5. QED
    BY <2>3, <2>4
<1>4. ASSUME NEW d \in Nat, d \in S
      PROVE  d + 1 \in S
  <2> SUFFICES ASSUME d + 1 <= N, NEW k \in Nat, k + (d + 1) = N
      PROVE  Right(k)
    OBVIOUS
  <2> DEFINE o == Behind(h, k)
             after == Behind(h, k + 1)
             type == h.extensions[k + 1].type
             data == h.extensions[k + 1].data
  <2>1. d <= N /\ k + 1 \in Nat /\ (k + 1) + d = N /\ k + 1 <= N /\ k <= N /\ k + 1 \in 1 .. N
    BY <1>1
  <2>2. Right(k + 1)
    BY <1>4, <2>1
  <2>3. /\ o \in Nat \ {0} /\ after \in Nat \ {0}
        /\ type \in Nat /\ data \in Seq(Nat) /\ Len(data) \in Nat
        /\ after = o + 2 + Len(data)
        /\ body[o] = type /\ body[o + 1] = Len(data)
        /\ \A i \in 1 .. Len(data) : body[o + 1 + i] = data[i]
    BY <1>2, <2>1
  <2>4. \A j \in 1 .. N : j > k => j = k + 1 \/ j > k + 1
    BY <1>1, SMTT(30)
  <2> HIDE DEF o, after, type, data, Right
  <2>5. CASE after - 1 > b
    <3>1. Read(k) = None
      <4>1. CASE o + 1 > b
        BY <2>3, <4>1, ExtensionsCases DEF o
      <4>2. CASE ~ (o + 1 > b)
        <5>1. o \in 1 .. b /\ o + 1 \in 1 .. b
          BY <1>1, <2>3, <4>2
        <5>2. msg[o + 1] = Len(data)
          BY <1>1, <2>3, <5>1
        <5>3. o + 1 + msg[o + 1] > b
          BY <1>1, <2>3, <2>5, <5>2
        <5>4. QED
          BY <2>3, <4>2, <5>3, ExtensionsCases DEF o
      <4>3. QED
        BY <4>1, <4>2
    <3>2. \A j : FirstAfter(h, k, j) => ~ (Behind(h, j) - 1 <= b)
      <4> SUFFICES ASSUME NEW j \in 1 .. N, j > k
          PROVE  ~ (Behind(h, j) - 1 <= b)
        BY DEF FirstAfter
      <4>1. k + 1 <= j /\ j \in Nat /\ j <= N
        BY <1>1, <2>1
      <4>2. after <= Behind(h, j) /\ Behind(h, j) \in Nat
        BY <2>1, <4>1, BehindGrows DEF after
      <4>3. QED
        BY <1>1, <2>3, <2>5, <4>2
    <3> HIDE DEF Read
    <3>3. QED
      BY <3>1, <3>2 DEF Right
  <2>6. CASE ~ (after - 1 > b)
    <3>1. o \in 1 .. b /\ o + 1 \in 1 .. b /\ ~ (o + 1 > b) /\ o + 1 + Len(data) <= b
      BY <1>1, <2>3, <2>6
    <3>2. msg[o] = type /\ msg[o + 1] = Len(data)
      BY <1>1, <2>3, <3>1
    <3>3. Read(k) = IF type = ServerName THEN HostName(SubSeq(msg, o + 2, o + 1 + Len(data)))
                    ELSE Extensions(msg, b)[o + 2 + Len(data)]
      <4>1. ~ (o + 1 + msg[o + 1] > b)
        BY <1>1, <2>3, <3>1, <3>2
      <4>2. Read(k) = IF msg[o] = ServerName THEN HostName(SubSeq(msg, o + 2, o + 1 + msg[o + 1]))
                      ELSE Extensions(msg, b)[o + 2 + msg[o + 1]]
        BY <2>3, <3>1, <4>1, ExtensionsCases DEF o
      <4>3. QED
        BY <3>2, <4>2
    <3>4. CASE type = ServerName
      <4>1. SubSeq(msg, o + 2, o + 1 + Len(data)) = data
        <5> DEFINE s == SubSeq(msg, o + 2, o + 1 + Len(data))
        <5>1. o + 2 \in Int /\ o + 1 + Len(data) \in Int
          BY <2>3
        <5>2. ASSUME NEW i \in o + 2 .. o + 1 + Len(data)
              PROVE  msg[i] \in Nat
          <6>1. i \in 1 .. Len(msg)
            BY <1>1, <2>3, <3>1
          <6>2. QED
            BY <6>1
        <5>3. /\ s \in Seq(Nat)
              /\ Len(s) = (IF o + 2 <= o + 1 + Len(data) THEN (o + 1 + Len(data)) - (o + 2) + 1 ELSE 0)
              /\ \A i \in 1 .. (o + 1 + Len(data)) - (o + 2) + 1 : s[i] = msg[(o + 2) + i - 1]
          BY <5>1, <5>2, SubSeqProperties, SMTT(30)
        <5> HIDE DEF s
        <5>4. Len(s) = Len(data)
          BY <2>3, <5>3
        <5>5. ASSUME NEW i \in 1 .. Len(s)
              PROVE  s[i] = data[i]
          <6>1. i \in 1 .. (o + 1 + Len(data)) - (o + 2) + 1 /\ (o + 2) + i - 1 = o + 1 + i /\ i \in 1 .. Len(data)
            BY <2>3, <5>4
          <6>2. o + 1 + i \in 1 .. b
            BY <1>1, <2>3, <3>1, <6>1
          <6>3. QED
            BY <1>1, <2>3, <5>3, <6>1, <6>2
        <5>6. QED
          BY <2>3, <5>3, <5>4, <5>5, SeqEqual DEF s
      <4>2. HostName(data) = Wanted(h, k + 1)
        <5> DEFINE name == SubSeq(data, 4, Len(data))
        <5>1. name \in Seq(Nat)
          <6>1. \A i \in 4 .. Len(data) : data[i] \in Nat
            <7>1. \A i \in 4 .. Len(data) : i \in 1 .. Len(data)
              BY <2>3
            <7>2. \A i \in 1 .. Len(data) : data[i] \in Nat
              <8>1. data \in Seq(Nat)
                BY <2>3
              <8>2. QED
                BY <8>1, ElementOfSeq
            <7>3. QED
              BY <7>1, <7>2
          <6>2. QED
            BY <2>3, <6>1, SubSeqProperties
        <5>2. data = NameExtension(name).data
          BY <2>1, <3>4, HelloType DEF IsHello, data, type
        <5>3. HostName(data) = Decode(SubSeq(data, 4, Len(data)))
          BY <5>1, <5>2, HostNameIs
        <5>4. QED
          BY <5>3 DEF Wanted, data
      <4>3. Read(k) = Wanted(h, k + 1)
        BY <3>3, <3>4, <4>1, <4>2
      <4>4. \A j : FirstAfter(h, k, j) => j = k + 1
        <5>1. Named(h, k + 1) /\ k + 1 > k
          BY <3>4 DEF Named, type
        <5>2. \A j \in 1 .. N : j > k + 1 => k + 1 < j
          BY <1>1
        <5>3. QED
          BY <2>1, <2>4, <5>1, <5>2 DEF FirstAfter
      <4>5. FirstAfter(h, k, k + 1)
        <5>1. \A i \in 1 .. N : ~ (i > k /\ i < k + 1)
          BY <1>1
        <5>2. k + 1 > k
          OBVIOUS
        <5>3. QED
          BY <2>1, <3>4, <5>1, <5>2 DEF FirstAfter, Named, type
      <4>6. after - 1 <= b
        BY <1>1, <2>3, <2>6
      <4> HIDE DEF Read
      <4>7. QED
        BY <4>3, <4>4, <4>5, <4>6 DEF Right, after
    <3>5. CASE type # ServerName
      <4>1. Read(k) = Read(k + 1)
        BY <2>3, <3>3, <3>5 DEF after
      <4>2. ASSUME NEW j
            PROVE  FirstAfter(h, k, j) <=> FirstAfter(h, k + 1, j)
        <5>1. ~ Named(h, k + 1)
          BY <3>5 DEF Named, type
        <5>2. \A i \in 1 .. N : i > k <=> i = k + 1 \/ i > k + 1
          BY <1>1
        <5>3. QED
          BY <5>1, <5>2 DEF FirstAfter
      <4> HIDE DEF Read
      <4>3. QED
        BY <2>2, <4>1, <4>2 DEF Right
    <3>6. QED
      BY <3>4, <3>5
  <2>7. QED
    BY <2>5, <2>6
<1>5. N \in S
  <2> HIDE DEF S
  <2>1. QED
    BY <1>1, <1>3, <1>4, Induction
<1>6. Right(0)
  <2>1. 0 \in Nat /\ 0 + N = N /\ N <= N
    BY <1>1
  <2> HIDE DEF Right
  <2>2. QED
    BY <1>5, <2>1
<1>7. QED
  BY <1>1, <1>6

\* Where the k-th extension of a hello ends.
LEMMA HeadLength ==
  ASSUME NEW h, IsHello(h), NEW k \in 1 .. Len(h.extensions)
  PROVE  Len(EncodeHello([session |-> h.session, ciphers |-> h.ciphers, compression |-> h.compression,
                          extensions |-> SubSeq(h.extensions, 1, k)])) = Behind(h, k) - 1
<1> DEFINE e == h.extensions
           some == SubSeq(e, 1, k)
           g == [session |-> h.session, ciphers |-> h.ciphers, compression |-> h.compression,
                 extensions |-> some]
           t == SubSeq(Units(e), 1, k)
<1>1. /\ e \in Seq([type : Nat, data : Seq(Nat)]) /\ Len(e) \in Nat
      /\ k \in Nat /\ k >= 1 /\ k <= Len(e) /\ DOMAIN e = 1 .. Len(e)
      /\ {h.session, h.ciphers, h.compression} \subseteq Seq(Nat)
  BY HelloType
<1> DEFINE X == [type : Nat, data : Seq(Nat)]
<1>2. some \in Seq(X) /\ Len(some) = k /\ \A i \in 1 .. k : some[i] = e[i]
  <2>0. e \in Seq(X)
    BY <1>1
  <2> HIDE DEF X, e
  <2>1. QED
    BY <1>1, <2>0
<1>3. Units(e) \in Seq(Seq(Nat)) /\ Len(Units(e)) = Len(e)
  BY <1>1, UnitsType
<1>4. t \in Seq(Seq(Nat)) /\ Len(t) = k /\ \A i \in 1 .. k : t[i] = Units(e)[i]
  <2> HIDE DEF e
  <2>1. QED
    BY <1>1, <1>3
<1>5. Units(some) \in Seq(Seq(Nat)) /\ Len(Units(some)) = k
  BY <1>2, UnitsType
<1> HIDE DEF e, some, t
<1>6. Units(some) = t
  <2>1. DOMAIN some = 1 .. k
    BY <1>1, <1>2
  <2>2. \A i \in 1 .. k : i \in DOMAIN e /\ i \in DOMAIN some
    BY <1>1, <2>1
  <2>3. \A i \in 1 .. k : Units(some)[i] = Units(e)[i]
    BY <1>2, <2>2 DEF Units
  <2>4. \A i \in 1 .. Len(Units(some)) : Units(some)[i] = t[i]
    BY <1>4, <1>5, <2>3
  <2>5. QED
    BY <1>4, <1>5, <2>4, SeqEqual
<1>7. EncodeExtensions(some) = Flat(Units(e), k)
  BY <1>6 DEF EncodeExtensions, Units, Flat, t
<1>8. Flat(Units(e), k) \in Seq(Nat)
  BY <1>1, <1>3, FlatType
<1> DEFINE f == Flat(Units(e), k)
<1>9. g.session = h.session /\ g.ciphers = h.ciphers /\ g.compression = h.compression /\ g.extensions = some
  OBVIOUS
<1> HIDE DEF g
<1>10. Total(g) = Total(h)
  BY <1>9 DEF Total, AfterCiphers, AfterSession
<1>11. Len(EncodeHello(g)) = Total(g) + Len(EncodeExtensions(g.extensions))
  <2>1. {g.session, g.ciphers, g.compression} \subseteq Seq(Nat)
    BY <1>1, <1>9
  <2>2. EncodeExtensions(g.extensions) \in Seq(Nat)
    BY <1>7, <1>8, <1>9
  <2>3. QED
    BY <2>1, <2>2, HelloCells
<1>12. Len(EncodeHello(g)) = Total(h) + Len(f)
  BY <1>7, <1>9, <1>10, <1>11
<1>13. Behind(h, k) = Total(h) + Len(f) + 1
  BY DEF Behind, e
<1>14. Total(h) \in Nat /\ Len(f) \in Nat
  BY <1>8, ExtensionCells
<1> HIDE DEF f
<1>15. Len(EncodeHello(g)) = Behind(h, k) - 1
  BY <1>12, <1>13, <1>14
<1>16. QED
  BY <1>15 DEF g, some, e

\* The name in the first server_name extension of a hello, if that ends within n cells.
LEMMA NameWithinIs ==
  ASSUME NEW h, IsHello(h), NEW n
  PROVE  /\ \A j : FirstAfter(h, 0, j) /\ Behind(h, j) - 1 <= n => NameWithin(h, n) = Wanted(h, j)
         /\ (\A j : FirstAfter(h, 0, j) => ~ (Behind(h, j) - 1 <= n)) => NameWithin(h, n) = None
<1> DEFINE N == Len(h.extensions)
           head(k) == [session |-> h.session, ciphers |-> h.ciphers,
                       compression |-> h.compression, extensions |-> SubSeq(h.extensions, 1, k)]
           named == {k \in DOMAIN h.extensions : h.extensions[k].type = ServerName}
           first == CHOOSE k \in named : \A j \in named : k <= j
           data == h.extensions[first].data
           fits == Len(EncodeHello(head(first))) <= n
<1>1. NameWithin(h, n) = IF named # {} /\ fits THEN Decode(SubSeq(data, 4, Len(data))) ELSE None
  BY DEF NameWithin
<1>2. N \in Nat /\ DOMAIN h.extensions = 1 .. N
  BY HelloType
<1>3. ASSUME NEW j
      PROVE  FirstAfter(h, 0, j) <=> j \in named /\ \A i \in named : j <= i
  <2>1. \A i \in 1 .. N : i > 0
    OBVIOUS
  <2>2. FirstAfter(h, 0, j) <=> /\ j \in 1 .. N /\ Named(h, j)
                                /\ \A i \in 1 .. N : i < j => ~ Named(h, i)
    BY <2>1 DEF FirstAfter
  <2>3. \A i : i \in named <=> i \in 1 .. N /\ Named(h, i)
    BY <1>2 DEF Named
  <2> HIDE DEF named
  <2>4. \A i, k \in 1 .. N : ~ (i < k) <=> k <= i
    OBVIOUS
  <2>5. QED
    BY <2>2, <2>3, <2>4
<1>4. CASE named = {}
  <2>1. \A j : ~ FirstAfter(h, 0, j)
    BY <1>3, <1>4
  <2>2. NameWithin(h, n) = None
    BY <1>1, <1>4
  <2>3. QED
    BY <2>1, <2>2
<1>5. CASE named # {}
  <2>1. named \in SUBSET Nat /\ named \subseteq 1 .. N
    BY <1>2
  <2> HIDE DEF named
  <2>2. \E k \in named : \A j \in named : k <= j
    BY <1>5, <2>1, LeastElement
  <2>3. first \in named /\ \A j \in named : first <= j
    BY <2>2
  <2> HIDE DEF first
  <2>4. FirstAfter(h, 0, first)
    BY <1>3, <2>3
  <2>5. \A j : FirstAfter(h, 0, j) => j = first
    <3>1. ASSUME NEW j, FirstAfter(h, 0, j)
          PROVE  j = first
      <4>1. j \in named /\ j <= first /\ first <= j
        BY <1>3, <2>3, <3>1
      <4>2. j \in Nat /\ first \in Nat
        BY <2>1, <2>3, <4>1
      <4>3. QED
        BY <4>1, <4>2
    <3>2. QED
      BY <3>1
  <2>6. fits <=> Behind(h, first) - 1 <= n
    <3>1. first \in 1 .. Len(h.extensions)
      BY <2>1, <2>3
    <3>2. QED
      BY <3>1, HeadLength
  <2>7. Decode(SubSeq(data, 4, Len(data))) = Wanted(h, first)
    BY DEF Wanted
  <2> HIDE DEF fits, data
  <2>8. QED
    BY <1>1, <1>5, <2>4, <2>5, <2>6, <2>7
<1>6. QED
  BY <1>4, <1>5

\* No name is wholly there before the extensions begin.
LEMMA NothingWithin ==
  ASSUME NEW h, IsHello(h), NEW n \in Int, n <= Total(h)
  PROVE  NameWithin(h, n) = None
<1>1. ASSUME NEW j, FirstAfter(h, 0, j)
      PROVE  ~ (Behind(h, j) - 1 <= n)
  <2>1. j \in 1 .. Len(h.extensions)
    BY <1>1 DEF FirstAfter
  <2> DEFINE k == j - 1
  <2>2. k \in Nat /\ k + 1 = j /\ k + 1 <= Len(h.extensions) /\ k <= Len(h.extensions)
    BY <2>1, HelloType
  <2> HIDE DEF k
  <2>3. /\ Behind(h, k + 1) = Behind(h, k) + 2 + Len(h.extensions[k + 1].data)
        /\ Len(h.extensions[k + 1].data) \in Nat
        /\ Behind(h, k) \in Nat /\ Total(h) < Behind(h, k) /\ Total(h) \in Nat
    BY <2>2, ExtensionCells
  <2> DEFINE l == Len(h.extensions[k + 1].data)
  <2>4. Behind(h, j) = Behind(h, k) + 2 + l /\ l \in Nat
    BY <2>2, <2>3
  <2> HIDE DEF l
  <2>5. QED
    BY <2>3, <2>4
<1>2. QED
  BY <1>1, NameWithinIs

\* tls_sni of what was captured of a hello.
LEMMA TlsSniRead ==
  ASSUME NEW h, IsHello(h), NEW msg, NEW b, ReadsAs(msg, EncodeHello(h), b)
  PROVE  TlsSni(msg) = NameWithin(h, b)
<1> DEFINE body == EncodeHello(h)
           s == AfterSession(h)
           c == AfterCiphers(h)
           t == Total(h)
           ciphers == 3 + 1 + msg[3]
           compression == ciphers + 1 + msg[ciphers]
           total_ == compression + 1 + msg[compression]
           whole == total_ + msg[total_]
           end == IF whole < Len(msg) THEN whole ELSE Len(msg)
           Complete == /\ 2 <= Len(msg) /\ msg[1] = Handshake /\ msg[2] = ClientHello
                       /\ 3 <= Len(msg) /\ ciphers <= Len(msg) /\ compression <= Len(msg)
                       /\ total_ <= Len(msg)
<1>1. TlsSni(msg) = IF Complete THEN Extensions(msg, end)[total_ + 1] ELSE None
  BY DEF TlsSni
<1>2. /\ msg \in Seq(Nat) /\ body \in Seq(Nat) /\ b \in Nat /\ b <= Len(body) /\ b <= Len(msg)
      /\ Len(msg) = b \/ b = Len(body)
      /\ \A i \in 1 .. b : msg[i] = body[i]
      /\ Len(msg) \in Nat /\ Len(body) \in Nat
  BY DEF ReadsAs
<1>3. /\ body[1] = Handshake /\ body[2] = ClientHello
      /\ 3 + 1 + body[3] = s /\ s + 1 + body[s] = c /\ c + 1 + body[c] = t /\ t + body[t] = Len(body)
      /\ s \in Nat /\ c \in Nat /\ t \in Nat /\ 4 <= s /\ s < c /\ c < t /\ t <= Len(body)
  <2> DEFINE x == Len(h.session)
             y == Len(h.ciphers)
             z == Len(h.compression)
  <2>1. /\ body[1] = Handshake /\ body[2] = ClientHello /\ body[3] = x /\ body[s] = y /\ body[c] = z
        /\ x \in Nat /\ y \in Nat /\ z \in Nat
        /\ Len(body) = t + Len(EncodeExtensions(h.extensions))
        /\ Len(EncodeExtensions(h.extensions)) \in Nat
    BY HelloType, HelloCells
  <2>2. t + body[t] = Len(body) /\ t \in Nat
    BY ExtensionCells
  <2>3. s = 4 + x /\ c = s + 1 + y /\ t = c + 1 + z
    BY DEF AfterSession, AfterCiphers, Total
  <2> HIDE DEF x, y, z, body, s, c, t
  <2>4. t <= Len(body)
    <3> DEFINE w == Len(EncodeExtensions(h.extensions))
    <3>1. w \in Nat /\ Len(body) = t + w
      BY <2>1
    <3> HIDE DEF w
    <3>2. QED
      BY <2>2, <3>1
  <2>5. QED
    BY <2>1, <2>2, <2>3, <2>4
<1>4. ASSUME NEW i \in Nat, 1 <= i, i <= b
      PROVE  msg[i] = body[i]
  BY <1>2, <1>4
<1> HIDE DEF body, s, c, t
<1>5. CASE t <= b
  <2>1. msg[1] = body[1] /\ msg[2] = body[2] /\ msg[3] = body[3] /\ msg[s] = body[s] /\ msg[c] = body[c]
        /\ msg[t] = body[t]
    <3>1. /\ 1 \in Nat /\ 2 \in Nat /\ 3 \in Nat /\ 1 <= 1 /\ 1 <= 2 /\ 1 <= 3
          /\ 1 <= b /\ 2 <= b /\ 3 <= b /\ 1 <= s /\ s <= b /\ 1 <= c /\ c <= b /\ 1 <= t
      BY <1>2, <1>3, <1>5
    <3>2. QED
      BY <1>3, <1>4, <1>5, <3>1
  <2>2. ciphers = s
    BY <1>3, <2>1
  <2>3. compression = c
    BY <1>3, <2>1, <2>2
  <2>4. total_ = t
    BY <1>3, <2>1, <2>3
  <2>5. whole = Len(body)
    BY <1>3, <2>1, <2>4
  <2> HIDE DEF ciphers, compression, total_, whole
  <2>6. end = b /\ Complete
    <3>1. end = b
      BY <1>2, <2>5
    <3>2. /\ 2 <= Len(msg) /\ 3 <= Len(msg) /\ ciphers <= Len(msg) /\ compression <= Len(msg)
          /\ total_ <= Len(msg)
      <4>1. t <= Len(msg) /\ c <= Len(msg) /\ s <= Len(msg) /\ 2 <= Len(msg) /\ 3 <= Len(msg)
        <5> DEFINE m == Len(msg)
        <5>1. b \in Nat /\ m \in Nat /\ b <= m
          BY <1>2
        <5>2. s \in Nat /\ c \in Nat /\ t \in Nat /\ 4 <= s /\ s < c /\ c < t
          BY <1>3
        <5> HIDE DEF m
        <5>3. t <= m /\ c <= m /\ s <= m /\ 2 <= m /\ 3 <= m
          BY <1>5, <5>1, <5>2
        <5>4. QED
          BY <5>3 DEF m
      <4>2. QED
        BY <2>2, <2>3, <2>4, <4>1
    <3>3. QED
      BY <1>3, <2>1, <3>1, <3>2
  <2> HIDE DEF end, Complete
  <2>7. TlsSni(msg) = Extensions(msg, b)[t + 1]
    BY <1>1, <2>4, <2>6
  <2>8. b \in 0 .. Len(msg)
    BY <1>2
  <2> DEFINE read == Extensions(msg, b)[t + 1]
  <2>9. /\ \A j : FirstAfter(h, 0, j) /\ Behind(h, j) - 1 <= b => read = Wanted(h, j)
        /\ (\A j : FirstAfter(h, 0, j) => ~ (Behind(h, j) - 1 <= b)) => read = None
    BY <1>2, <2>8, ExtensionsRead DEF body, t
  <2>10. /\ \A j : FirstAfter(h, 0, j) /\ Behind(h, j) - 1 <= b => NameWithin(h, b) = Wanted(h, j)
         /\ (\A j : FirstAfter(h, 0, j) => ~ (Behind(h, j) - 1 <= b)) => NameWithin(h, b) = None
    BY NameWithinIs
  <2> HIDE DEF read
  <2>11. read = NameWithin(h, b)
    BY <2>9, <2>10
  <2>12. QED
    BY <2>7, <2>11 DEF read
<1>6. CASE ~ (t <= b)
  <2>1. Len(msg) = b
    BY <1>2, <1>3, <1>6
  <2>2. NameWithin(h, b) = None
    <3>1. b \in Int /\ b <= t
      BY <1>2, <1>3, <1>6
    <3>2. QED
      BY <3>1, NothingWithin DEF t
  <2>3. SUFFICES ASSUME Complete
                 PROVE  FALSE
    BY <1>1, <2>2
  <2>4. 3 <= b /\ ciphers <= b /\ compression <= b /\ total_ <= b
    BY <2>1, <2>3
  <2>5. ciphers = s
    <3>1. 3 \in Nat /\ 1 <= 3
      OBVIOUS
    <3>2. msg[3] = body[3]
      BY <1>4, <2>4, <3>1
    <3>3. QED
      BY <1>3, <3>2
  <2> HIDE DEF ciphers
  <2>6. compression = c
    <3>1. msg[s] = body[s]
      <4>1. 1 <= s /\ s <= b
        BY <1>3, <2>4, <2>5
      <4>2. QED
        BY <1>3, <1>4, <4>1
    <3>2. QED
      BY <1>3, <2>5, <3>1
  <2> HIDE DEF compression
  <2>7. total_ = t
    <3>1. msg[c] = body[c]
      <4>1. 1 <= c /\ c <= b
        BY <1>3, <2>4, <2>6
      <4>2. QED
        BY <1>3, <1>4, <4>1
    <3>2. QED
      BY <1>3, <2>6, <3>1
  <2> HIDE DEF total_
  <2>8. QED
    BY <1>6, <2>4, <2>7
<1>7. QED
  BY <1>5, <1>6

\* What does not begin as a hello does names nothing.
LEMMA NoHello ==
  ASSUME NEW msg \in Seq(Nat), ~ IsPrefix(<<Handshake, ClientHello>>, msg)
  PROVE  TlsSni(msg) = None
<1>1. <<Handshake, ClientHello>> \in Seq(Nat) /\ Len(<<Handshake, ClientHello>>) = 2
      /\ <<Handshake, ClientHello>>[1] = Handshake /\ <<Handshake, ClientHello>>[2] = ClientHello
  BY DEF Handshake, ClientHello
<1>2. ~ (2 <= Len(msg) /\ msg[1] = Handshake /\ msg[2] = ClientHello)
  <2>1. \A i \in 1 .. 2 : i = 1 \/ i = 2
    OBVIOUS
  <2>2. IsPrefix(<<Handshake, ClientHello>>, msg) <=>
          /\ 2 <= Len(msg)
          /\ \A i \in 1 .. 2 : <<Handshake, ClientHello>>[i] = msg[i]
    BY <1>1, PrefixIff
  <2>3. QED
    BY <1>1, <2>1, <2>2
<1>3. QED
  BY <1>2 DEF TlsSni

-----------------------------------------------------------------------------
(***************************************************************************)
(* Sums of functions.                                                      *)
(***************************************************************************)

Pick(s) == CHOOSE x \in s : TRUE

\* One step of adding up the values of fun on s; sum has what was added before.
SumStep(fun, sum, s) == IF s = {} THEN 0 ELSE fun[Pick(s)] + sum[s \ {Pick(s)}]

IsSum(sum, fun, X) == sum = [s \in SUBSET X |-> SumStep(fun, sum, s)]

\* Sets without one of their elements.
LEMMA Smaller ==
  ASSUME NEW X, IsFiniteSet(X), NEW s \in SUBSET X
  PROVE  /\ IsFiniteSet(s) /\ Cardinality(s) \in Nat
         /\ Cardinality(s) = 0 <=> s = {}
         /\ \A x \in s : Cardinality(s \ {x}) = Cardinality(s) - 1
         /\ s # {} => Pick(s) \in s
<1>1. IsFiniteSet(s) /\ Cardinality(s) \in Nat
  BY FS_Subset, FS_CardinalityType
<1>2. QED
  BY <1>1, FS_RemoveElement, FS_EmptySet DEF Pick

\* The recursion of a sum has a solution.
LEMMA SumExists ==
  ASSUME NEW X, IsFiniteSet(X), NEW fun
  PROVE  \E sum : IsSum(sum, fun, X)
<1> DEFINE Solved(f, n) == \A s \in SUBSET X : Cardinality(s) < n => f[s] = SumStep(fun, f, s)
           S == {n \in Nat : \E f : f = [s \in SUBSET X |-> f[s]] /\ Solved(f, n)}
<1>1. 0 \in S
  <2> DEFINE f == [s \in SUBSET X |-> 0]
  <2>1. f = [s \in SUBSET X |-> f[s]]
    OBVIOUS
  <2>2. Solved(f, 0)
    BY Smaller
  <2> HIDE DEF f, Solved
  <2>3. QED
    BY <2>1, <2>2
<1>2. ASSUME NEW n \in Nat, n \in S
      PROVE  n + 1 \in S
  <2>1. PICK f : f = [s \in SUBSET X |-> f[s]] /\ Solved(f, n)
    BY <1>2
  <2> DEFINE g == [s \in SUBSET X |-> IF Cardinality(s) < n THEN f[s] ELSE SumStep(fun, f, s)]
  <2>2. ASSUME NEW s \in SUBSET X, Cardinality(s) < n + 1
        PROVE  g[s] = SumStep(fun, g, s)
    <3>1. g[s] = SumStep(fun, f, s)
      BY <2>1
    <3>2. s # {} => g[s \ {Pick(s)}] = f[s \ {Pick(s)}]
      <4> SUFFICES ASSUME s # {}
          PROVE  g[s \ {Pick(s)}] = f[s \ {Pick(s)}]
        OBVIOUS
      <4>1. Cardinality(s \ {Pick(s)}) < n /\ s \ {Pick(s)} \in SUBSET X
        BY <2>2, Smaller
      <4>2. QED
        BY <4>1
    <3> HIDE DEF g
    <3>3. SumStep(fun, g, s) = SumStep(fun, f, s)
      BY <3>2 DEF SumStep
    <3>4. QED
      BY <3>1, <3>3
  <2>3. g = [s \in SUBSET X |-> g[s]]
    OBVIOUS
  <2> HIDE DEF g
  <2>4. Solved(g, n + 1)
    BY <2>2
  <2> HIDE DEF Solved
  <2>5. QED
    BY <2>3, <2>4
<1>3. Cardinality(X) + 1 \in S
  <2> HIDE DEF S
  <2>1. Cardinality(X) + 1 \in Nat
    BY FS_CardinalityType
  <2>2. QED
    BY <1>1, <1>2, <2>1, Induction
<1>4. PICK f : f = [s \in SUBSET X |-> f[s]] /\ Solved(f, Cardinality(X) + 1)
  BY <1>3
<1>5. ASSUME NEW s \in SUBSET X
      PROVE  f[s] = SumStep(fun, f, s)
  <2>1. Cardinality(s) \in Nat /\ Cardinality(X) \in Nat /\ Cardinality(s) <= Cardinality(X)
    BY FS_Subset, FS_CardinalityType
  <2>2. Cardinality(s) < Cardinality(X) + 1
    BY <2>1
  <2>3. QED
    BY <1>4, <2>2
<1>6. QED
  BY <1>4, <1>5 DEF IsSum

\* SumFunction is such a sum.
LEMMA SumFunctionIs ==
  ASSUME NEW fun, IsFiniteSet(DOMAIN fun)
  PROVE  \E sum : IsSum(sum, fun, DOMAIN fun) /\ SumFunction(fun) = sum[DOMAIN fun]
<1>1. SumFunction(fun) = (CHOOSE sum : IsSum(sum, fun, DOMAIN fun))[DOMAIN fun]
  BY DEF SumFunction, SumFunctionOnSet, FoldFunctionOnSet, MapThenFoldSet, IsSum, SumStep, Pick
<1>2. QED
  BY <1>1, SumExists

\* The order in which the values are added does not matter.
LEMMA SumAnyOrder ==
  ASSUME NEW X, IsFiniteSet(X), NEW fun \in [X -> Nat], NEW sum, IsSum(sum, fun, X),
         NEW s \in SUBSET X
  PROVE  sum[s] \in Nat /\ \A x \in s : sum[s] = fun[x] + sum[s \ {x}]
<1> DEFINE Good(t) == sum[t] \in Nat /\ \A x \in t : sum[t] = fun[x] + sum[t \ {x}]
           S == {n \in Nat : \A t \in SUBSET X : Cardinality(t) <= n => Good(t)}
<1>0. /\ sum[{}] = 0
      /\ \A t \in SUBSET X : t # {} => sum[t] = fun[Pick(t)] + sum[t \ {Pick(t)}]
  BY DEF IsSum, SumStep
<1>1. 0 \in S
  <2>1. Good({})
    BY <1>0
  <2>2. \A t \in SUBSET X : Cardinality(t) <= 0 => t = {}
    BY Smaller
  <2> HIDE DEF Good
  <2>3. QED
    BY <2>1, <2>2
<1>2. ASSUME NEW n \in Nat, n \in S
      PROVE  n + 1 \in S
  <2> SUFFICES ASSUME NEW t \in SUBSET X, Cardinality(t) = n + 1
      PROVE  Good(t)
    <3>1. \A t \in SUBSET X : Cardinality(t) <= n + 1 => Cardinality(t) <= n \/ Cardinality(t) = n + 1
      BY Smaller
    <3> HIDE DEF Good
    <3>2. QED
      BY <1>2, <3>1
  <2> DEFINE c == Pick(t)
  <2>1. t # {} /\ c \in t /\ c \in X /\ \A x \in t : Cardinality(t \ {x}) = n
    BY Smaller
  <2>2. \A x \in t : Good(t \ {x})
    <3>1. \A x \in t : t \ {x} \in SUBSET X /\ Cardinality(t \ {x}) <= n
      BY <2>1
    <3> HIDE DEF Good
    <3>2. QED
      BY <1>2, <3>1
  <2>3. sum[t] = fun[c] + sum[t \ {c}]
    BY <1>0, <2>1
  <2>4. sum[t] \in Nat
    BY <2>1, <2>2, <2>3
  <2>5. ASSUME NEW x \in t
        PROVE  sum[t] = fun[x] + sum[t \ {x}]
    <3>1. CASE x = c
      BY <2>3, <3>1
    <3>2. CASE x # c
      <4> DEFINE both == (t \ {c}) \ {x}
      <4>1. both = (t \ {x}) \ {c} /\ x \in t \ {c} /\ c \in t \ {x}
        BY <2>1, <3>2
      <4>2. sum[t \ {c}] = fun[x] + sum[both]
        BY <2>1, <2>2, <4>1
      <4>3. sum[t \ {x}] = fun[c] + sum[both]
        BY <2>2, <4>1
      <4>4. both \in SUBSET X /\ fun[x] \in Nat /\ fun[c] \in Nat
        BY <2>1
      <4>5. sum[both] \in Nat
        <5>1. Cardinality(both) <= n
          <6>1. Cardinality(t \ {c}) = n /\ Cardinality(both) = Cardinality(t \ {c}) - 1
            BY <2>1, <4>1, Smaller
          <6>2. QED
            BY <6>1
        <5>2. QED
          BY <1>2, <4>4, <5>1
      <4>6. QED
        BY <2>3, <4>2, <4>3, <4>4, <4>5
    <3>3. QED
      BY <3>1, <3>2
  <2>6. QED
    BY <2>4, <2>5
<1>3. Cardinality(s) \in S
  <2> HIDE DEF S
  <2>1. Cardinality(s) \in Nat
    BY Smaller
  <2>2. QED
    BY <1>1, <1>2, <2>1, Induction
<1>4. QED
  BY <1>3

\* The sum of what two functions have in common.
LEMMA SumSame ==
  ASSUME NEW X, IsFiniteSet(X), NEW fun \in [X -> Nat], NEW sum, IsSum(sum, fun, X),
         NEW Y, IsFiniteSet(Y), NEW other \in [Y -> Nat], NEW total_, IsSum(total_, other, Y),
         NEW s, s \subseteq X, s \subseteq Y, \A x \in s : fun[x] = other[x]
  PROVE  sum[s] = total_[s]
<1> DEFINE S == {n \in Nat : \A t \in SUBSET s : Cardinality(t) = n => sum[t] = total_[t]}
<1>0. /\ sum[{}] = 0 /\ total_[{}] = 0
      /\ \A t \in SUBSET X : t # {} => sum[t] = fun[Pick(t)] + sum[t \ {Pick(t)}]
      /\ \A t \in SUBSET Y : t # {} => total_[t] = other[Pick(t)] + total_[t \ {Pick(t)}]
  BY DEF IsSum, SumStep
<1>1. 0 \in S
  BY <1>0, Smaller
<1>2. ASSUME NEW n \in Nat, n \in S
      PROVE  n + 1 \in S
  <2> SUFFICES ASSUME NEW t \in SUBSET s, Cardinality(t) = n + 1
      PROVE  sum[t] = total_[t]
    OBVIOUS
  <2> DEFINE c == Pick(t)
  <2>1. t # {} /\ c \in t /\ Cardinality(t \ {c}) = n /\ t \in SUBSET X /\ t \in SUBSET Y
    BY Smaller
  <2>2. sum[t \ {c}] = total_[t \ {c}]
    BY <1>2, <2>1
  <2>3. QED
    BY <1>0, <2>1, <2>2
<1>3. Cardinality(s) \in S
  <2> HIDE DEF S
  <2>1. Cardinality(s) \in Nat
    BY Smaller
  <2>2. QED
    BY <1>1, <1>2, <2>1, Induction
<1>4. QED
  BY <1>3

\* One more of an element.
LEMMA CountedSum ==
  ASSUME NEW bag, IsABag(bag), IsFiniteSet(DOMAIN bag), NEW x
  PROVE  /\ IsABag(Counted(bag, x)) /\ IsFiniteSet(DOMAIN Counted(bag, x))
         /\ SumFunction(bag) \in Nat
         /\ SumFunction(Counted(bag, x)) = SumFunction(bag) + 1
<1> DEFINE X == DOMAIN bag
           Y == X \cup {x}
           more == Counted(bag, x)
           rest == X \ {x}
<1>1. bag \in [X -> Nat] /\ \A y \in X : bag[y] > 0
  BY DEF IsABag
<1>2. more = [y \in Y |-> (IF y \in X THEN bag[y] ELSE 0) + (IF y \in {x} THEN 1 ELSE 0)]
  BY DEF Counted, (+), SetToBag
<1>3. /\ more \in [Y -> Nat] /\ DOMAIN more = Y /\ \A y \in Y : more[y] > 0
      /\ more[x] = (IF x \in X THEN bag[x] ELSE 0) + 1
      /\ \A y \in rest : more[y] = bag[y]
  BY <1>1, <1>2
<1> HIDE DEF more
<1>4. IsABag(more)
  BY <1>3 DEF IsABag
<1>5. IsFiniteSet(Y)
  BY FS_AddElement
<1>6. PICK sum : IsSum(sum, bag, X) /\ SumFunction(bag) = sum[X]
  BY SumFunctionIs
<1>7. PICK moreSum : IsSum(moreSum, more, Y) /\ SumFunction(more) = moreSum[Y]
  BY <1>3, <1>5, SumFunctionIs
<1>8. sum[rest] = moreSum[rest]
  BY <1>1, <1>3, <1>5, <1>6, <1>7, SumSame
<1>9. sum[rest] \in Nat /\ sum[X] \in Nat /\ (x \in X => sum[X] = bag[x] + sum[rest])
  BY <1>1, <1>6, SumAnyOrder
<1>10. moreSum[Y] = more[x] + moreSum[rest]
  <2>1. Y \ {x} = rest /\ x \in Y /\ Y \in SUBSET Y
    OBVIOUS
  <2>2. QED
    BY <1>3, <1>5, <1>7, <2>1, SumAnyOrder
<1>11. x \notin X => rest = X
  OBVIOUS
<1>12. SumFunction(more) = SumFunction(bag) + 1
  BY <1>1, <1>3, <1>6, <1>7, <1>8, <1>9, <1>10, <1>11
<1>13. QED
  BY <1>3, <1>4, <1>5, <1>6, <1>9, <1>12 DEF more

\* The empty bag.
LEMMA EmptySum == IsABag(EmptyBag) /\ DOMAIN EmptyBag = {} /\ SumFunction(EmptyBag) = 0
<1>1. IsABag(EmptyBag) /\ DOMAIN EmptyBag = {}
  BY DEF IsABag, EmptyBag, SetToBag
<1>2. PICK sum : IsSum(sum, EmptyBag, DOMAIN EmptyBag) /\ SumFunction(EmptyBag) = sum[DOMAIN EmptyBag]
  BY <1>1, FS_EmptySet, SumFunctionIs
<1>3. QED
  BY <1>1, <1>2 DEF IsSum, SumStep

\* Bags added up are a bag.
LEMMA BagPlus ==
  ASSUME NEW b, NEW c, IsABag(b), IsABag(c)
  PROVE  IsABag(b (+) c)
  BY DEF IsABag, (+)

\* What ToBag makes of a sequence is a bag.
LEMMA ToBagType ==
  ASSUME NEW X, NEW s \in Seq(X)
  PROVE  IsABag(ToBag(s))
<1>1. ASSUME NEW x \in Range(s)
      PROVE  Cardinality({i \in DOMAIN s : s[i] = x}) \in {n \in Nat : n > 0}
  <2> DEFINE T == {i \in DOMAIN s : s[i] = x}
  <2>1. IsFiniteSet(1 .. Len(s)) /\ T \subseteq 1 .. Len(s)
    BY FS_Interval
  <2>2. IsFiniteSet(T) /\ T # {}
    BY <2>1, FS_Subset DEF Range
  <2> HIDE DEF T
  <2>3. Cardinality(T) \in Nat /\ Cardinality(T) # 0
    BY <2>2, FS_CardinalityType, FS_EmptySet
  <2>4. QED
    BY <2>3 DEF T
<1>2. QED
  BY <1>1 DEF IsABag, ToBag

-----------------------------------------------------------------------------
(***************************************************************************)
(* The counters and the records.                                           *)
(***************************************************************************)

\* The records that were read and those that were there at first are among the complete ones.
Places ==
  /\ traffic \in Traffic
  /\ written \in 0 .. Len(traffic)
  /\ link \in {"ethernet", "cooked", "raw"}
  /\ taken \in 0 .. written
  /\ found \in 0 .. written
  /\ total \in Nat
  /\ part => written < Len(traffic)

\* The reading stopped when no complete record was left.
ReadToEnd ==
  /\ pc \in {"open", "reading"} => exit = "none"
  /\ exit = "ok" => found <= taken

\* The visible packets that were read are examined ones.
VisibleCounted == IsFiniteSet(Reported) /\ Cardinality(Reported) <= total

IInv == Places /\ ReadToEnd /\ VisibleCounted

\* What tcpdump sees are packets.
LEMMA PacketAt ==
  ASSUME NEW capture \in Traffic, NEW i \in DOMAIN capture
  PROVE  /\ IsPacket(capture[i])
         /\ capture[i].tags \in Nat /\ capture[i].snap \in Nat
         /\ capture[i].body \in Seq(Nat) /\ capture[i].padding \in Seq(Nat)
<1>1. capture[i] \in ToSet(capture)
  BY DEF ToSet
<1>2. QED
  BY <1>1, TrafficAssumption DEF IsPacket

\* What is captured is a sequence.
LEMMA Captured ==
  ASSUME NEW capture \in Traffic
  PROVE  Len(capture) \in Nat /\ DOMAIN capture = 1 .. Len(capture)
<1>1. capture \in Seq(ToSet(capture))
  BY TrafficAssumption
<1>2. QED
  BY <1>1

\* strip_link walks the VLAN tags: a packet that is there gets through to the counters.
LEMMA VisibleExamined ==
  ASSUME Places, NEW i \in 1 .. Len(traffic), Visible(traffic[i])
  PROVE  Examined(traffic[i])
<1> DEFINE p == traffic[i]
<1>1. p.tags \in Nat /\ p.snap \in Nat
  BY Captured, PacketAt DEF Places
<1>2. /\ p.ipv4
      /\ p.snap > (IF link = "raw" THEN 0 ELSE 1 + p.tags)
      /\ link = "cooked" => p.tags = 0
      /\ host \in {None, p.src, p.dst}
  BY DEF Visible, LinkCells
<1> HIDE DEF p
<1>3. CASE link = "raw"
  BY <1>1, <1>2, <1>3 DEF Examined, StripLink, p
<1>4. CASE link = "ethernet"
  <2>1. p.snap > p.tags /\ p.snap - 1 - p.tags > 0
    BY <1>1, <1>2, <1>4
  <2>2. StripLink(p) = p.snap - 1 - p.tags
    BY <1>2, <1>4, <2>1 DEF StripLink
  <2>3. QED
    BY <1>2, <2>1, <2>2 DEF Examined, p
<1>5. CASE link = "cooked"
  <2>1. p.tags = 0 /\ p.snap >= 1 /\ p.snap - 1 > 0
    BY <1>1, <1>2, <1>5
  <2>2. StripLink(p) = p.snap - 1
    BY <1>2, <1>5, <2>1 DEF StripLink
  <2>3. QED
    BY <1>2, <2>1, <2>2 DEF Examined, p
<1>6. QED
  BY <1>3, <1>4, <1>5 DEF Places

\* tcpdump only adds to the file.
LEMMA TcpdumpKeeps == IInv /\ Tcpdump => IInv'
<1> SUFFICES ASSUME IInv, Tcpdump
    PROVE  IInv'
  OBVIOUS
<1>1. UNCHANGED <<link, traffic, host, pc, exit, taken, total, found>>
  BY DEF Tcpdump, Create, WriteHeader, BeginRecord, EndRecord, counters
<1>2. written' \in written .. Len(traffic) /\ (part' => written' < Len(traffic))
  <2>2. Len(traffic) \in Nat
    BY Captured DEF IInv, Places
  <2>3. QED
    BY <2>2 DEF IInv, Places, Tcpdump, Create, WriteHeader, BeginRecord, EndRecord
<1>3. Places'
  BY <1>1, <1>2 DEF IInv, Places
<1>4. ReadToEnd' /\ VisibleCounted'
  BY <1>1 DEF IInv, ReadToEnd, VisibleCounted, Reported, Visible, LinkCells
<1>5. QED
  BY <1>3, <1>4 DEF IInv

\* A visible packet is one more in the total.
LEMMA TakeKeeps == IInv /\ Take => IInv'
<1> SUFFICES ASSUME IInv, Take
    PROVE  IInv'
  OBVIOUS
<1> DEFINE p == traffic[taken + 1]
<1>1. /\ pc = "reading" /\ taken < written /\ taken' = taken + 1
      /\ total' = IF Examined(p) THEN total + 1 ELSE total
      /\ UNCHANGED <<link, traffic, written, part, host, pc, exit, found>>
  BY DEF Take, Count, captureVars
<1>2. Places'
  BY <1>1 DEF IInv, Places
<1>3. ReadToEnd'
  BY <1>1 DEF IInv, ReadToEnd
<1>4. taken + 1 \in 1 .. Len(traffic)
  <2>2. Len(traffic) \in Nat
    BY Captured DEF IInv, Places
  <2>3. QED
    BY <1>1, <2>2 DEF IInv, Places
<1>5. \A q : Visible(q)' <=> Visible(q)
  BY <1>1 DEF Visible, LinkCells
<1>6. Reported' = IF Visible(p) THEN Reported \cup {taken + 1} ELSE Reported
  <2>1. 1 .. (taken + 1) = (1 .. taken) \cup {taken + 1}
    BY DEF IInv, Places
  <2>2. QED
    BY <1>1, <1>5, <2>1 DEF Reported
<1>7. CASE Visible(p)
  <2>1. Examined(p)
    BY <1>4, <1>7, VisibleExamined DEF IInv
  <2>2. /\ IsFiniteSet(Reported \cup {taken + 1})
        /\ Cardinality(Reported \cup {taken + 1}) <= Cardinality(Reported) + 1
    BY FS_AddElement, FS_CardinalityType DEF IInv, VisibleCounted
  <2>3. Cardinality(Reported) \in Nat /\ Cardinality(Reported \cup {taken + 1}) \in Nat
    BY <2>2, FS_CardinalityType DEF IInv, VisibleCounted
  <2>4. VisibleCounted'
    BY <1>1, <1>6, <1>7, <2>1, <2>2, <2>3 DEF IInv, VisibleCounted, Places
  <2>5. QED
    BY <1>2, <1>3, <2>4 DEF IInv
<1>8. CASE ~ Visible(p)
  <2>1. Cardinality(Reported) \in Nat
    BY FS_CardinalityType DEF IInv, VisibleCounted
  <2>2. VisibleCounted'
    BY <1>1, <1>6, <1>8, <2>1 DEF IInv, VisibleCounted, Places
  <2>3. QED
    BY <1>2, <1>3, <2>2 DEF IInv
<1>9. QED
  BY <1>7, <1>8

\* The invariant is inductive.
LEMMA Inductive == IInv /\ [Next]_vars => IInv'
<1> SUFFICES ASSUME IInv, [Next]_vars
    PROVE  IInv'
  OBVIOUS
<1>1. CASE Open \/ EndOfFile
  <2>1. UNCHANGED <<link, traffic, written, part, host, taken, total>>
    BY <1>1 DEF Open, EndOfFile, captureVars, counters
  <2>2. Places'
    BY <1>1, <2>1 DEF IInv, Places, Open, EndOfFile
  <2>3. ReadToEnd'
    BY <1>1, <2>1 DEF IInv, Places, ReadToEnd, Open, EndOfFile
  <2>4. VisibleCounted'
    BY <2>1 DEF IInv, VisibleCounted, Reported, Visible, LinkCells
  <2>5. QED
    BY <2>2, <2>3, <2>4 DEF IInv
<1>2. CASE UNCHANGED vars
  BY <1>2 DEF vars, captureVars, counters, IInv, Places, ReadToEnd, VisibleCounted, Reported,
              Visible, LinkCells
<1>3. QED
  BY <1>1, <1>2, TcpdumpKeeps, TakeKeeps DEF Next, Parser

\* It holds at first.
LEMMA Initially == Init => IInv
<1> SUFFICES ASSUME Init
    PROVE  IInv
  OBVIOUS
<1>1. Len(traffic) \in Nat
  BY Captured DEF Init
<1>2. Reported = {}
  BY DEF Init, Reported
<1>3. QED
  BY <1>1, <1>2, FS_EmptySet DEF Init, IInv, Places, ReadToEnd, VisibleCounted

\* And always.
LEMMA Invariance == Spec => []IInv
  BY Initially, Inductive, PTL DEF Spec

\* Whenever tcpdump is still writing and whatever it captured of each packet, main() examines
\* every visible packet whose record was complete when it opened the file.
THEOREM NoCompleteRecordMissed == Spec => []CompleteRecordsExamined
<1>2. IInv => CompleteRecordsExamined
  <2> SUFFICES ASSUME IInv, exit = "ok"
      PROVE  Cardinality({i \in 1 .. found : Visible(traffic[i])}) <= total
    BY DEF CompleteRecordsExamined
  <2>1. {i \in 1 .. found : Visible(traffic[i])} \subseteq Reported
    BY DEF IInv, Places, ReadToEnd, Reported
  <2>2. /\ IsFiniteSet({i \in 1 .. found : Visible(traffic[i])})
        /\ Cardinality({i \in 1 .. found : Visible(traffic[i])}) <= Cardinality(Reported)
    BY <2>1, FS_Subset DEF IInv, VisibleCounted
  <2>3. /\ Cardinality({i \in 1 .. found : Visible(traffic[i])}) \in Nat
        /\ Cardinality(Reported) \in Nat
    BY <2>2, FS_CardinalityType DEF IInv, VisibleCounted
  <2>4. QED
    BY <2>2, <2>3 DEF IInv, Places, VisibleCounted
<1>3. QED
  BY <1>2, Invariance, PTL

-----------------------------------------------------------------------------
(***************************************************************************)
(* The parsers on what was captured.                                       *)
(***************************************************************************)

\* What the parsers are given are sequences of numbers.
LEMMA BodyType ==
  ASSUME NEW p, IsPacket(p), StripLink(p) > 1
  PROVE  Body(p) \in Seq(Nat)
<1> DEFINE bytes == p.body \o p.padding
           size == StripLink(p) - 2
           n == IF size < Len(bytes) THEN size ELSE Len(bytes)
<1>1. bytes \in Seq(Nat) /\ Len(bytes) \in Nat /\ p.body \in Seq(Nat)
  <2>1. p.body \in Seq(Nat) /\ p.padding \in Seq(Nat)
    BY DEF IsPacket
  <2>2. bytes \in Seq(Nat)
    BY <2>1, ConcatProperties
  <2> HIDE DEF bytes
  <2>3. QED
    BY <2>1, <2>2
<1>2. size \in Nat
  <2>1. StripLink(p) \in Int
    <3>1. p.tags \in Nat /\ p.snap \in Nat
      BY DEF IsPacket
    <3>2. StripLink(p) \in {p.snap, p.snap - 1 - p.tags, p.snap - 1, 0}
      BY DEF StripLink
    <3>3. QED
      BY <3>1, <3>2
  <2>2. QED
    BY <2>1
<1> HIDE DEF bytes, size
<1>3. n \in 0 .. Len(bytes)
  BY <1>1, <1>2
<1> HIDE DEF n
<1>4. SubSeq(bytes, 1, n) \in Seq(Nat)
  BY <1>1, <1>3
<1>5. Body(p) \in {p.body, SubSeq(bytes, 1, n)}
  BY DEF Body, bytes, size, n
<1>6. QED
  BY <1>1, <1>4, <1>5

\* A datagram is a sequence of numbers.
LEMMA DatagramType ==
  ASSUME Places, NEW msg \in Datagrams
  PROVE  msg \in Seq(Nat)
  BY BodyType, PacketAt DEF Places, Datagrams, DnsFrame, HasTransport

\* A segment is a sequence of numbers.
LEMMA SegmentType ==
  ASSUME Places, NEW p \in Segments
  PROVE  p \in Seq(Nat)
  BY BodyType, PacketAt DEF Places, Segments, HasTransport

\* Whatever bytes reach port 53, and wherever tcpdump cuts them off: dns_names finds first the
\* name parse_question finds, and the answer build_a_response makes of such a query reads, in both
\* parsers, as the question that was asked and nothing else.
THEOREM ParsersAgree == Spec => []QuestionReadAlike
<1>1. ASSUME IInv
      PROVE  QuestionReadAlike
  <2> SUFFICES ASSUME NEW msg \in Datagrams, ParseQuestion(msg) # None
      PROVE  LET q == ParseQuestion(msg)
                 answer == BuildAResponse(msg, q.end)
             IN /\ q.name # <<>> /\ msg[1] <= 32 =>
                     DnsNames(msg) # <<>> /\ Head(DnsNames(msg)) = q.name
                /\ ParseQuestion(answer) = q
                /\ q.name # <<>> => DnsNames(answer) = <<q.name>>
    BY DEF QuestionReadAlike
  <2>1. msg \in Seq(Nat)
    BY <1>1, DatagramType DEF IInv
  <2>2. QED
    BY <2>1, FirstNameAlike, AnswerReadAlike
<1>2. QED
  BY <1>1, Invariance, PTL

\* Whatever bytes are captured of a datagram or a segment: dns_names and tls_sni find in the first
\* of them nothing they do not find in all of them, dns_names the first names in their order.
THEOREM NothingMadeUp == Spec => []TruncationLosesOnly
<1>1. IInv => TruncationLosesOnly
  BY DatagramType, SegmentType, DnsNamesCutOff, TlsSniCutOff DEF IInv, TruncationLosesOnly
<1>2. QED
  BY <1>1, Invariance, PTL

\* The rest of the types: the counters count no more than there was to count.
Kinds ==
  /\ file \in {"absent", "short", "pcap", "pcapng", "other"}
  /\ part \in BOOLEAN
  /\ host \in Addresses \cup {None}
  /\ pc \in {"open", "reading", "done"}
  /\ exit \in {"none", "ok", "traceback"}

Counters ==
  /\ total <= taken
  /\ IsABag(dns) /\ IsABag(sni)
  /\ IsABag(peers) /\ IsFiniteSet(DOMAIN peers)
  /\ SumFunction(peers) \in Nat /\ SumFunction(peers) <= total

\* The names dns_names finds are a bag.
LEMMA NamesFound ==
  ASSUME NEW p, IsPacket(p), DnsFrame(p)
  PROVE  IsABag(ToBag(DnsNames(Body(p))))
<1>1. Body(p) \in Seq(Nat)
  BY BodyType DEF DnsFrame, HasTransport
<1>2. DnsNames(Body(p)) \in Seq(Names)
  BY <1>1, DnsNamesType
<1>3. QED
  BY <1>2, ToBagType

\* A frame that is read leaves the counters in order.
LEMMA CountersKept == IInv /\ Counters /\ Take => Counters'
<1> SUFFICES ASSUME IInv, Counters, Take
    PROVE  Counters'
  OBVIOUS
<1> DEFINE p == traffic[taken + 1]
<1>1. pc = "reading" /\ taken < written /\ taken' = taken + 1 /\ Count(p)
  BY DEF Take
<1>2. IsPacket(p)
  <2>1. taken + 1 \in DOMAIN traffic
    BY <1>1, Captured DEF IInv, Places
  <2>2. QED
    BY <2>1, PacketAt DEF IInv, Places
<1>3. total \in Nat /\ taken \in Nat /\ total <= taken
  <2>1. written \in Nat
    BY Captured DEF IInv, Places
  <2>2. QED
    BY <2>1 DEF IInv, Places, Counters
<1> HIDE DEF p
<1>4. CASE ~ Examined(p)
  <2>1. UNCHANGED <<total, dns, sni, peers>>
    BY <1>1, <1>4 DEF Count
  <2>2. QED
    BY <1>1, <1>3, <2>1 DEF Counters
<1>5. CASE Examined(p)
  <2>1. total' = total + 1
    BY <1>1, <1>5 DEF Count
  <2>2. IsABag(dns')
    <3>1. dns' = IF DnsFrame(p) THEN dns (+) ToBag(DnsNames(Body(p))) ELSE dns
      BY <1>1, <1>5 DEF Count
    <3>2. QED
      BY <1>2, <3>1, NamesFound, BagPlus DEF Counters
  <2>3. IsABag(sni')
    <3>1. sni' = sni \/ sni' = Counted(sni, TlsSni(Body(p)))
      BY <1>1, <1>5 DEF Count
    <3>2. \A x : IsABag(SetToBag({x}))
      BY DEF IsABag, SetToBag
    <3>3. \A x : IsABag(Counted(sni, x))
      BY <3>2, BagPlus DEF Counters, Counted
    <3>4. QED
      BY <3>1, <3>3 DEF Counters
  <2>4. /\ IsABag(peers') /\ IsFiniteSet(DOMAIN peers')
        /\ SumFunction(peers') \in Nat /\ SumFunction(peers') <= total + 1
    <3>1. peers' = peers \/ peers' = Counted(peers, <<p.dst, p.dport>>)
      BY <1>1, <1>5 DEF Count
    <3>2. CASE peers' = peers
      BY <1>3, <3>2 DEF Counters
    <3>3. CASE peers' = Counted(peers, <<p.dst, p.dport>>)
      <4>1. SumFunction(peers') = SumFunction(peers) + 1 /\ IsABag(peers') /\ IsFiniteSet(DOMAIN peers')
        BY <3>3, CountedSum DEF Counters
      <4>2. QED
        BY <1>3, <4>1 DEF Counters
    <3>4. QED
      BY <3>1, <3>2, <3>3
  <2>5. QED
    BY <1>1, <1>3, <2>1, <2>2, <2>3, <2>4 DEF Counters
<1>6. QED
  BY <1>4, <1>5

\* So are they at first.
LEMMA CountersInitially == Init => Counters
<1> SUFFICES ASSUME Init
    PROVE  Counters
  OBVIOUS
<1>1. /\ IsABag(EmptyBag) /\ DOMAIN EmptyBag = {} /\ IsFiniteSet(DOMAIN EmptyBag)
      /\ SumFunction(EmptyBag) = 0
  BY EmptySum, FS_EmptySet
<1>2. dns = EmptyBag /\ sni = EmptyBag /\ peers = EmptyBag /\ total = 0 /\ taken = 0
  BY DEF Init
<1>3. QED
  BY <1>1, <1>2 DEF Counters

\* main() counts no more frames than it took, and no more peers than frames; its counters are
\* bags, whatever is in the packets.
THEOREM TypeCorrect == Spec => []TypeOK
<1>1. Init => Kinds /\ Counters
  <2>1. Init => Kinds
    BY DEF Init, Kinds
  <2>2. QED
    BY <2>1, CountersInitially
<1>2. IInv /\ Kinds /\ [Next]_vars => Kinds'
  BY DEF IInv, Kinds, Next, Tcpdump, Parser, Create, WriteHeader, BeginRecord, EndRecord, Open, Take,
         EndOfFile, captureVars, counters, vars
<1>3. ASSUME IInv, Counters, [Next]_vars
      PROVE  Counters'
  <2>1. CASE Take
    BY <1>3, <2>1, CountersKept
  <2>2. CASE ~ Take
    <3>1. UNCHANGED counters
      BY <1>3, <2>2 DEF Next, Tcpdump, Parser, Create, WriteHeader, BeginRecord, EndRecord, Open,
                        EndOfFile, vars
    <3>2. QED
      BY <1>3, <3>1 DEF Counters, counters
  <2>3. QED
    BY <2>1, <2>2
<1>4. IInv /\ Kinds /\ Counters => TypeOK
  BY DEF IInv, Places, Kinds, Counters, TypeOK
<1>5. QED
  BY <1>1, <1>2, <1>3, <1>4, Initially, Inductive, PTL DEF Spec

-----------------------------------------------------------------------------
(***************************************************************************)
(* The names that are reported.                                            *)
(***************************************************************************)

\* main() examines the visible packets and no others, and strip_link leaves what is
\* behind the link header.
LEMMA ExaminedVisible ==
  ASSUME Places, NEW p, IsPacket(p)
  PROVE  /\ Examined(p) <=> Visible(p)
         /\ StripLink(p) \in Int /\ LinkCells(p) \in Nat
         /\ Visible(p) => StripLink(p) = p.snap - LinkCells(p)
<1>1. p.tags \in Nat /\ p.snap \in Nat
  BY DEF IsPacket
<1>2. CASE link = "raw"
  BY <1>1, <1>2 DEF Examined, Visible, StripLink, LinkCells
<1>3. CASE link = "ethernet"
  <2>1. LinkCells(p) = 1 + p.tags
    BY <1>3 DEF LinkCells
  <2>2. p.ipv4 => StripLink(p) = IF p.snap > p.tags THEN p.snap - 1 - p.tags ELSE 0
    BY <1>3 DEF StripLink
  <2>3. StripLink(p) \in {p.snap - 1 - p.tags, 0}
    BY <1>3 DEF StripLink
  <2>4. QED
    BY <1>1, <1>3, <2>1, <2>2, <2>3 DEF Examined, Visible
<1>4. CASE link = "cooked"
  <2>1. LinkCells(p) = 1 + p.tags
    BY <1>4 DEF LinkCells
  <2>2. p.ipv4 => StripLink(p) = IF p.tags = 0 /\ p.snap >= 1 THEN p.snap - 1 ELSE 0
    BY <1>4 DEF StripLink
  <2>3. StripLink(p) \in {p.snap - 1, 0}
    BY <1>4 DEF StripLink
  <2>4. QED
    BY <1>1, <1>4, <2>1, <2>2, <2>3 DEF Examined, Visible
<1>5. QED
  BY <1>2, <1>3, <1>4 DEF Places

\* How much of the body is behind the transport header.
LEMMA BodyCellsType ==
  ASSUME Places, NEW p, IsPacket(p), Visible(p)
  PROVE  /\ BodyCells(p) \in Int /\ Len(p.body) \in Nat
         /\ BodyCells(p) = IF StripLink(p) - 2 < Len(p.body) THEN StripLink(p) - 2 ELSE Len(p.body)
         /\ StripLink(p) \in Int /\ StripLink(p) > 0
         /\ ~ (StripLink(p) > 1) => BodyCells(p) <= 0
<1>1. p.tags \in Nat /\ p.snap \in Nat /\ Len(p.body) \in Nat
  <2>1. p.body \in Seq(Nat)
    BY DEF IsPacket
  <2>2. QED
    BY <2>1 DEF IsPacket
<1>2. StripLink(p) \in Int /\ LinkCells(p) \in Nat /\ StripLink(p) = p.snap - LinkCells(p)
      /\ StripLink(p) > 0
  BY ExaminedVisible DEF Examined
<1>3. BodyCells(p) = IF StripLink(p) - 2 < Len(p.body) THEN StripLink(p) - 2 ELSE Len(p.body)
  BY <1>2 DEF BodyCells
<1>4. QED
  BY <1>1, <1>2, <1>3

\* What the parsers are given begins with what was captured of the body; padding follows
\* only if that is all of it.
LEMMA BodyRead ==
  ASSUME Places, NEW p, IsPacket(p), Visible(p), StripLink(p) > 1
  PROVE  ReadsAs(Body(p), p.body, BodyCells(p))
<1> DEFINE body == p.body
           bytes == p.body \o p.padding
           size == StripLink(p) - 2
           n == IF size < Len(bytes) THEN size ELSE Len(bytes)
           captured == SubSeq(bytes, 1, n)
           b == BodyCells(p)
<1>1. body \in Seq(Nat) /\ p.padding \in Seq(Nat) /\ Len(body) \in Nat /\ Len(p.padding) \in Nat
  <2>1. p.body \in Seq(Nat) /\ p.padding \in Seq(Nat)
    BY DEF IsPacket
  <2>2. QED
    BY <2>1
<1>2. size \in Nat /\ b = IF size < Len(body) THEN size ELSE Len(body)
  BY BodyCellsType
<1>3. /\ bytes \in Seq(Nat) /\ Len(bytes) = Len(body) + Len(p.padding)
      /\ \A i \in 1 .. Len(body) : bytes[i] = body[i]
  <2>1. /\ bytes \in Seq(Nat) /\ Len(bytes) = Len(body) + Len(p.padding)
        /\ \A i \in 1 .. Len(body) + Len(p.padding) :
             bytes[i] = IF i <= Len(body) THEN body[i] ELSE p.padding[i - Len(body)]
    BY <1>1, ConcatProperties
  <2>2. \A m, c \in Nat : \A i \in 1 .. m : i \in 1 .. m + c /\ i <= m
    OBVIOUS
  <2> HIDE DEF body, bytes
  <2>3. QED
    BY <1>1, <2>1, <2>2
<1>4. Body(p) = IF p.sane /\ Len(body) <= Len(captured) THEN body ELSE captured
  BY DEF Body
<1> HIDE DEF body, bytes, size, b
<1>5. n \in Nat /\ n <= Len(bytes) /\ n <= size /\ Len(bytes) \in Nat /\ Len(bytes) >= Len(body)
  BY <1>1, <1>2, <1>3
<1>6. n = size \/ n = Len(bytes)
  OBVIOUS
<1> HIDE DEF n
<1>7. captured \in Seq(Nat) /\ Len(captured) = n /\ \A i \in 1 .. n : captured[i] = bytes[i]
  BY <1>3, <1>5
<1> HIDE DEF captured
<1>8. CASE p.sane /\ Len(body) <= Len(captured)
  <2>1. Body(p) = body
    BY <1>4, <1>8
  <2>2. b = Len(body)
    BY <1>1, <1>2, <1>5, <1>7, <1>8
  <2>3. QED
    BY <1>1, <2>1, <2>2 DEF ReadsAs, body, b
<1>9. CASE ~ (p.sane /\ Len(body) <= Len(captured))
  <2>1. Body(p) = captured
    BY <1>4, <1>9
  <2>2. b \in Nat /\ b <= Len(body) /\ b <= n /\ (n = b \/ b = Len(body))
    BY <1>1, <1>2, <1>5, <1>6
  <2>3. \A i \in 1 .. b : i \in 1 .. n /\ i \in 1 .. Len(body)
    BY <1>1, <1>5, <2>2
  <2>4. \A i \in 1 .. b : captured[i] = body[i]
    BY <1>3, <1>7, <2>3
  <2>5. QED
    BY <1>1, <1>7, <2>1, <2>2, <2>4 DEF ReadsAs, body, b
<1>10. QED
  BY <1>8, <1>9

\* The pairs with one first element.
LEMMA PairedWith ==
  ASSUME NEW t, NEW B, IsFiniteSet(B)
  PROVE  IsFiniteSet({t} \X B) /\ Cardinality({t} \X B) = Cardinality(B)
<1> DEFINE f == [j \in B |-> <<t, j>>]
<1>1. f \in [B -> {t} \X B]
  OBVIOUS
<1>2. \A i, j \in B : f[i] = f[j] => i = j
  OBVIOUS
<1>3. \A z \in {t} \X B : \E j \in B : f[j] = z
  OBVIOUS
<1> HIDE DEF f
<1>4. QED
  BY <1>1, <1>2, <1>3, SameSize

\* The size of a disjoint union.
LEMMA Disjoint ==
  ASSUME NEW S, IsFiniteSet(S), NEW T, IsFiniteSet(T), S \cap T = {}
  PROVE  IsFiniteSet(S \cup T) /\ Cardinality(S \cup T) = Cardinality(S) + Cardinality(T)
<1>1. Cardinality(S) \in Nat /\ Cardinality(T) \in Nat /\ Cardinality(S \cap T) = 0
  BY FS_EmptySet, FS_CardinalityType
<1>2. IsFiniteSet(S \cup T) /\ Cardinality(S \cup T) = Cardinality(S) + Cardinality(T) - Cardinality(S \cap T)
  BY FS_Union
<1>3. QED
  BY <1>1, <1>2

\* What main() finds in a frame of port 53 are the names wholly captured in it.
LEMMA FrameNames ==
  ASSUME Places, NEW p, IsPacket(p), Visible(p), p.proto = "udp" => p.content # None
  PROVE  /\ IsFiniteSet(Asked(p))
         /\ DnsFrame(p) => \A n : Occurs(DnsNames(Body(p)), n)
                                    = Cardinality({j \in Asked(p) : Name(p.content[j]) = n})
         /\ ~ DnsFrame(p) => Asked(p) = {}
<1>1. CASE ~ (p.proto = "udp" /\ 53 \in {p.sport, p.dport})
  <2>1. Asked(p) = {} /\ ~ DnsFrame(p)
    BY <1>1 DEF Asked, DnsFrame, HasTransport
  <2>2. QED
    BY <2>1, FS_EmptySet
<1>2. CASE p.proto = "udp" /\ 53 \in {p.sport, p.dport}
  <2>1. Asked(p) = NamesWithin(p.content, BodyCells(p))
    BY <1>2 DEF Asked
  <2>2. IsQuery(p.content) /\ p.body = EncodeQuery(p.content) /\ p.content \in Seq(Seq(Seq(Nat)))
    BY <1>2 DEF IsPacket, IsQuery
  <2>3. BodyCells(p) \in Int /\ (~ (StripLink(p) > 1) => BodyCells(p) <= 0)
    BY BodyCellsType
  <2>4. IsFiniteSet(Asked(p))
    <3>1. Len(p.content) \in Nat
      BY <2>2
    <3>2. NamesWithin(p.content, BodyCells(p)) \subseteq DOMAIN p.content
      BY DEF NamesWithin
    <3>3. DOMAIN p.content = 1 .. Len(p.content)
      BY <2>2
    <3>4. IsFiniteSet(DOMAIN p.content)
      BY <3>1, <3>3, FS_Interval
    <3>5. QED
      BY <2>1, <3>2, <3>4, FS_Subset
  <2>5. ASSUME DnsFrame(p)
        PROVE  \A n : Occurs(DnsNames(Body(p)), n) = Cardinality({j \in Asked(p) : Name(p.content[j]) = n})
    <3>1. ReadsAs(Body(p), EncodeQuery(p.content), BodyCells(p))
      BY <2>2, <2>5, BodyRead DEF DnsFrame, HasTransport
    <3>2. \A n : Occurs(DnsNames(Body(p)), n) =
                   Cardinality({j \in NamesWithin(p.content, BodyCells(p)) : Name(p.content[j]) = n})
      BY <2>2, <3>1, DnsNamesRead
    <3>3. QED
      BY <2>1, <3>2
  <2>6. ASSUME ~ DnsFrame(p)
        PROVE  Asked(p) = {}
    <3>1. ~ (StripLink(p) > 1)
      BY <1>2, <2>6 DEF DnsFrame, HasTransport
    <3>2. QED
      BY <2>1, <2>2, <2>3, <3>1, NoneWithin
  <2>7. QED
    BY <2>4, <2>5, <2>6
<1>3. QED
  BY <1>1, <1>2

\* The parts of QuestionsExact.
QueriesOnly == \A i \in Reported : traffic[i].proto = "udp" => traffic[i].content # None
AskedPlaces == UNION {{i} \X Asked(traffic[i]) : i \in Reported}
NameAt(x) == Name(traffic[x[1]].content[x[2]])

QuestionsCounted ==
  QueriesOnly =>
    /\ IsFiniteSet(AskedPlaces)
    /\ \A n : Copies(dns, n) = Cardinality({x \in AskedPlaces : NameAt(x) = n})

\* A frame that is read adds its packet to the reported ones if that is visible.
LEMMA OneMoreReported ==
  ASSUME IInv, Take
  PROVE  /\ taken + 1 \in DOMAIN traffic /\ IsPacket(traffic[taken + 1])
         /\ taken + 1 \notin Reported
         /\ UNCHANGED <<traffic, link, host>> /\ taken' = taken + 1
         /\ Reported' = IF Visible(traffic[taken + 1]) THEN Reported \cup {taken + 1} ELSE Reported
         /\ Examined(traffic[taken + 1]) <=> Visible(traffic[taken + 1])
         /\ Count(traffic[taken + 1])
<1>1. /\ taken < written /\ taken' = taken + 1 /\ Count(traffic[taken + 1])
      /\ UNCHANGED <<link, traffic, host>>
  BY DEF Take, captureVars
<1>2. taken + 1 \in DOMAIN traffic /\ taken \in Nat
  <2>1. written \in Nat
    BY Captured DEF IInv, Places
  <2>2. QED
    BY <1>1, <2>1, Captured DEF IInv, Places
<1>3. IsPacket(traffic[taken + 1])
  BY <1>2, PacketAt DEF IInv, Places
<1>4. \A q : Visible(q)' <=> Visible(q)
  BY <1>1 DEF Visible, LinkCells
<1>5. 1 .. (taken + 1) = (1 .. taken) \cup {taken + 1} /\ taken + 1 \notin 1 .. taken
  BY <1>2
<1>6. Reported' = IF Visible(traffic[taken + 1]) THEN Reported \cup {taken + 1} ELSE Reported
  BY <1>1, <1>4, <1>5 DEF Reported
<1>7. taken + 1 \notin Reported
  BY <1>5 DEF Reported
<1>8. Examined(traffic[taken + 1]) <=> Visible(traffic[taken + 1])
  BY <1>3, ExaminedVisible DEF IInv
<1>9. QED
  BY <1>1, <1>2, <1>3, <1>6, <1>7, <1>8

\* A frame that is read adds its names to the counted ones.
LEMMA QuestionsKept == IInv /\ Counters /\ QuestionsCounted /\ Take => QuestionsCounted'
<1> SUFFICES ASSUME IInv, Counters, QuestionsCounted, Take, QueriesOnly'
    PROVE  (IsFiniteSet(AskedPlaces) /\ \A n : Copies(dns, n) = Cardinality({x \in AskedPlaces : NameAt(x) = n}))'
  BY DEF QuestionsCounted
<1> DEFINE t == taken + 1
           p == traffic[t]
<1>1. /\ t \in DOMAIN traffic /\ IsPacket(p) /\ t \notin Reported
      /\ UNCHANGED <<traffic, link, host>>
      /\ Reported' = IF Visible(p) THEN Reported \cup {t} ELSE Reported
      /\ Examined(p) <=> Visible(p)
      /\ Count(p)
  BY OneMoreReported
<1>2. \A q : Asked(q)' = Asked(q)
  BY <1>1 DEF Asked, BodyCells, LinkCells
<1>3. \A x : NameAt(x)' = NameAt(x)
  BY <1>1 DEF NameAt
<1>4. Reported \subseteq Reported'
  BY <1>1
<1>5. QueriesOnly
  BY <1>1, <1>4 DEF QueriesOnly
<1>6. IsFiniteSet(AskedPlaces) /\ \A n : Copies(dns, n) = Cardinality({x \in AskedPlaces : NameAt(x) = n})
  BY <1>5 DEF QuestionsCounted
<1>7. AskedPlaces' = UNION {{i} \X Asked(traffic[i]) : i \in Reported'}
  BY <1>1, <1>2 DEF AskedPlaces
<1> HIDE DEF t, p
<1>8. CASE ~ Visible(p)
  <2>1. AskedPlaces' = AskedPlaces
    BY <1>1, <1>7, <1>8 DEF AskedPlaces
  <2>2. dns' = dns
    BY <1>1, <1>8 DEF Count
  <2>3. \A n : Copies(dns, n)' = Copies(dns, n)
    BY <2>2 DEF Copies
  <2>4. QED
    BY <1>3, <1>6, <2>1, <2>3
<1>9. CASE Visible(p)
  <2>1. Reported' = Reported \cup {t}
    BY <1>1, <1>9
  <2>2. AskedPlaces' = AskedPlaces \cup ({t} \X Asked(p))
    BY <1>7, <2>1 DEF AskedPlaces, p
  <2>3. \A x \in AskedPlaces : x[1] # t
    BY <1>1 DEF AskedPlaces
  <2>4. p.proto = "udp" => p.content # None
    BY <1>1, <2>1 DEF QueriesOnly, p
  <2>5. /\ IsFiniteSet(Asked(p))
        /\ DnsFrame(p) => \A n : Occurs(DnsNames(Body(p)), n)
                                   = Cardinality({j \in Asked(p) : Name(p.content[j]) = n})
        /\ ~ DnsFrame(p) => Asked(p) = {}
    BY <1>1, <1>9, <2>4, FrameNames DEF IInv
  <2>6. IsFiniteSet(AskedPlaces')
    <3>1. IsFiniteSet({t} \X Asked(p))
      BY <2>5, PairedWith
    <3>2. QED
      BY <1>6, <2>2, <3>1, FS_Union
  <2>7. ASSUME NEW n
        PROVE  /\ Cardinality({x \in AskedPlaces' : NameAt(x) = n}) =
                    Cardinality({x \in AskedPlaces : NameAt(x) = n})
                      + Cardinality({j \in Asked(p) : Name(p.content[j]) = n})
               /\ Cardinality({x \in AskedPlaces : NameAt(x) = n}) \in Nat
    <3> DEFINE S == {x \in AskedPlaces : NameAt(x) = n}
               A == {j \in Asked(p) : Name(p.content[j]) = n}
    <3>1. IsFiniteSet(S) /\ IsFiniteSet(A) /\ Cardinality(S) \in Nat
      BY <1>6, <2>5, FS_Subset, FS_CardinalityType
    <3>2. \A j : NameAt(<<t, j>>) = Name(p.content[j])
      BY DEF NameAt, p
    <3>3. {x \in AskedPlaces' : NameAt(x) = n} = S \cup ({t} \X A)
      BY <2>2, <3>2
    <3>4. S \cap ({t} \X A) = {}
      BY <2>3
    <3> HIDE DEF S, A
    <3>5. IsFiniteSet({t} \X A) /\ Cardinality({t} \X A) = Cardinality(A)
      BY <3>1, PairedWith
    <3>6. Cardinality(S \cup ({t} \X A)) = Cardinality(S) + Cardinality({t} \X A)
      BY <3>1, <3>4, <3>5, Disjoint
    <3>7. Cardinality(S \cup ({t} \X A)) = Cardinality(S) + Cardinality(A)
      BY <3>5, <3>6
    <3>8. QED
      BY <3>1, <3>3, <3>7 DEF S, A
  <2>8. ASSUME NEW n
        PROVE  Copies(dns', n) = Copies(dns, n) + Cardinality({j \in Asked(p) : Name(p.content[j]) = n})
    <3>1. CASE DnsFrame(p)
      <4>1. dns' = dns (+) ToBag(DnsNames(Body(p)))
        BY <1>1, <1>9, <3>1 DEF Count
      <4>2. DnsNames(Body(p)) \in Seq(Names)
        BY <1>1, <3>1, BodyType, DnsNamesType DEF DnsFrame, HasTransport
      <4>3. IsABag(dns) /\ IsABag(ToBag(DnsNames(Body(p))))
        BY <4>2, ToBagType DEF Counters
      <4>4. Copies(dns', n) = Copies(dns, n) + Copies(ToBag(DnsNames(Body(p))), n)
        BY <4>1, <4>3, PlusCopies
      <4>5. Copies(ToBag(DnsNames(Body(p))), n) = Occurs(DnsNames(Body(p)), n)
        BY <4>2, ToBagCopies
      <4>6. QED
        BY <2>5, <3>1, <4>4, <4>5
    <3>2. CASE ~ DnsFrame(p)
      <4>1. dns' = dns
        BY <1>1, <1>9, <3>2 DEF Count
      <4>2. {j \in Asked(p) : Name(p.content[j]) = n} = {}
        BY <2>5, <3>2
      <4>3. Copies(dns, n) \in Nat
        BY PlusCopies DEF Counters
      <4>4. Cardinality({j \in Asked(p) : Name(p.content[j]) = n}) = 0
        BY <4>2, FS_EmptySet
      <4>5. QED
        BY <4>1, <4>3, <4>4
    <3>3. QED
      BY <3>1, <3>2
  <2>9. \A n : Copies(dns', n) = Cardinality({x \in AskedPlaces' : NameAt(x) = n})
    BY <1>6, <2>7, <2>8, ZenonT(40)
  <2>10. \A n : Cardinality({x \in AskedPlaces : NameAt(x) = n})' = Cardinality({x \in AskedPlaces' : NameAt(x) = n})
    BY <1>3
  <2>11. \A n : Copies(dns, n)' = Copies(dns', n)
    BY DEF Copies
  <2>12. QED
    BY <2>6, <2>9, <2>10, <2>11
<1>10. QED
  BY <1>8, <1>9

\* Nothing in a bag that counts is missing or made up.
LEMMA CountedExact == Counters /\ QuestionsCounted => QuestionsExact
<1> SUFFICES ASSUME Counters, QuestionsCounted, QueriesOnly
    PROVE  /\ BagToSet(dns) = {NameAt(x) : x \in AskedPlaces}
           /\ \A n \in BagToSet(dns) : dns[n] = Cardinality({x \in AskedPlaces : NameAt(x) = n})
  BY DEF QuestionsExact, QueriesOnly, AskedPlaces, NameAt
<1>1. IsFiniteSet(AskedPlaces) /\ \A n : Copies(dns, n) = Cardinality({x \in AskedPlaces : NameAt(x) = n})
  BY DEF QuestionsCounted
<1>2. \A n : n \in DOMAIN dns <=> Copies(dns, n) # 0
  BY PlusCopies DEF Counters
<1>3. ASSUME NEW n
      PROVE  Cardinality({x \in AskedPlaces : NameAt(x) = n}) # 0 <=> \E x \in AskedPlaces : NameAt(x) = n
  <2> DEFINE S == {x \in AskedPlaces : NameAt(x) = n}
  <2>1. IsFiniteSet(S)
    BY <1>1, FS_Subset
  <2>2. Cardinality(S) = 0 <=> S = {}
    <3> HIDE DEF S
    <3>1. QED
      BY <2>1, FS_EmptySet
  <2>3. S = {} <=> ~ \E x \in AskedPlaces : NameAt(x) = n
    OBVIOUS
  <2> HIDE DEF S
  <2>4. QED
    BY <2>2, <2>3 DEF S
<1>4. \A n : n \in DOMAIN dns <=> \E x \in AskedPlaces : NameAt(x) = n
  BY <1>1, <1>2, <1>3
<1>5. QED
  BY <1>1, <1>4 DEF BagToSet, Copies

\* What main() finds in a segment is what the hello in it asks for as far as it is captured.
LEMMA SegmentName ==
  ASSUME Places, NEW p, IsPacket(p), Visible(p),
         p.proto = "tcp" /\ IsPrefix(<<Handshake, ClientHello>>, Body(p)) => p.content # None
  PROVE  /\ HasTransport(p, "tcp") => TlsSni(Body(p)) = AskedFor(p)
         /\ ~ HasTransport(p, "tcp") => AskedFor(p) = None
<1>1. CASE p.proto # "tcp"
  BY <1>1 DEF HasTransport, AskedFor
<1>2. CASE p.proto = "tcp" /\ p.content = None
  <2>1. AskedFor(p) = None
    BY <1>2 DEF AskedFor
  <2>2. ASSUME HasTransport(p, "tcp")
        PROVE  TlsSni(Body(p)) = None
    <3>1. Body(p) \in Seq(Nat)
      BY <2>2, BodyType DEF HasTransport
    <3>2. QED
      BY <1>2, <3>1, NoHello
  <2>3. QED
    BY <2>1, <2>2
<1>3. CASE p.proto = "tcp" /\ p.content # None
  <2>1. AskedFor(p) = NameWithin(p.content, BodyCells(p))
    BY <1>3 DEF AskedFor
  <2>2. IsHello(p.content) /\ p.body = EncodeHello(p.content)
    BY <1>3 DEF IsPacket
  <2>3. ASSUME HasTransport(p, "tcp")
        PROVE  TlsSni(Body(p)) = AskedFor(p)
    <3>1. ReadsAs(Body(p), EncodeHello(p.content), BodyCells(p))
      BY <2>2, <2>3, BodyRead DEF HasTransport
    <3>2. QED
      BY <2>1, <2>2, <3>1, TlsSniRead
  <2>4. ASSUME ~ HasTransport(p, "tcp")
        PROVE  AskedFor(p) = None
    <3>1. BodyCells(p) \in Int /\ BodyCells(p) <= 0
      BY <1>3, <2>4, BodyCellsType DEF HasTransport
    <3>2. Total(p.content) \in Nat
      BY <2>2, ExtensionCells
    <3>3. BodyCells(p) <= Total(p.content)
      BY <3>1, <3>2
    <3>4. QED
      BY <2>1, <2>2, <3>1, <3>3, NothingWithin
  <2>5. QED
    BY <2>3, <2>4
<1>4. QED
  BY <1>1, <1>2, <1>3

\* The parts of SniExact.
HellosOnly ==
  \A i \in Reported : /\ traffic[i].proto = "tcp"
                      /\ IsPrefix(<<Handshake, ClientHello>>, Body(traffic[i]))
                      => traffic[i].content # None
Asking == {i \in Reported : AskedFor(traffic[i]) \notin {None, <<>>}}

HellosCounted ==
  HellosOnly =>
    \A n : Copies(sni, n) = Cardinality({i \in Asking : AskedFor(traffic[i]) = n})

\* A name that is counted once more.
LEMMA CountedOnce ==
  ASSUME NEW bag, IsABag(bag), NEW x, NEW n
  PROVE  Copies(Counted(bag, x), n) = Copies(bag, n) + (IF n = x THEN 1 ELSE 0)
<1>1. IsABag(SetToBag({x})) /\ Copies(SetToBag({x}), n) = IF n = x THEN 1 ELSE 0
  BY DEF IsABag, SetToBag, Copies
<1>2. QED
  BY <1>1, PlusCopies DEF Counted

\* A segment that is read adds its name to the counted ones.
LEMMA HellosKept == IInv /\ Counters /\ HellosCounted /\ Take => HellosCounted'
<1> SUFFICES ASSUME IInv, Counters, HellosCounted, Take, HellosOnly'
    PROVE  (\A n : Copies(sni, n) = Cardinality({i \in Asking : AskedFor(traffic[i]) = n}))'
  BY DEF HellosCounted
<1> DEFINE t == taken + 1
           p == traffic[t]
           Wants(i, n) == AskedFor(traffic[i]) = n
<1>1. /\ t \in DOMAIN traffic /\ IsPacket(p) /\ t \notin Reported
      /\ UNCHANGED <<traffic, link, host>>
      /\ Reported' = IF Visible(p) THEN Reported \cup {t} ELSE Reported
      /\ Examined(p) <=> Visible(p)
      /\ Count(p)
  BY OneMoreReported
<1>2. \A q : AskedFor(q)' = AskedFor(q) /\ Body(q)' = Body(q)
  BY <1>1 DEF AskedFor, BodyCells, LinkCells, Body, StripLink
<1>3. Reported \subseteq Reported'
  BY <1>1
<1>4. /\ \A i \in Reported' : /\ traffic[i].proto = "tcp"
                              /\ IsPrefix(<<Handshake, ClientHello>>, Body(traffic[i]))
                              => traffic[i].content # None
      /\ Asking' = {i \in Reported' : AskedFor(traffic[i]) \notin {None, <<>>}}
      /\ \A i : AskedFor(traffic[i])' = AskedFor(traffic[i])
  BY <1>1, <1>2 DEF HellosOnly, Asking
<1>5. HellosOnly
  BY <1>3, <1>4 DEF HellosOnly
<1>6. \A n : Copies(sni, n) = Cardinality({i \in Asking : AskedFor(traffic[i]) = n})
  BY <1>5 DEF HellosCounted
<1>7. IsFiniteSet(Asking) /\ t \notin Asking
  BY <1>1, FS_Subset DEF IInv, VisibleCounted, Asking
<1> HIDE DEF t, p
<1>8. ASSUME NEW n
      PROVE  Copies(sni', n) = Cardinality({i \in Asking' : AskedFor(traffic[i]) = n})
  <2> DEFINE S == {i \in Asking : AskedFor(traffic[i]) = n}
             T == {i \in Asking' : AskedFor(traffic[i]) = n}
             new == Visible(p) /\ AskedFor(p) \notin {None, <<>>}
  <2>1. IsFiniteSet(S) /\ t \notin S /\ Cardinality(S) = Copies(sni, n)
    BY <1>6, <1>7, FS_Subset
  <2>2. CASE ~ new
    <3>1. Asking' = Asking
      BY <1>1, <1>4, <2>2 DEF Asking, p
    <3>2. sni' = sni
      <4>1. CASE Visible(p)
        <5>1. p.proto = "tcp" /\ IsPrefix(<<Handshake, ClientHello>>, Body(p)) => p.content # None
          BY <1>1, <1>4, <4>1 DEF p
        <5>2. HasTransport(p, "tcp") => TlsSni(Body(p)) = AskedFor(p)
          BY <1>1, <4>1, <5>1, SegmentName DEF IInv
        <5>3. HasTransport(p, "tcp") => TlsSni(Body(p)) \in {None, <<>>}
          BY <2>2, <4>1, <5>2
        <5>4. QED
          BY <1>1, <4>1, <5>3 DEF Count
      <4>2. CASE ~ Visible(p)
        BY <1>1, <4>2 DEF Count
      <4>3. QED
        BY <4>1, <4>2
    <3>3. QED
      BY <1>6, <3>1, <3>2
  <2>3. CASE new
    <3>1. Asking' = Asking \cup {t}
      BY <1>1, <1>4, <2>3 DEF Asking, p
    <3>2. sni' = Counted(sni, AskedFor(p))
      <4>1. p.proto = "tcp" /\ IsPrefix(<<Handshake, ClientHello>>, Body(p)) => p.content # None
        BY <1>1, <1>4, <2>3 DEF p
      <4>2. /\ HasTransport(p, "tcp") => TlsSni(Body(p)) = AskedFor(p)
            /\ ~ HasTransport(p, "tcp") => AskedFor(p) = None
        BY <1>1, <2>3, <4>1, SegmentName DEF IInv
      <4>3. HasTransport(p, "tcp") /\ TlsSni(Body(p)) = AskedFor(p)
        BY <2>3, <4>2
      <4>4. QED
        BY <1>1, <2>3, <4>3 DEF Count
    <3>3. Copies(sni', n) = Copies(sni, n) + (IF n = AskedFor(p) THEN 1 ELSE 0)
      BY <3>2, CountedOnce DEF Counters
    <3>4. CASE n = AskedFor(p)
      <4>1. T = S \cup {t}
        BY <3>1, <3>4 DEF p
      <4> HIDE DEF S, T
      <4>2. Cardinality(T) = Cardinality(S) + 1
        BY <2>1, <4>1, FS_AddElement
      <4>3. QED
        BY <2>1, <3>3, <3>4, <4>2 DEF T
    <3>5. CASE n # AskedFor(p)
      <4>1. T = S
        BY <3>1, <3>5 DEF p
      <4>2. Copies(sni, n) \in Nat
        BY PlusCopies DEF Counters
      <4>3. Copies(sni', n) = Copies(sni, n)
        BY <3>3, <3>5, <4>2
      <4> HIDE DEF S, T
      <4>4. QED
        BY <2>1, <4>1, <4>3 DEF T
    <3>6. QED
      BY <3>4, <3>5
  <2>4. QED
    BY <2>2, <2>3
<1>9. \A n : Cardinality({i \in Asking : AskedFor(traffic[i]) = n})'
               = Cardinality({i \in Asking' : AskedFor(traffic[i]) = n})
  BY <1>4
<1>10. \A n : Copies(sni, n)' = Copies(sni', n)
  BY DEF Copies
<1>11. QED
  BY <1>8, <1>9, <1>10

\* Nothing is missing in the names of the hellos, and nothing made up.
LEMMA HellosExact == IInv /\ Counters /\ HellosCounted => SniExact
<1> SUFFICES ASSUME IInv, Counters, HellosCounted, HellosOnly
    PROVE  /\ BagToSet(sni) = {AskedFor(traffic[i]) : i \in Asking}
           /\ \A n \in BagToSet(sni) : sni[n] = Cardinality({i \in Asking : AskedFor(traffic[i]) = n})
  BY DEF SniExact, HellosOnly, Asking
<1>1. \A n : Copies(sni, n) = Cardinality({i \in Asking : AskedFor(traffic[i]) = n})
  BY DEF HellosCounted
<1>2. \A n : n \in DOMAIN sni <=> Copies(sni, n) # 0
  BY PlusCopies DEF Counters
<1>3. IsFiniteSet(Asking)
  BY FS_Subset DEF IInv, VisibleCounted, Asking
<1>4. ASSUME NEW n
      PROVE  Cardinality({i \in Asking : AskedFor(traffic[i]) = n}) # 0
               <=> \E i \in Asking : AskedFor(traffic[i]) = n
  <2> DEFINE S == {i \in Asking : AskedFor(traffic[i]) = n}
  <2>1. IsFiniteSet(S)
    BY <1>3, FS_Subset
  <2>2. Cardinality(S) = 0 <=> S = {}
    <3> HIDE DEF S
    <3>1. QED
      BY <2>1, FS_EmptySet
  <2>3. S = {} <=> ~ \E i \in Asking : AskedFor(traffic[i]) = n
    OBVIOUS
  <2> HIDE DEF S
  <2>4. QED
    BY <2>2, <2>3 DEF S
<1>5. \A n : n \in DOMAIN sni <=> \E i \in Asking : AskedFor(traffic[i]) = n
  BY <1>1, <1>2, <1>4
<1>6. QED
  BY <1>1, <1>5 DEF BagToSet, Copies

\* The names main() reports are those that stand wholly captured in the queries and the hellos
\* it read, each as often as it stands there: for all encodings of up to 32 questions and of any
\* extensions, for every snapshot length, and with any padding behind them.
THEOREM ReportExact == Spec => []NamesExact
<1>1. Init => Counters /\ QuestionsCounted /\ HellosCounted
  <2> SUFFICES ASSUME Init
      PROVE  Counters /\ QuestionsCounted /\ HellosCounted
    OBVIOUS
  <2>1. Counters
    BY CountersInitially
  <2>2. Reported = {} /\ dns = EmptyBag /\ sni = EmptyBag
    BY DEF Init, Reported
  <2>3. \A n : Copies(EmptyBag, n) = 0
    BY DEF Copies, EmptyBag, SetToBag
  <2>4. QuestionsCounted
    <3>1. AskedPlaces = {}
      BY <2>2 DEF AskedPlaces
    <3>2. QED
      BY <2>2, <2>3, <3>1, FS_EmptySet DEF QuestionsCounted
  <2>5. HellosCounted
    <3>1. Asking = {}
      BY <2>2 DEF Asking
    <3>2. QED
      BY <2>2, <2>3, <3>1, FS_EmptySet DEF HellosCounted
  <2>6. QED
    BY <2>1, <2>4, <2>5
<1>2. ASSUME IInv, Counters, QuestionsCounted, HellosCounted, [Next]_vars
      PROVE  Counters' /\ QuestionsCounted' /\ HellosCounted'
  <2>1. CASE Take
    BY <1>2, <2>1, CountersKept, QuestionsKept, HellosKept
  <2>2. CASE ~ Take
    <3>1. UNCHANGED <<counters, traffic, link, host>>
      BY <1>2, <2>2 DEF Next, Tcpdump, Parser, Create, WriteHeader, BeginRecord, EndRecord, Open,
                        EndOfFile, captureVars, vars
    <3>2. Counters'
      BY <1>2, <3>1 DEF Counters, counters
    <3>3. UNCHANGED <<traffic, link, host, taken, dns, sni>>
      BY <3>1 DEF counters
    <3>4. Reported' = Reported
      <4>1. \A q : Visible(q)' <=> Visible(q)
        BY <3>3 DEF Visible, LinkCells
      <4>2. QED
        BY <3>3, <4>1 DEF Reported
    <3>5. \A n : Copies(dns, n)' = Copies(dns, n) /\ Copies(sni, n)' = Copies(sni, n)
      BY <3>3 DEF Copies
    <3>6. QuestionsCounted'
      <4>1. \A q : Asked(q)' = Asked(q)
        BY <3>3 DEF Asked, BodyCells, LinkCells
      <4>2. AskedPlaces' = AskedPlaces /\ (QueriesOnly' <=> QueriesOnly)
        BY <3>3, <3>4, <4>1 DEF AskedPlaces, QueriesOnly
      <4>3. \A x : NameAt(x)' = NameAt(x)
        BY <3>3 DEF NameAt
      <4>4. \A n : {x \in AskedPlaces : NameAt(x) = n}' = {x \in AskedPlaces : NameAt(x) = n}
        BY <4>2, <4>3
      <4>5. QED
        BY <1>2, <3>5, <4>2, <4>4 DEF QuestionsCounted
    <3>7. HellosCounted'
      <4>1. \A q : AskedFor(q)' = AskedFor(q) /\ Body(q)' = Body(q)
        BY <3>3 DEF AskedFor, BodyCells, LinkCells, Body, StripLink
      <4>2. \A i : AskedFor(traffic[i])' = AskedFor(traffic[i]) /\ Body(traffic[i])' = Body(traffic[i])
        BY <3>3, <4>1
      <4>3. Asking' = Asking /\ (HellosOnly' <=> HellosOnly)
        BY <3>3, <3>4, <4>2 DEF Asking, HellosOnly
      <4>4. \A n : {i \in Asking : AskedFor(traffic[i]) = n}' = {i \in Asking : AskedFor(traffic[i]) = n}
        BY <4>2, <4>3
      <4>5. QED
        BY <1>2, <3>5, <4>3, <4>4 DEF HellosCounted
    <3>8. QED
      BY <3>2, <3>6, <3>7
  <2>3. QED
    BY <2>1, <2>2
<1>3. IInv /\ Counters /\ QuestionsCounted /\ HellosCounted => NamesExact
  BY CountedExact, HellosExact DEF NamesExact
<1>4. QED
  BY <1>1, <1>2, <1>3, Initially, Inductive, PTL DEF Spec
=============================================================================
