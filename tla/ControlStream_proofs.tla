------------------------ MODULE ControlStream_proofs ------------------------
(***************************************************************************)
(* Requests are executed as they were sent, for any set of requests, any   *)
(* garbage and any number of connections and requests.  StreamInv is       *)
(* inductive.  Its heart is InStep: the bytes a connection has left are    *)
(* those of the requests it has left.  Each lemma of the first part says   *)
(* what one operation on the stream does to it: bytes are appended by a    *)
(* request, cut off by a broken connection, taken from the front as a part *)
(* of a header or as a body.                                               *)
(***************************************************************************)
EXTENDS ControlStream, SequenceTheorems, TLAPS

(***************************************************************************)
(* The two ends of a sequence.                                             *)
(***************************************************************************)
LEMMA Dropped ==
    ASSUME NEW S, NEW s \in Seq(S), NEW n \in 0 .. Len(s)
    PROVE  /\ SubSeq(s, n + 1, Len(s)) \in Seq(S)
           /\ Len(SubSeq(s, n + 1, Len(s))) = Len(s) - n
           /\ \A i \in 1 .. Len(s) - n : SubSeq(s, n + 1, Len(s))[i] = s[n + i]
<1>1. Len(s) \in Nat /\ n \in Nat /\ n <= Len(s)
  BY LenProperties
<1>2. \A i \in n + 1 .. Len(s) : s[i] \in S
  BY <1>1, ElementOfSeq
<1>3. /\ SubSeq(s, n + 1, Len(s)) \in Seq(S)
      /\ Len(SubSeq(s, n + 1, Len(s))) = IF n + 1 <= Len(s) THEN Len(s) - (n + 1) + 1 ELSE 0
      /\ \A i \in 1 .. Len(s) - (n + 1) + 1 : SubSeq(s, n + 1, Len(s))[i] = s[n + 1 + i - 1]
  <2>1. n + 1 \in Int /\ Len(s) \in Int
    BY <1>1
  <2>2. QED
    BY <2>1, <1>2, SubSeqProperties
<1>4. Len(SubSeq(s, n + 1, Len(s))) = Len(s) - n
  BY <1>1, <1>3
<1>5. ASSUME NEW i \in 1 .. Len(s) - n PROVE SubSeq(s, n + 1, Len(s))[i] = s[n + i]
  <2>1. i \in 1 .. Len(s) - (n + 1) + 1 /\ n + 1 + i - 1 = n + i
    BY <1>1
  <2>2. QED
    BY <2>1, <1>3
<1>6. QED
  BY <1>3, <1>4, <1>5

LEMMA Kept ==
    ASSUME NEW S, NEW s \in Seq(S), NEW n \in 0 .. Len(s)
    PROVE  /\ SubSeq(s, 1, n) \in Seq(S)
           /\ Len(SubSeq(s, 1, n)) = n
           /\ \A i \in 1 .. n : SubSeq(s, 1, n)[i] = s[i]
<1>1. Len(s) \in Nat /\ n \in Nat /\ n <= Len(s)
  BY LenProperties
<1>2. \A i \in 1 .. n : s[i] \in S
  BY <1>1, ElementOfSeq
<1>3. /\ SubSeq(s, 1, n) \in Seq(S)
      /\ Len(SubSeq(s, 1, n)) = IF 1 <= n THEN n - 1 + 1 ELSE 0
      /\ \A i \in 1 .. n - 1 + 1 : SubSeq(s, 1, n)[i] = s[1 + i - 1]
  <2>1. 1 \in Int /\ n \in Int
    BY <1>1
  <2>2. QED
    BY <2>1, <1>2, SubSeqProperties
<1>4. n - 1 + 1 = n /\ \A i \in 1 .. n : 1 + i - 1 = i
  BY <1>1
<1>5. QED
  BY <1>1, <1>3, <1>4

LEMMA FunctionIsSeq ==
    ASSUME NEW S, NEW m \in Nat, NEW f \in [1 .. m -> S]
    PROVE  f \in Seq(S) /\ Len(f) = m
<1>1. f \in Seq(S)
  BY SeqDef
<1>2. Len(f) \in Nat /\ DOMAIN f = 1 .. Len(f) /\ DOMAIN f = 1 .. m
  BY <1>1, LenProperties
<1>3. QED
  BY <1>2

LEMMA SetAt ==
    ASSUME NEW S, NEW s \in Seq(S), NEW i \in 1 .. Len(s), NEW e \in S,
           NEW u, u = [s EXCEPT ![i] = e]
    PROVE  /\ u \in Seq(S) /\ Len(u) = Len(s) /\ u[i] = e
           /\ \A j \in 1 .. Len(s) : j # i => u[j] = s[j]
BY ExceptSeq

(***************************************************************************)
(* The bytes of a request: a header that says what it is, then its body.   *)
(***************************************************************************)
LEMMA EncodedBody ==
    ASSUME NEW body \in Bodies
    PROVE  /\ body \in Seq(0 .. 255) /\ Len(body) \in {1, 2}
           /\ Encoded(body) \in Seq(0 .. 255) /\ Len(Encoded(body)) = HeaderSize + Len(body)
           /\ Encoded(body)[1] = TYPE_CNTRL
           /\ Encoded(body)[2] \in {CNTRL_ACT_REQ, CNTRL_ARM_REQ}
           /\ BodySize(Encoded(body)[2]) = Len(body)
           /\ \A i \in 1 .. Len(body) : Encoded(body)[HeaderSize + i] = body[i]
<1>1. body \in Seq(0 .. 255) /\ Len(body) \in {1, 2}
  BY StreamAssumption
<1> DEFINE h == <<TYPE_CNTRL, IF Len(body) = 2 THEN CNTRL_ACT_REQ ELSE CNTRL_ARM_REQ>>
<1>2. /\ h \in Seq(0 .. 255) /\ Len(h) = 2 /\ h[1] = TYPE_CNTRL
      /\ h[2] = IF Len(body) = 2 THEN CNTRL_ACT_REQ ELSE CNTRL_ARM_REQ
  BY DEF TYPE_CNTRL, CNTRL_ACT_REQ, CNTRL_ARM_REQ
<1>3. Encoded(body) = h \o body
  BY DEF Encoded
<1> HIDE DEF h
<1>4. /\ h \o body \in Seq(0 .. 255) /\ Len(h \o body) = 2 + Len(body)
      /\ \A i \in 1 .. 2 + Len(body) : (h \o body)[i] = IF i <= 2 THEN h[i] ELSE body[i - 2]
  <2>1. /\ h \o body \in Seq(0 .. 255) /\ Len(h \o body) = Len(h) + Len(body)
        /\ \A i \in 1 .. Len(h) + Len(body) :
              (h \o body)[i] = IF i <= Len(h) THEN h[i] ELSE body[i - Len(h)]
    BY <1>1, <1>2, ConcatProperties
  <2>2. QED
    BY <2>1, <1>2
<1>5. (h \o body)[1] = h[1] /\ (h \o body)[2] = h[2]
  BY <1>1, <1>4
<1>6. \A i \in 1 .. Len(body) : (h \o body)[2 + i] = body[i]
  BY <1>1, <1>4
<1>7. h[2] \in {CNTRL_ACT_REQ, CNTRL_ARM_REQ} /\ BodySize(h[2]) = Len(body)
  BY <1>1, <1>2 DEF BodySize, CNTRL_ACT_REQ, CNTRL_ARM_REQ
<1>8. QED
  BY <1>1, <1>2, <1>3, <1>4, <1>5, <1>6, <1>7 DEF HeaderSize
LEMMA EncodedLength ==
    ASSUME NEW body \in Bodies
    PROVE  Len(Encoded(body)) \in {3, 4}
<1> DEFINE b == Len(body)
           e == Len(Encoded(body))
<1>1. b \in {1, 2} /\ e = HeaderSize + b
  BY EncodedBody
<1> HIDE DEF b, e
<1>2. e \in {3, 4}
  BY <1>1 DEF HeaderSize
<1>3. QED
  BY <1>2 DEF e

(***************************************************************************)
(* One offset serves for all that follows: the conditions of InStep,       *)
(* named.                                                                  *)
(***************************************************************************)
Offsets(off, reqs, first, bytes) ==
    /\ off \in [first .. Len(reqs) + 1 -> -HeaderSize .. 4 * MaxSent]
    /\ \A k \in first .. Len(reqs) + 1 : off[k] <= 4 * (k - 1)
    /\ \A j, k \in first .. Len(reqs) + 1 : j <= k => off[j] <= off[k]
    /\ \A k \in first .. Len(reqs) : off[k + 1] = off[k] + Len(Encoded(reqs[k]))
    /\ \A k \in first .. Len(reqs) : \A i \in 1 .. Len(Encoded(reqs[k])) :
          off[k] + i \in 1 .. Len(bytes) => bytes[off[k] + i] = Encoded(reqs[k])[i]

LEMMA InStepOffsets ==
    ASSUME NEW reqs, NEW first, NEW bytes, NEW taken, NEW lost
    PROVE  InStep(reqs, first, bytes, taken, lost) <=>
              \E off : Offsets(off, reqs, first, bytes) /\ off[first] + taken = 0
                         /\ off[Len(reqs) + 1] = Len(bytes) + lost
BY DEF InStep, Offsets

LEMMA OffsetInt ==
    ASSUME NEW reqs \in Seq(Bodies), NEW first \in 1 .. Len(reqs) + 1, NEW bytes, NEW off,
           Offsets(off, reqs, first, bytes)
    PROVE  off[first] \in Int
<1>1. first \in first .. Len(reqs) + 1
  BY LenProperties
<1>2. off[first] \in -HeaderSize .. 4 * MaxSent
  BY <1>1 DEF Offsets
<1>3. QED
  BY <1>2 DEF HeaderSize

(***************************************************************************)
(* The connection breaks: the end of the stream is lost.                   *)
(***************************************************************************)
LEMMA InStepCut ==
    ASSUME NEW reqs \in Seq(Bodies), NEW first \in 1 .. Len(reqs) + 1, NEW bytes \in Seq(0 .. 255),
           NEW taken \in 0 .. HeaderSize, InStep(reqs, first, bytes, taken, 0),
           NEW n \in 0 .. Len(bytes)
    PROVE  /\ Len(bytes) - n \in 0 .. 4 * MaxSent
           /\ InStep(reqs, first, SubSeq(bytes, 1, n), taken, Len(bytes) - n)
<1> DEFINE t == SubSeq(bytes, 1, n)
<1>1. PICK off : /\ Offsets(off, reqs, first, bytes) /\ off[first] + taken = 0
                 /\ off[Len(reqs) + 1] = Len(bytes) + 0
  BY InStepOffsets
<1>2. Len(t) = n /\ \A i \in 1 .. n : t[i] = bytes[i]
  BY Kept
<1>3. Len(bytes) \in Nat /\ Len(reqs) \in Nat /\ n \in Nat /\ n <= Len(bytes) /\ MaxSent \in Nat
  BY LenProperties, StreamAssumption
<1> HIDE DEF t
<1>4. off[Len(reqs) + 1] <= 4 * MaxSent
  <2>1. Len(reqs) + 1 \in first .. Len(reqs) + 1
    BY <1>3
  <2>2. off[Len(reqs) + 1] \in -HeaderSize .. 4 * MaxSent
    BY <2>1, <1>1 DEF Offsets
  <2>3. QED
    BY <2>2, <1>3 DEF HeaderSize
<1>5. Offsets(off, reqs, first, t)
  <2>1. ASSUME NEW k \in first .. Len(reqs), NEW i \in 1 .. Len(Encoded(reqs[k])),
               off[k] + i \in 1 .. Len(t)
        PROVE  t[off[k] + i] = Encoded(reqs[k])[i]
    <3>1. off[k] + i \in 1 .. n /\ off[k] + i \in 1 .. Len(bytes)
      BY <2>1, <1>2, <1>3
    <3>2. QED
      BY <3>1, <1>1, <1>2 DEF Offsets
  <2>2. QED
    BY <2>1, <1>1 DEF Offsets
<1>6. off[Len(reqs) + 1] = Len(t) + (Len(bytes) - n) /\ Len(bytes) - n \in 0 .. 4 * MaxSent
  BY <1>1, <1>2, <1>3, <1>4
<1>7. QED
  BY <1>1, <1>5, <1>6, InStepOffsets DEF t

(***************************************************************************)
(* n bytes are taken from the front of the stream: all offsets are less by *)
(* n, from any request on whose offset is not less than n - 2.             *)
(***************************************************************************)
LEMMA InStepTake ==
    ASSUME NEW reqs \in Seq(Bodies), NEW first \in 1 .. Len(reqs) + 1, NEW bytes \in Seq(0 .. 255),
           NEW off, Offsets(off, reqs, first, bytes),
           NEW n \in 0 .. Len(bytes), NEW from \in first .. Len(reqs) + 1, NEW taken \in 0 .. HeaderSize,
           off[from] + taken = n,
           NEW lost \in Nat, off[Len(reqs) + 1] = Len(bytes) + lost
    PROVE  InStep(reqs, from, SubSeq(bytes, n + 1, Len(bytes)), taken, lost)
<1> DEFINE t == SubSeq(bytes, n + 1, Len(bytes))
           new == [k \in from .. Len(reqs) + 1 |-> off[k] - n]
<1>1. Len(t) = Len(bytes) - n /\ \A i \in 1 .. Len(bytes) - n : t[i] = bytes[n + i]
  BY Dropped
<1>2. Len(bytes) \in Nat /\ Len(reqs) \in Nat /\ n \in Nat /\ n <= Len(bytes) /\ MaxSent \in Nat
      /\ first \in Nat /\ from \in Nat /\ first <= from /\ from <= Len(reqs) + 1
  BY LenProperties, StreamAssumption
<1> HIDE DEF t
<1>3. ASSUME NEW k \in from .. Len(reqs) + 1
      PROVE  k \in first .. Len(reqs) + 1 /\ k \in Nat /\ off[k] \in Int /\ off[k] <= 4 * MaxSent
             /\ off[from] <= off[k] /\ off[k] <= 4 * (k - 1) /\ new[k] = off[k] - n
  <2>1. k \in first .. Len(reqs) + 1 /\ from \in first .. Len(reqs) + 1 /\ k \in Nat /\ from <= k
    BY <1>2
  <2>2. off[k] \in -HeaderSize .. 4 * MaxSent
    BY <2>1 DEF Offsets
  <2>3. off[from] <= off[k] /\ off[k] <= 4 * (k - 1)
    BY <2>1 DEF Offsets
  <2>4. QED
    BY <2>1, <2>2, <2>3, <1>2 DEF HeaderSize
<1>4. off[from] \in Int /\ from \in from .. Len(reqs) + 1 /\ Len(reqs) + 1 \in from .. Len(reqs) + 1
  BY <1>2, <1>3
<1>5. Offsets(new, reqs, from, t)
  <2>1. new \in [from .. Len(reqs) + 1 -> -HeaderSize .. 4 * MaxSent]
    <3>1. ASSUME NEW k \in from .. Len(reqs) + 1
          PROVE  off[k] - n \in -HeaderSize .. 4 * MaxSent
      <4> DEFINE x == off[k]
                 y == off[from]
      <4>1. /\ x \in Int /\ y \in Int /\ y <= x /\ x <= 4 * MaxSent /\ y + taken = n
            /\ taken \in Nat /\ taken <= HeaderSize
        BY <1>3, <1>4 DEF HeaderSize
      <4> HIDE DEF x, y
      <4>2. x - n \in -HeaderSize .. 4 * MaxSent
        BY <4>1, <1>2 DEF HeaderSize
      <4>3. QED
        BY <4>2 DEF x
    <3>2. QED
      BY <3>1
  <2>2. ASSUME NEW k \in from .. Len(reqs) + 1 PROVE new[k] <= 4 * (k - 1)
    BY <1>2, <1>3
  <2>3. ASSUME NEW j \in from .. Len(reqs) + 1, NEW k \in from .. Len(reqs) + 1, j <= k
        PROVE  new[j] <= new[k]
    <3>1. off[j] <= off[k]
      BY <2>3, <1>3 DEF Offsets
    <3>2. QED
      BY <3>1, <1>2, <1>3
  <2>4. ASSUME NEW k \in from .. Len(reqs)
        PROVE  /\ new[k + 1] = new[k] + Len(Encoded(reqs[k]))
               /\ \A i \in 1 .. Len(Encoded(reqs[k])) :
                     new[k] + i \in 1 .. Len(t) => t[new[k] + i] = Encoded(reqs[k])[i]
    <3>1. k \in from .. Len(reqs) + 1 /\ k + 1 \in from .. Len(reqs) + 1 /\ k \in first .. Len(reqs)
      BY <1>2
    <3>2. reqs[k] \in Bodies
      BY <3>1, <1>2
    <3>3. Len(Encoded(reqs[k])) \in Nat
      BY <3>2, EncodedBody, LenProperties
    <3>4. off[k + 1] = off[k] + Len(Encoded(reqs[k]))
      BY <3>1 DEF Offsets
    <3>5. new[k + 1] = new[k] + Len(Encoded(reqs[k]))
      <4>1. new[k] = off[k] - n /\ off[k] \in Int
        BY <3>1, <1>3
      <4>2. new[k + 1] = off[k + 1] - n
        BY <3>1, <1>3
      <4> HIDE DEF new
      <4>3. QED
        BY <4>1, <4>2, <3>3, <3>4, <1>2
    <3>6. ASSUME NEW i \in 1 .. Len(Encoded(reqs[k])), new[k] + i \in 1 .. Len(t)
          PROVE  t[new[k] + i] = Encoded(reqs[k])[i]
      <4>1. new[k] = off[k] - n /\ off[k] \in Int /\ i \in Nat
        BY <3>1, <3>3, <1>3
      <4>2. /\ new[k] + i \in 1 .. Len(bytes) - n /\ n + (new[k] + i) = off[k] + i
            /\ off[k] + i \in 1 .. Len(bytes)
        <5> DEFINE x == off[k]
                   l == Len(bytes)
        <5>1. new[k] = x - n /\ x \in Int /\ l \in Nat /\ new[k] + i \in 1 .. l - n
          BY <3>6, <4>1, <1>1, <1>2
        <5> HIDE DEF x, l, new
        <5>2. n + (new[k] + i) = x + i /\ x + i \in 1 .. l
          BY <5>1, <4>1, <1>2
        <5>3. QED
          BY <5>1, <5>2 DEF x, l
      <4>3. t[new[k] + i] = bytes[off[k] + i]
        BY <4>2, <1>1
      <4>4. QED
        BY <4>2, <4>3, <3>1 DEF Offsets
    <3>7. QED
      BY <3>5, <3>6
  <2> HIDE DEF new
  <2>5. QED
    BY <2>1, <2>2, <2>3, <2>4 DEF Offsets
<1>6. new[from] + taken = 0 /\ new[Len(reqs) + 1] = Len(t) + lost
  BY <1>1, <1>2, <1>3, <1>4
<1> HIDE DEF new
<1>7. QED
  BY <1>5, <1>6, InStepOffsets DEF t
(***************************************************************************)
(* A part of a header is taken: it is the next part of the header of the   *)
(* first request left.                                                     *)
(***************************************************************************)
LEMMA InStepHeader ==
    ASSUME NEW reqs \in Seq(Bodies), NEW first \in 1 .. Len(reqs) + 1, NEW bytes \in Seq(0 .. 255),
           NEW taken \in 0 .. HeaderSize, NEW lost \in Nat, InStep(reqs, first, bytes, taken, lost),
           NEW n \in 1 .. Len(bytes), taken + n <= HeaderSize
    PROVE  /\ first <= Len(reqs)
           /\ \A i \in 1 .. n : bytes[i] = Encoded(reqs[first])[taken + i]
           /\ InStep(reqs, first, SubSeq(bytes, n + 1, Len(bytes)), taken + n, lost)
<1>1. PICK off : /\ Offsets(off, reqs, first, bytes) /\ off[first] + taken = 0
                 /\ off[Len(reqs) + 1] = Len(bytes) + lost
  BY InStepOffsets
<1>2. /\ Len(bytes) \in Nat /\ Len(reqs) \in Nat /\ n \in Nat /\ n <= Len(bytes) /\ 1 <= n
      /\ first \in Nat /\ taken \in Nat /\ first \in first .. Len(reqs) + 1 /\ off[first] \in Int
  BY <1>1, OffsetInt, LenProperties DEF HeaderSize
<1>3. first <= Len(reqs)
  <2>1. CASE first = Len(reqs) + 1
    BY <2>1, <1>1, <1>2
  <2>2. QED
    BY <2>1, <1>2
<1>4. ASSUME NEW i \in 1 .. n PROVE bytes[i] = Encoded(reqs[first])[taken + i]
  <2>1. reqs[first] \in Bodies
    BY <1>2, <1>3
  <2>2. Len(Encoded(reqs[first])) \in {3, 4}
    BY <2>1, EncodedLength
  <2>3. /\ taken + i \in 1 .. Len(Encoded(reqs[first])) /\ off[first] + (taken + i) = i
        /\ i \in 1 .. Len(bytes) /\ first \in first .. Len(reqs)
    <3>1. i \in Nat /\ 1 <= i /\ i <= n /\ off[first] \in Int /\ first \in first .. Len(reqs)
      BY <1>1, <1>2, <1>3
    <3>2. taken + i \in 1 .. Len(Encoded(reqs[first]))
      <4> DEFINE e == Len(Encoded(reqs[first]))
      <4>1. e \in {3, 4}
        BY <2>2
      <4> HIDE DEF e
      <4>2. taken + i \in 1 .. e
        BY <4>1, <3>1, <1>2 DEF HeaderSize
      <4>3. QED
        BY <4>2 DEF e
    <3>3. off[first] + (taken + i) = i /\ i \in 1 .. Len(bytes)
      <4> DEFINE x == off[first]
                 l == Len(bytes)
      <4>1. x \in Int /\ x + taken = 0 /\ l \in Nat /\ n <= l
        BY <1>1, <1>2
      <4> HIDE DEF x, l
      <4>2. x + (taken + i) = i /\ i \in 1 .. l
        BY <4>1, <3>1, <1>2
      <4>3. QED
        BY <4>2 DEF x, l
    <3>4. QED
      BY <3>1, <3>2, <3>3
  <2>4. off[first] + (taken + i) \in 1 .. Len(bytes) =>
          bytes[off[first] + (taken + i)] = Encoded(reqs[first])[taken + i]
    BY <2>3, <1>1 DEF Offsets
  <2>5. QED
    BY <2>3, <2>4
<1>5. off[first] + (taken + n) = n /\ taken + n \in 0 .. HeaderSize /\ n \in 0 .. Len(bytes)
  BY <1>1, <1>2 DEF HeaderSize
<1>6. InStep(reqs, first, SubSeq(bytes, n + 1, Len(bytes)), taken + n, lost)
  BY <1>1, <1>2, <1>5, InStepTake
<1>7. QED
  BY <1>3, <1>4, <1>6

(***************************************************************************)
(* A whole body is taken: it is that of the first request left, and the    *)
(* next request begins where the stream now does.                          *)
(***************************************************************************)
LEMMA InStepBody ==
    ASSUME NEW reqs \in Seq(Bodies), NEW first \in 1 .. Len(reqs), NEW bytes \in Seq(0 .. 255),
           NEW lost \in Nat, InStep(reqs, first, bytes, HeaderSize, lost),
           Len(reqs[first]) <= Len(bytes)
    PROVE  /\ \A i \in 1 .. Len(reqs[first]) : bytes[i] = reqs[first][i]
           /\ InStep(reqs, first + 1, SubSeq(bytes, Len(reqs[first]) + 1, Len(bytes)), 0, lost)
<1> DEFINE body == reqs[first]
<1>1. PICK off : /\ Offsets(off, reqs, first, bytes) /\ off[first] + HeaderSize = 0
                 /\ off[Len(reqs) + 1] = Len(bytes) + lost
  BY InStepOffsets
<1>2. /\ Len(bytes) \in Nat /\ Len(reqs) \in Nat /\ first \in Nat /\ first <= Len(reqs)
      /\ first \in first .. Len(reqs) /\ off[first] \in Int
  <2>1. first \in 1 .. Len(reqs) + 1
    BY LenProperties
  <2>2. QED
    BY <2>1, <1>1, OffsetInt, LenProperties
<1>3. body \in Bodies
  BY <1>2
<1>4. /\ Len(body) \in {1, 2} /\ Len(Encoded(body)) = HeaderSize + Len(body)
      /\ \A i \in 1 .. Len(body) : Encoded(body)[HeaderSize + i] = body[i]
  BY <1>3, EncodedBody
<1>5. ASSUME NEW i \in 1 .. Len(body) PROVE bytes[i] = body[i]
  <2>1. /\ HeaderSize + i \in 1 .. Len(Encoded(body)) /\ off[first] + (HeaderSize + i) = i
        /\ i \in 1 .. Len(bytes)
    <3> DEFINE x == off[first]
               l == Len(bytes)
               b == Len(body)
               e == Len(Encoded(body))
    <3>1. x \in Int /\ x + 2 = 0 /\ l \in Nat /\ b \in {1, 2} /\ e = 2 + b /\ b <= l /\ i \in 1 .. b
      BY <1>1, <1>2, <1>4 DEF HeaderSize
    <3> HIDE DEF x, l, b, e
    <3>2. 2 + i \in 1 .. e /\ x + (2 + i) = i /\ i \in 1 .. l
      BY <3>1
    <3>3. QED
      BY <3>2 DEF x, l, e, HeaderSize
  <2>2. off[first] + (HeaderSize + i) \in 1 .. Len(bytes) =>
          bytes[off[first] + (HeaderSize + i)] = Encoded(body)[HeaderSize + i]
    BY <2>1, <1>1, <1>2 DEF Offsets
  <2>3. QED
    BY <2>1, <2>2, <1>4
<1>6. off[first + 1] = off[first] + Len(Encoded(body))
  BY <1>1, <1>2 DEF Offsets
<1>7. /\ Len(body) \in 0 .. Len(bytes) /\ first + 1 \in first .. Len(reqs) + 1
      /\ first \in 1 .. Len(reqs) + 1 /\ 0 \in 0 .. HeaderSize /\ off[first + 1] + 0 = Len(body)
  <2>1. Len(body) \in 0 .. Len(bytes) /\ first + 1 \in first .. Len(reqs) + 1
        /\ first \in 1 .. Len(reqs) + 1 /\ 0 \in 0 .. HeaderSize
    BY <1>2, <1>4 DEF HeaderSize
  <2>2. off[first + 1] = Len(body)
    <3> DEFINE x == off[first]
               y == off[first + 1]
               b == Len(body)
    <3>1. x \in Int /\ x + 2 = 0 /\ b \in {1, 2} /\ y = x + (2 + b)
      BY <1>1, <1>2, <1>4, <1>6 DEF HeaderSize
    <3> HIDE DEF x, y, b
    <3>2. y = b
      BY <3>1
    <3>3. QED
      BY <3>2 DEF y, b
  <2>3. off[first + 1] + 0 = Len(body)
    <3> DEFINE b == Len(body)
    <3>1. b \in {1, 2} /\ off[first + 1] = b
      BY <2>2, <1>4
    <3> HIDE DEF b
    <3>2. off[first + 1] + 0 = b
      BY <3>1
    <3>3. QED
      BY <3>2 DEF b
  <2>4. QED
    BY <2>1, <2>3
<1> HIDE DEF body
<1>8. InStep(reqs, first + 1, SubSeq(bytes, Len(body) + 1, Len(bytes)), 0, lost)
  BY <1>1, <1>7, InStepTake
<1>9. QED
  BY <1>5, <1>8 DEF body

(***************************************************************************)
(* Nothing is left of a stream that lost nothing, and the server is not    *)
(* behind a header: nothing is left of the requests either.                *)
(***************************************************************************)
LEMMA InStepEnd ==
    ASSUME NEW reqs \in Seq(Bodies), NEW first \in 1 .. Len(reqs) + 1, NEW bytes \in Seq(0 .. 255),
           NEW taken \in 0 .. HeaderSize - 1, InStep(reqs, first, bytes, taken, 0), Len(bytes) = 0
    PROVE  first = Len(reqs) + 1
<1>1. PICK off : /\ Offsets(off, reqs, first, bytes) /\ off[first] + taken = 0
                 /\ off[Len(reqs) + 1] = Len(bytes) + 0
  BY InStepOffsets
<1>2. Len(reqs) \in Nat /\ first \in Nat /\ taken \in Nat /\ taken <= 1 /\ off[first] \in Int
  BY <1>1, OffsetInt, LenProperties DEF HeaderSize
<1> SUFFICES ASSUME first <= Len(reqs) PROVE FALSE
  BY <1>2
<1>3. reqs[first] \in Bodies /\ first \in first .. Len(reqs)
  BY <1>2
<1>4. Len(Encoded(reqs[first])) \in {3, 4}
  BY <1>3, EncodedLength
<1>5. off[first + 1] = off[first] + Len(Encoded(reqs[first]))
  BY <1>1, <1>3 DEF Offsets
<1>6. first + 1 \in first .. Len(reqs) + 1 /\ Len(reqs) + 1 \in first .. Len(reqs) + 1
      /\ first + 1 <= Len(reqs) + 1
  BY <1>2
<1>7. off[first + 1] <= off[Len(reqs) + 1]
  BY <1>1, <1>6 DEF Offsets
<1>8. off[Len(reqs) + 1] = 0 /\ off[first] \in Int /\ off[first] >= -1
  BY <1>1, <1>2
<1> DEFINE e == Len(Encoded(reqs[first]))
           l == Len(reqs)
<1>9. e \in {3, 4} /\ off[first + 1] = off[first] + e /\ off[first + 1] <= off[l + 1]
      /\ off[l + 1] = 0
  BY <1>4, <1>5, <1>7, <1>8
<1> HIDE DEF e, l
<1>10. QED
  BY <1>8, <1>9
(***************************************************************************)
(* A request is sent: its bytes follow those of the last one.              *)
(***************************************************************************)
LEMMA InStepSend ==
    ASSUME NEW reqs \in Seq(Bodies), NEW first \in 1 .. Len(reqs) + 1, NEW bytes \in Seq(0 .. 255),
           NEW taken \in 0 .. HeaderSize, InStep(reqs, first, bytes, taken, 0),
           NEW body \in Bodies, Len(reqs) < MaxSent
    PROVE  InStep(Append(reqs, body), first, bytes \o Encoded(body), taken, 0)
<1> DEFINE r == Append(reqs, body)
           m == Len(reqs)
           l == Len(bytes)
           e == Len(Encoded(body))
           t == bytes \o Encoded(body)
<1>1. PICK off : /\ Offsets(off, reqs, first, bytes) /\ off[first] + taken = 0
                 /\ off[m + 1] = l + 0
  BY InStepOffsets
<1>2. /\ r \in Seq(Bodies) /\ Len(r) = m + 1 /\ r[m + 1] = body
      /\ \A k \in 1 .. m : r[k] = reqs[k]
  BY AppendProperties
<1>3. /\ Len(t) = l + e
      /\ \A i \in 1 .. l + e : t[i] = IF i <= l THEN bytes[i] ELSE Encoded(body)[i - l]
  BY EncodedBody, ConcatProperties
<1>4. /\ m \in Nat /\ l \in Nat /\ e \in {3, 4} /\ MaxSent \in Nat /\ m < MaxSent
      /\ first \in Nat /\ 1 <= first /\ first <= m + 1
  BY LenProperties, EncodedLength, StreamAssumption
<1>5. ASSUME NEW k \in first .. m + 1
      PROVE  off[k] \in -HeaderSize .. 4 * MaxSent /\ off[k] \in Int /\ off[k] <= 4 * (k - 1)
             /\ off[k] <= off[m + 1]
  <2>1. off[k] \in -HeaderSize .. 4 * MaxSent
    BY <1>1 DEF Offsets
  <2>2. k <= m + 1 /\ m + 1 \in first .. m + 1
    BY <1>4
  <2>3. off[k] <= 4 * (k - 1) /\ off[k] <= off[m + 1]
    BY <2>2, <1>1 DEF Offsets
  <2>4. QED
    BY <2>1, <2>3, <1>4 DEF HeaderSize
<1>6. ASSUME NEW k \in first .. m
      PROVE  /\ off[k + 1] = off[k] + Len(Encoded(reqs[k])) /\ Len(Encoded(reqs[k])) \in {3, 4}
             /\ \A i \in 1 .. Len(Encoded(reqs[k])) :
                   off[k] + i \in 1 .. l => bytes[off[k] + i] = Encoded(reqs[k])[i]
  <2>1. reqs[k] \in Bodies
    BY <1>4
  <2>2. QED
    BY <2>1, <1>1, EncodedLength DEF Offsets
<1>7. ASSUME NEW j \in first .. m + 1, NEW k \in first .. m + 1, j <= k
      PROVE  off[j] <= off[k]
  BY <1>7, <1>1 DEF Offsets
<1>8. off[m + 1] = l
  BY <1>1, <1>4
<1> DEFINE new == [k \in first .. m + 2 |-> IF k = m + 2 THEN l + e ELSE off[k]]
<1> HIDE DEF r, m, l, e, t
<1>9. l <= 4 * m
  BY <1>4, <1>5, <1>8
<1>10. new[m + 2] = l + e /\ \A k \in first .. m + 1 : new[k] = off[k]
  BY <1>4
<1>11. new \in [first .. m + 2 -> -HeaderSize .. 4 * MaxSent]
  <2>1. l + e \in -HeaderSize .. 4 * MaxSent
    BY <1>4, <1>9 DEF HeaderSize
  <2>2. ASSUME NEW k \in first .. m + 2, k # m + 2 PROVE k \in first .. m + 1
    BY <2>2, <1>4
  <2>3. QED
    BY <2>1, <2>2, <1>5
<1> HIDE DEF new
<1>12. ASSUME NEW k \in first .. m + 2
       PROVE  new[k] <= 4 * (k - 1)
  <2>1. CASE k = m + 2
    BY <2>1, <1>4, <1>9, <1>10
  <2>2. CASE k \in first .. m + 1
    BY <2>2, <1>5, <1>10
  <2>3. QED
    BY <2>1, <2>2, <1>4
<1>13. ASSUME NEW j \in first .. m + 2, NEW k \in first .. m + 2, j <= k
       PROVE  new[j] <= new[k]
  <2>1. CASE k = m + 2 /\ j = m + 2
    BY <2>1, <1>4, <1>10
  <2>2. CASE k = m + 2 /\ j \in first .. m + 1
    <3>1. off[j] \in Int /\ off[j] <= l /\ new[j] = off[j] /\ new[k] = l + e
      BY <2>2, <1>5, <1>8, <1>10
    <3>2. QED
      BY <3>1, <1>4
  <2>3. CASE k \in first .. m + 1 /\ j \in first .. m + 1
    BY <2>3, <1>7, <1>10, <1>13
  <2>4. QED
    BY <2>1, <2>2, <2>3, <1>4, <1>13
<1>14. ASSUME NEW k \in first .. m + 1
       PROVE  /\ new[k + 1] = new[k] + Len(Encoded(r[k]))
              /\ \A i \in 1 .. Len(Encoded(r[k])) :
                    new[k] + i \in 1 .. Len(t) => t[new[k] + i] = Encoded(r[k])[i]
  <2>1. CASE k = m + 1
    <3>1. r[k] = body /\ Len(Encoded(r[k])) = e
      BY <2>1, <1>2 DEF e
    <3>2. new[k] = l /\ new[k + 1] = l + e
      <4>1. k + 1 = m + 2
        BY <2>1, <1>4
      <4>2. QED
        BY <4>1, <2>1, <1>8, <1>10
    <3>3. ASSUME NEW i \in 1 .. e PROVE t[l + i] = Encoded(body)[i]
      <4> DEFINE x == l + i
      <4>1. x \in 1 .. l + e /\ ~(x <= l) /\ x - l = i
        BY <1>4
      <4> HIDE DEF x
      <4>2. t[x] = IF x <= l THEN bytes[x] ELSE Encoded(body)[x - l]
        BY <4>1, <1>3
      <4>3. t[x] = Encoded(body)[i]
        BY <4>1, <4>2
      <4>4. QED
        BY <4>3 DEF x
    <3>4. QED
      BY <3>1, <3>2, <3>3
  <2>2. CASE k \in first .. m
    <3>1. r[k] = reqs[k]
      BY <2>2, <1>2, <1>4
    <3>2. new[k] = off[k] /\ new[k + 1] = off[k + 1] /\ off[k] \in Int /\ off[k + 1] \in Int
          /\ off[k + 1] <= l
      <4>1. k + 1 \in first .. m + 1
        BY <2>2, <1>4
      <4>2. QED
        BY <4>1, <1>5, <1>8, <1>10
    <3> DEFINE c == Encoded(reqs[k])
               d == Len(c)
    <3>3. /\ off[k + 1] = off[k] + d /\ d \in {3, 4}
          /\ \A i \in 1 .. d : off[k] + i \in 1 .. l => bytes[off[k] + i] = c[i]
      BY <2>2, <1>6
    <3> HIDE DEF c, d
    <3>4. ASSUME NEW i \in 1 .. d, new[k] + i \in 1 .. l + e PROVE t[new[k] + i] = c[i]
      <4>1. new[k] + i \in 1 .. l /\ new[k] + i <= l
        <5> DEFINE x == off[k]
                   y == off[k + 1]
        <5>1. /\ x \in Int /\ y = x + d /\ y <= l /\ new[k] = x /\ d \in {3, 4} /\ i \in 1 .. d
              /\ 1 <= x + i
          BY <3>2, <3>3, <3>4, <1>4
        <5> HIDE DEF x, y
        <5>2. QED
          BY <5>1, <1>4
      <4>2. QED
        BY <4>1, <3>2, <3>3, <3>4, <1>3
    <3>5. QED
      BY <3>1, <3>2, <3>3, <3>4, <1>3 DEF c, d
  <2>3. QED
    BY <2>1, <2>2, <1>4
<1>15. Offsets(new, r, first, t)
  <2>1. Len(r) = m + 1 /\ m + 1 + 1 = m + 2
    BY <1>2, <1>4
  <2>2. QED
    BY <2>1, <1>11, <1>12, <1>13, <1>14 DEF Offsets
<1>16. new[first] + taken = 0 /\ new[Len(r) + 1] = Len(t) + 0
  <2>1. new[first] + taken = 0
    BY <1>1, <1>4, <1>10
  <2>2. Len(r) + 1 = m + 2 /\ Len(t) + 0 = l + e
    BY <1>2, <1>3, <1>4
  <2>3. QED
    BY <2>1, <2>2, <1>10
<1>17. InStep(r, first, t, taken, 0)
  BY <1>15, <1>16, InStepOffsets
<1>18. QED
  BY <1>17 DEF r, t
-----------------------------------------------------------------------------
(***************************************************************************)
(* The state, by connection.                                               *)
(***************************************************************************)
LEMMA ConnTypes ==
    ASSUME StreamTypeOK
    PROVE  /\ Newest \in Nat /\ Opened = 1 .. Newest /\ Len(hdr) \in 0 .. HeaderSize
           /\ \A c \in Opened : /\ sent[c] \in Seq(Bodies) /\ stream[c] \in Seq(0 .. 255)
                                 /\ executed[c] \in Seq(Seq(0 .. 255))
<1>1. /\ sent \in Seq(Seq(Bodies)) /\ stream \in Seq(Seq(0 .. 255)) /\ Len(stream) = Newest
      /\ executed \in Seq(Seq(Seq(0 .. 255))) /\ Len(executed) = Newest /\ hdr \in Seq(0 .. 255)
  BY DEF StreamTypeOK
<1>2. Newest \in Nat /\ Opened = 1 .. Newest
  BY <1>1, LenProperties DEF Newest, Opened
<1>3. Len(hdr) \in 0 .. HeaderSize
  <2> DEFINE n == Len(hdr)
  <2>1. n \in Nat
    BY <1>1, LenProperties
  <2>2. n = HeaderSize \/ n < HeaderSize
    BY DEF StreamTypeOK
  <2> HIDE DEF n
  <2>3. n \in 0 .. HeaderSize
    BY <2>1, <2>2 DEF HeaderSize
  <2>4. QED
    BY <2>3 DEF n
<1>4. ASSUME NEW c \in Opened
      PROVE  /\ sent[c] \in Seq(Bodies) /\ stream[c] \in Seq(0 .. 255)
             /\ executed[c] \in Seq(Seq(0 .. 255))
  <2>1. c \in 1 .. Len(sent) /\ c \in 1 .. Len(stream) /\ c \in 1 .. Len(executed)
    BY <1>1, <1>2 DEF Newest
  <2>2. QED
    BY <2>1, <1>1, ElementOfSeq
<1>5. QED
  BY <1>2, <1>3, <1>4

(***************************************************************************)
(* k bytes are received from the connection served.                        *)
(***************************************************************************)
LEMMA Consumed ==
    ASSUME StreamTypeOK, conn \in Opened, NEW t \in Seq(0 .. 255),
           stream' = [stream EXCEPT ![conn] = t]
    PROVE  /\ stream' \in Seq(Seq(0 .. 255)) /\ Len(stream') = Newest /\ stream'[conn] = t
           /\ \A c \in Opened \ {conn} : stream'[c] = stream[c]
<1> DEFINE S == Seq(0 .. 255)
<1>1. /\ stream \in Seq(S) /\ t \in S /\ Len(stream) = Newest /\ Opened = 1 .. Newest
      /\ conn \in 1 .. Len(stream)
  BY ConnTypes DEF StreamTypeOK
<1> HIDE DEF S
<1>2. /\ stream' \in Seq(S) /\ Len(stream') = Len(stream) /\ stream'[conn] = t
      /\ \A j \in 1 .. Len(stream) : j # conn => stream'[j] = stream[j]
  BY <1>1, SetAt
<1>3. QED
  BY <1>1, <1>2 DEF S

LEMMA ReceivedBytes ==
    ASSUME StreamTypeOK, srv # "accept", NEW n \in Nat, NEW bytes \in Received(n)
    PROVE  /\ conn \in Opened /\ Len(bytes) \in 0 .. Len(stream[conn]) /\ Len(bytes) <= n
           /\ bytes \in Seq(0 .. 255)
           /\ \A i \in 1 .. Len(bytes) : bytes[i] = stream[conn][i]
           /\ bytes # <<>> => Len(bytes) \in 1 .. Len(stream[conn])
<1>1. conn \in Opened /\ conn # 0 /\ Bytes = stream[conn] /\ stream[conn] \in Seq(0 .. 255)
  <2>1. conn \in 0 .. Newest /\ conn > 0
    BY DEF StreamTypeOK
  <2>2. conn \in Opened /\ conn # 0
    BY <2>1, ConnTypes
  <2>3. QED
    BY <2>2, ConnTypes DEF Bytes
<1>2. Len(stream[conn]) \in Nat
  BY <1>1, LenProperties
<1>3. CASE bytes = <<>>
  BY <1>1, <1>2, <1>3, EmptySeq
<1>4. CASE \E k \in 1 .. (IF n < Len(Bytes) THEN n ELSE Len(Bytes)) : bytes = SubSeq(Bytes, 1, k)
  <2>1. PICK k \in 1 .. (IF n < Len(Bytes) THEN n ELSE Len(Bytes)) : bytes = SubSeq(stream[conn], 1, k)
    BY <1>1, <1>4
  <2>2. k \in 0 .. Len(stream[conn]) /\ k \in 1 .. Len(stream[conn]) /\ k <= n
    BY <1>1, <1>2
  <2>3. bytes \in Seq(0 .. 255) /\ Len(bytes) = k /\ \A i \in 1 .. k : bytes[i] = stream[conn][i]
    BY <1>1, <2>1, <2>2, Kept
  <2>4. QED
    BY <1>1, <2>2, <2>3
<1>5. QED
  BY <1>3, <1>4 DEF Received

(***************************************************************************)
(* A connection stays in step if nothing happens to it but that it is      *)
(* accepted, or left after it lost bytes.                                  *)
(***************************************************************************)
LEMMA Untouched ==
    ASSUME NEW c, ConnInv(c), sent'[c] = sent[c], stream'[c] = stream[c], executed'[c] = executed[c],
           c \in torn => c \in torn',
           Left(c)' /\ c \notin torn' => Left(c),
           ~Left(c)' => ~Left(c) /\ Taken(c)' = Taken(c),
           ~Left(c)' /\ c = conn' => Len(hdr') = 0 \/ (c = conn /\ hdr' = hdr)
    PROVE  ConnInv(c)'
<1>1. Agrees(c)'
  BY DEF ConnInv, Agrees
<1>2. Left(c)' /\ c \notin torn' => Len(executed'[c]) = Len(sent'[c])
  BY DEF ConnInv
<1>3. ASSUME ~Left(c)' PROVE Aligned(c)'
  <2>1. Aligned(c) /\ Taken(c)' = Taken(c)
    BY <1>3 DEF ConnInv
  <2>2. \E lost \in 0 .. 4 * MaxSent :
          /\ InStep(sent'[c], Len(executed'[c]) + 1, stream'[c], Taken(c)', lost)
          /\ c \notin torn' => lost = 0
    BY <2>1 DEF Aligned
  <2>3. ASSUME c = conn', NEW i \in 1 .. Len(hdr')
        PROVE  Len(executed'[c]) < Len(sent'[c])
               /\ hdr'[i] = Encoded(sent'[c][Len(executed'[c]) + 1])[i]
    <3>1. CASE Len(hdr') = 0
      BY <2>3, <3>1
    <3>2. CASE c = conn /\ hdr' = hdr
      BY <2>1, <2>3, <3>2 DEF Aligned
    <3>3. QED
      BY <3>1, <3>2, <1>3, <2>3
  <2>4. QED
    BY <2>2, <2>3 DEF Aligned
<1>4. QED
  BY <1>1, <1>2, <1>3 DEF ConnInv
-----------------------------------------------------------------------------
(***************************************************************************)
(* The clients and the network.                                            *)
(***************************************************************************)
LEMMA OpenStep ==
    ASSUME StreamInv, Open
    PROVE  StreamInv'
<1>1. /\ StreamTypeOK /\ InTurn /\ Newest \in Nat /\ Opened = 1 .. Newest /\ ended = Opened
      /\ Newest < MaxConns /\ MaxConns \in Nat /\ MaxSent \in Nat
  BY ConnTypes, StreamAssumption DEF StreamInv, Open
<1>2. UNCHANGED <<ended, srv, conn, hdr, short, torn>>
  BY DEF Open
<1>3. /\ sent' \in Seq(Seq(Bodies)) /\ Len(sent') = Newest + 1 /\ sent'[Newest + 1] = <<>>
      /\ \A c \in 1 .. Newest : sent'[c] = sent[c]
  <2>1. sent \in Seq(Seq(Bodies)) /\ <<>> \in Seq(Bodies) /\ sent' = Append(sent, <<>>)
    BY <1>1, EmptySeq DEF StreamTypeOK, Open
  <2>2. QED
    BY <2>1, AppendProperties DEF Newest
<1>4. /\ stream' \in Seq(Seq(0 .. 255)) /\ Len(stream') = Newest + 1 /\ stream'[Newest + 1] = <<>>
      /\ \A c \in 1 .. Newest : stream'[c] = stream[c]
  <2>1. /\ stream \in Seq(Seq(0 .. 255)) /\ <<>> \in Seq(0 .. 255) /\ Len(stream) = Newest
        /\ stream' = Append(stream, <<>>)
    BY <1>1, EmptySeq DEF StreamTypeOK, Open
  <2>2. QED
    BY <2>1, AppendProperties
<1>5. /\ executed' \in Seq(Seq(Seq(0 .. 255))) /\ Len(executed') = Newest + 1
      /\ executed'[Newest + 1] = <<>> /\ \A c \in 1 .. Newest : executed'[c] = executed[c]
  <2>1. /\ executed \in Seq(Seq(Seq(0 .. 255))) /\ <<>> \in Seq(Seq(0 .. 255))
        /\ Len(executed) = Newest /\ executed' = Append(executed, <<>>)
    BY <1>1, EmptySeq DEF StreamTypeOK, Open
  <2>2. QED
    BY <2>1, AppendProperties
<1>6. Newest' = Newest + 1 /\ Opened' = 1 .. Newest + 1
  BY <1>3, LenProperties DEF Newest, Opened
<1>7. conn \in 0 .. Newest
  BY <1>1 DEF StreamTypeOK
<1>8. StreamTypeOK'
  <2>1. ASSUME NEW c \in 1 .. Newest + 1 PROVE Len(sent'[c]) <= MaxSent
    <3>1. CASE c = Newest + 1
      BY <3>1, <1>1, <1>3, EmptySeq
    <3>2. CASE c \in 1 .. Newest
      BY <3>2, <1>1, <1>3 DEF StreamTypeOK
    <3>3. QED
      BY <3>1, <3>2, <1>1
  <2>2. /\ Newest + 1 <= MaxConns /\ conn \in 0 .. Newest + 1 /\ 1 .. Newest \subseteq 1 .. Newest + 1
    BY <1>1, <1>7
  <2>3. /\ ended \subseteq 1 .. Newest + 1 /\ short \subseteq 1 .. Newest + 1
        /\ torn \subseteq ended
    BY <2>2, <1>1 DEF StreamTypeOK
  <2>4. QED
    BY <2>1, <2>2, <2>3, <1>1, <1>2, <1>3, <1>4, <1>5, <1>6 DEF StreamTypeOK
<1>9. InTurn'
  <2>1. ASSUME NEW c \in 1 .. Newest + 1, c # Newest + 1 \/ Left(c)' PROVE c \in ended
    <3>1. c <= Newest
      BY <2>1, <1>1, <1>2, <1>7 DEF Left
    <3>2. QED
      BY <3>1, <1>1
  <2>2. ASSUME NEW c \in 1 .. Newest + 1, c > conn PROVE executed'[c] = <<>>
    <3>1. CASE c = Newest + 1
      BY <3>1, <1>5
    <3>2. CASE c \in 1 .. Newest
      BY <3>2, <2>2, <1>1, <1>5 DEF InTurn
    <3>3. QED
      BY <3>1, <3>2, <1>1
  <2>3. QED
    BY <2>1, <2>2, <1>2, <1>6 DEF InTurn
<1>10. ASSUME NEW c \in 1 .. Newest, c \notin short PROVE ConnInv(c)'
  <2>1. ConnInv(c)
    BY <1>10, <1>1 DEF StreamInv
  <2>2. (Left(c)' <=> Left(c)) /\ Taken(c)' = Taken(c)
    BY <1>2 DEF Left, Taken
  <2>3. sent'[c] = sent[c] /\ stream'[c] = stream[c] /\ executed'[c] = executed[c]
    BY <1>3, <1>4, <1>5
  <2>4. QED
    BY <2>1, <2>2, <2>3, <1>2, Untouched
<1>11. ASSUME NEW c, c = Newest + 1 PROVE ConnInv(c)'
  <2> DEFINE off == [k \in 1 .. 1 |-> 0]
             zero == 0
  <2>1. sent'[c] = <<>> /\ stream'[c] = <<>> /\ executed'[c] = <<>> /\ Len(<<>>) = 0
    BY <1>3, <1>4, <1>5, <1>11, EmptySeq
  <2>2. c # conn /\ ~(c < conn) /\ c \notin torn
    BY <1>1, <1>7, <1>11 DEF StreamTypeOK
  <2>3. Offsets(off, <<>>, 1, <<>>) /\ off[1] = 0
    <3>1. 0 + 1 = 1 /\ \A k \in 1 .. 0 : FALSE
      OBVIOUS
    <3>2. off \in [1 .. 1 -> -HeaderSize .. 4 * MaxSent] /\ \A k \in 1 .. 1 : off[k] = 0 /\ 0 <= 4 * (k - 1)
      BY <1>1 DEF HeaderSize
    <3> HIDE DEF off
    <3>3. QED
      BY <3>1, <3>2, <2>1 DEF Offsets
  <2> HIDE DEF off
  <2>4. zero = 0 /\ off[1] + zero = 0 /\ off[Len(<<>>) + 1] = Len(<<>>) + zero
    <3>1. zero = 0
      OBVIOUS
    <3> DEFINE l == Len(<<>>)
    <3>2. l = 0
      BY <2>1
    <3>3. off[1] = 0
      BY <2>3
    <3> HIDE DEF zero, l
    <3>4. off[1] + zero = 0 /\ off[l + 1] = l + zero
      BY <3>1, <3>2, <3>3
    <3>5. QED
      BY <3>1, <3>3, <3>4 DEF l
  <2> HIDE DEF zero
  <2>5. InStep(<<>>, 1, <<>>, zero, zero)
    BY <2>3, <2>4, InStepOffsets
  <2>6. InStep(sent'[c], Len(executed'[c]) + 1, stream'[c], 0, 0) /\ 0 \in 0 .. 4 * MaxSent
    <3>1. Len(executed'[c]) + 1 = 1 /\ 0 \in 0 .. 4 * MaxSent
      BY <2>1, <1>1
    <3>2. QED
      BY <2>1, <2>4, <2>5, <3>1
  <2>7. ~Left(c)' /\ Taken(c)' = 0 /\ c # conn'
    BY <2>2, <1>2 DEF Left, Taken
  <2>8. Agrees(c)'
    BY <2>1 DEF Agrees
  <2>9. Aligned(c)'
    BY <2>7, <2>6 DEF Aligned
  <2>10. QED
    BY <2>7, <2>8, <2>9 DEF ConnInv
<1>12. ASSUME NEW c \in Opened' \ short' PROVE ConnInv(c)'
  <2>1. CASE c = Newest + 1
    BY <2>1, <1>11
  <2>2. CASE c \in 1 .. Newest
    BY <2>2, <1>2, <1>10, <1>12
  <2>3. QED
    BY <2>1, <2>2, <1>1, <1>6
<1>13. QED
  BY <1>8, <1>9, <1>12 DEF StreamInv
LEMMA SendStep ==
    ASSUME StreamInv, NEW body \in Bodies, Send(body)
    PROVE  StreamInv'
<1> DEFINE N == Newest
           r == Append(sent[N], body)
           t == stream[N] \o Encoded(body)
<1>1. /\ StreamTypeOK /\ InTurn /\ N \in Nat /\ Opened = 1 .. N /\ N \in Opened /\ N \notin ended
      /\ sent[N] \in Seq(Bodies) /\ stream[N] \in Seq(0 .. 255)
      /\ executed[N] \in Seq(Seq(0 .. 255))
  <2>1. StreamTypeOK /\ InTurn /\ N \in Nat /\ Opened = 1 .. N /\ N > 0 /\ N \notin ended
    BY ConnTypes DEF StreamInv, Send
  <2>2. N \in Opened
    BY <2>1
  <2>3. QED
    BY <2>1, <2>2, ConnTypes
<1>2. UNCHANGED <<ended, srv, conn, hdr, executed, short, torn>>
  BY DEF Send
<1>3. ~Left(N) /\ N \notin torn
  BY <1>1 DEF InTurn, StreamTypeOK
<1>4. r \in Seq(Bodies) /\ t \in Seq(0 .. 255)
  BY <1>1, AppendProperties, EncodedBody, ConcatProperties
<1>5. Len(r) = Len(sent[N]) + 1 /\ Len(sent[N]) \in Nat /\ Len(sent[N]) < MaxSent /\ MaxSent \in Nat
      /\ \A k \in 1 .. Len(sent[N]) : r[k] = sent[N][k]
  BY <1>1, AppendProperties, LenProperties, StreamAssumption DEF Send
<1>6. sent' = [sent EXCEPT ![N] = r] /\ stream' = [stream EXCEPT ![N] = t]
  BY DEF Send
<1>7. Agrees(N) /\ InStep(sent[N], Len(executed[N]) + 1, stream[N], Taken(N), 0)
      => InStep(r, Len(executed[N]) + 1, t, Taken(N), 0)
  <2> SUFFICES ASSUME Agrees(N), InStep(sent[N], Len(executed[N]) + 1, stream[N], Taken(N), 0)
               PROVE  InStep(r, Len(executed[N]) + 1, t, Taken(N), 0)
    OBVIOUS
  <2>1. Taken(N) \in 0 .. HeaderSize
    BY <1>1, ConnTypes DEF Taken, HeaderSize
  <2>2. Len(executed[N]) \in Nat /\ Len(executed[N]) <= Len(sent[N])
    BY <1>1, LenProperties DEF Agrees
  <2>3. Len(executed[N]) + 1 \in 1 .. Len(sent[N]) + 1
    BY <2>2, <1>5
  <2>4. QED
    BY <2>1, <2>3, <1>1, <1>5, InStepSend
<1> HIDE DEF N, r, t
<1>8. /\ sent' \in Seq(Seq(Bodies)) /\ Len(sent') = N /\ sent'[N] = r
      /\ \A c \in Opened : c # N => sent'[c] = sent[c]
  <2> DEFINE S == Seq(Bodies)
  <2>1. sent \in Seq(S) /\ r \in S /\ Len(sent) = N /\ N \in 1 .. Len(sent)
    BY <1>1, <1>4 DEF StreamTypeOK, N, Newest
  <2> HIDE DEF S
  <2>2. /\ sent' \in Seq(S) /\ Len(sent') = Len(sent) /\ sent'[N] = r
        /\ \A j \in 1 .. Len(sent) : j # N => sent'[j] = sent[j]
    BY <2>1, <1>6, SetAt
  <2>3. QED
    BY <2>1, <2>2, <1>1 DEF S
<1>9. /\ stream' \in Seq(Seq(0 .. 255)) /\ Len(stream') = N /\ stream'[N] = t
      /\ \A c \in Opened : c # N => stream'[c] = stream[c]
  <2> DEFINE S == Seq(0 .. 255)
  <2>1. stream \in Seq(S) /\ t \in S /\ Len(stream) = N /\ N \in 1 .. Len(stream)
    BY <1>1, <1>4 DEF StreamTypeOK, N
  <2> HIDE DEF S
  <2>2. /\ stream' \in Seq(S) /\ Len(stream') = Len(stream) /\ stream'[N] = t
        /\ \A j \in 1 .. Len(stream) : j # N => stream'[j] = stream[j]
    BY <2>1, <1>6, SetAt
  <2>3. QED
    BY <2>1, <2>2, <1>1 DEF S
<1>10. Newest' = N /\ Opened' = Opened /\ Newest = N
  BY <1>1, <1>8, LenProperties DEF Newest, Opened, N
<1>11. StreamTypeOK'
  <2>1. ASSUME NEW c \in Opened PROVE Len(sent'[c]) <= MaxSent
    <3>1. CASE c = N
      BY <3>1, <1>5, <1>8
    <3>2. CASE c # N
      BY <3>2, <1>1, <1>8 DEF StreamTypeOK
    <3>3. QED
      BY <3>1, <3>2
  <2>2. QED
    BY <2>1, <1>1, <1>2, <1>8, <1>9, <1>10 DEF StreamTypeOK
<1>12. InTurn'
  BY <1>1, <1>2, <1>10 DEF InTurn, Left
<1>13. ASSUME NEW c \in Opened \ short PROVE ConnInv(c)'
  <2>1. (Left(c)' <=> Left(c)) /\ Taken(c)' = Taken(c) /\ ConnInv(c)
    BY <1>2 DEF Left, Taken, StreamInv
  <2>2. CASE c # N
    BY <2>1, <2>2, <1>2, <1>8, <1>9, Untouched
  <2>3. CASE c = N
    <3>1. Agrees(c) /\ Aligned(c) /\ ~Left(c)' /\ c \notin torn
      BY <2>1, <2>3, <1>3 DEF ConnInv
    <3>2. Len(executed[c]) \in Nat /\ Len(executed[c]) <= Len(sent[c])
      BY <3>1, <2>3, <1>1, LenProperties DEF Agrees
    <3>3. Agrees(c)'
      BY <3>1, <3>2, <2>3, <1>2, <1>5, <1>8 DEF Agrees
    <3>4. InStep(sent'[c], Len(executed'[c]) + 1, stream'[c], Taken(c)', 0)
      BY <2>1, <3>1, <2>3, <1>2, <1>7, <1>8, <1>9 DEF Aligned
    <3>5. ASSUME c = conn', NEW i \in 1 .. Len(hdr')
          PROVE  Len(executed'[c]) < Len(sent'[c])
                 /\ hdr'[i] = Encoded(sent'[c][Len(executed'[c]) + 1])[i]
      <4>1. Len(executed[c]) < Len(sent[c]) /\ hdr[i] = Encoded(sent[c][Len(executed[c]) + 1])[i]
        BY <3>1, <3>5, <1>2 DEF Aligned
      <4>2. sent'[c] = r /\ executed'[c] = executed[c] /\ hdr' = hdr
        BY <2>3, <1>2, <1>8
      <4>3. Len(executed[c]) + 1 \in 1 .. Len(sent[c]) /\ Len(executed[c]) < Len(r)
        BY <4>1, <3>2, <2>3, <1>5
      <4>4. r[Len(executed[c]) + 1] = sent[c][Len(executed[c]) + 1]
        BY <4>3, <2>3, <1>5
      <4>5. QED
        BY <4>1, <4>2, <4>3, <4>4
    <3>6. Aligned(c)'
      <4>1. 0 \in 0 .. 4 * MaxSent
        BY <1>5
      <4>2. QED
        BY <4>1, <3>4, <3>5 DEF Aligned
    <3>7. QED
      BY <3>1, <3>3, <3>6 DEF ConnInv
  <2>4. QED
    BY <2>2, <2>3
<1>14. QED
  BY <1>2, <1>10, <1>11, <1>12, <1>13 DEF StreamInv

LEMMA EndStep ==
    ASSUME StreamInv, End
    PROVE  StreamInv'
<1> DEFINE N == Newest
<1>1. /\ StreamTypeOK /\ InTurn /\ N \in Nat /\ Opened = 1 .. N /\ N \in Opened /\ N \notin ended
      /\ sent[N] \in Seq(Bodies) /\ stream[N] \in Seq(0 .. 255)
      /\ executed[N] \in Seq(Seq(0 .. 255)) /\ MaxSent \in Nat
  <2>1. StreamTypeOK /\ InTurn /\ N \in Nat /\ Opened = 1 .. N /\ N > 0 /\ N \notin ended
    BY ConnTypes DEF StreamInv, End
  <2>2. N \in Opened
    BY <2>1
  <2>3. QED
    BY <2>1, <2>2, ConnTypes, StreamAssumption
<1>2. UNCHANGED <<sent, srv, conn, hdr, executed, short>> /\ ended' = ended \cup {N}
  BY DEF End
<1>3. ~Left(N) /\ N \notin torn
  BY <1>1 DEF InTurn, StreamTypeOK
<1>4. PICK n \in 0 .. Len(stream[N]) :
         /\ stream' = [stream EXCEPT ![N] = SubSeq(stream[N], 1, n)]
         /\ torn' = IF n = Len(stream[N]) THEN torn ELSE torn \cup {N}
  BY DEF End
<1> DEFINE t == SubSeq(stream[N], 1, n)
           l == Len(stream[N])
<1>5. t \in Seq(0 .. 255) /\ l \in Nat /\ n \in Nat
  BY <1>1, Kept, LenProperties
<1>6. Agrees(N) /\ InStep(sent[N], Len(executed[N]) + 1, stream[N], Taken(N), 0)
      => l - n \in 0 .. 4 * MaxSent /\ InStep(sent[N], Len(executed[N]) + 1, t, Taken(N), l - n)
  <2> SUFFICES ASSUME Agrees(N), InStep(sent[N], Len(executed[N]) + 1, stream[N], Taken(N), 0)
               PROVE  l - n \in 0 .. 4 * MaxSent
                      /\ InStep(sent[N], Len(executed[N]) + 1, t, Taken(N), l - n)
    OBVIOUS
  <2>1. Taken(N) \in 0 .. HeaderSize
    BY <1>1, ConnTypes DEF Taken, HeaderSize
  <2>2. Len(executed[N]) \in Nat /\ Len(sent[N]) \in Nat /\ Len(executed[N]) <= Len(sent[N])
    BY <1>1, LenProperties DEF Agrees
  <2>3. Len(executed[N]) + 1 \in 1 .. Len(sent[N]) + 1
    BY <2>2
  <2>4. QED
    BY <2>1, <2>3, <1>1, InStepCut
<1>7. stream' = [stream EXCEPT ![N] = t]
  BY <1>4
<1>8. torn' = (IF n = l THEN torn ELSE torn \cup {N})
  BY <1>4
<1> HIDE DEF N, t, l
<1>9. /\ stream' \in Seq(Seq(0 .. 255)) /\ Len(stream') = N /\ stream'[N] = t
      /\ \A c \in Opened : c # N => stream'[c] = stream[c]
  <2> DEFINE S == Seq(0 .. 255)
  <2>1. stream \in Seq(S) /\ t \in S /\ Len(stream) = N /\ N \in 1 .. Len(stream)
    BY <1>1, <1>5 DEF StreamTypeOK, N
  <2> HIDE DEF S
  <2>2. /\ stream' \in Seq(S) /\ Len(stream') = Len(stream) /\ stream'[N] = t
        /\ \A j \in 1 .. Len(stream) : j # N => stream'[j] = stream[j]
    BY <2>1, <1>7, SetAt
  <2>3. QED
    BY <2>1, <2>2, <1>1 DEF S
<1>10. Newest' = N /\ Opened' = Opened /\ Newest = N
  BY <1>2 DEF Newest, Opened, N
<1>11. StreamTypeOK'
  <2>1. ended' \subseteq Opened /\ torn' \subseteq ended'
    BY <1>1, <1>2, <1>8 DEF StreamTypeOK
  <2>2. QED
    BY <2>1, <1>1, <1>2, <1>9, <1>10 DEF StreamTypeOK
<1>12. InTurn'
  BY <1>1, <1>2, <1>10 DEF InTurn, Left
<1>13. ASSUME NEW c \in Opened \ short PROVE ConnInv(c)'
  <2>1. (Left(c)' <=> Left(c)) /\ Taken(c)' = Taken(c) /\ ConnInv(c)
    BY <1>2 DEF Left, Taken, StreamInv
  <2>2. CASE c # N
    <3>1. (c \in torn' <=> c \in torn) /\ stream'[c] = stream[c]
      BY <2>2, <1>8, <1>9
    <3>2. QED
      BY <2>1, <3>1, <1>2, Untouched
  <2>3. CASE c = N
    <3>1. Agrees(c) /\ Aligned(c) /\ ~Left(c)' /\ c \notin torn
      BY <2>1, <2>3, <1>3 DEF ConnInv
    <3>2. Agrees(c)'
      BY <3>1, <1>2 DEF Agrees
    <3>3. l - n \in 0 .. 4 * MaxSent
          /\ InStep(sent'[c], Len(executed'[c]) + 1, stream'[c], Taken(c)', l - n)
      BY <2>1, <3>1, <2>3, <1>2, <1>6, <1>9 DEF Aligned
    <3>4. c \notin torn' => l - n = 0
      BY <2>3, <1>5, <1>8
    <3>5. c = conn' => \A i \in 1 .. Len(hdr') :
            /\ Len(executed'[c]) < Len(sent'[c])
            /\ hdr'[i] = Encoded(sent'[c][Len(executed'[c]) + 1])[i]
      BY <3>1, <1>2 DEF Aligned
    <3>6. Aligned(c)'
      BY <3>3, <3>4, <3>5 DEF Aligned
    <3>7. QED
      BY <3>1, <3>2, <3>6 DEF ConnInv
  <2>4. QED
    BY <2>2, <2>3
<1>14. QED
  BY <1>2, <1>10, <1>11, <1>12, <1>13 DEF StreamInv
-----------------------------------------------------------------------------
(***************************************************************************)
(* The controller thread.                                                  *)
(***************************************************************************)
LEMMA AcceptStep ==
    ASSUME StreamInv, Accept \/ AcceptFails
    PROVE  StreamInv'
<1>1. /\ StreamTypeOK /\ InTurn /\ Newest \in Nat /\ Opened = 1 .. Newest /\ srv = "accept"
      /\ conn < Newest /\ conn \in Nat /\ conn' = conn + 1 /\ hdr = <<>>
  <2>1. StreamTypeOK /\ InTurn /\ srv = "accept" /\ conn < Newest /\ conn' = conn + 1
    BY DEF StreamInv, Accept, AcceptFails
  <2>2. Newest \in Nat /\ Opened = 1 .. Newest
    BY <2>1, ConnTypes
  <2>3. conn \in 0 .. Newest /\ hdr = <<>>
    BY <2>1 DEF StreamTypeOK
  <2>4. QED
    BY <2>1, <2>2, <2>3
<1>2. UNCHANGED <<sent, stream, hdr, executed, short>>
  BY DEF Accept, AcceptFails
<1>3. \/ srv' = "header" /\ ended' = ended /\ torn' = torn
      \/ srv' = srv /\ ended' = ended \cup {conn'} /\ torn' = torn \cup {conn'}
  BY DEF Accept, AcceptFails
<1>4. Newest' = Newest /\ Opened' = Opened /\ conn' \in Opened /\ Len(hdr) = 0
  BY <1>1, <1>2, EmptySeq DEF Newest, Opened
<1>5. StreamTypeOK'
  <2>1. /\ ended' \subseteq Opened /\ torn' \subseteq ended' /\ srv' \in {"accept", "header"}
        /\ conn' \in 0 .. Newest /\ conn' > 0
    <3>1. ended' \subseteq Opened /\ torn' \subseteq ended' /\ srv' \in {"accept", "header"}
      BY <1>1, <1>3, <1>4 DEF StreamTypeOK
    <3>2. conn' \in 0 .. Newest /\ conn' > 0
      BY <1>1
    <3>3. QED
      BY <3>1, <3>2
  <2>2. Len(hdr') < HeaderSize
    BY <1>2, <1>4 DEF HeaderSize
  <2>3. QED
    BY <2>1, <2>2, <1>1, <1>2, <1>4 DEF StreamTypeOK
<1>6. InTurn'
  <2>1. ASSUME NEW c \in Opened, c # Newest \/ Left(c)' PROVE c \in ended'
    <3>1. CASE c = conn' /\ srv' = srv
      BY <3>1, <1>1, <1>3
    <3>2. CASE c # Newest \/ c <= conn
      BY <3>2, <1>1, <1>3 DEF InTurn, Left
    <3>3. QED
      BY <3>1, <3>2, <2>1, <1>1, <1>3 DEF Left
  <2>2. \A c \in Opened : c > conn' => executed[c] = <<>>
    BY <1>1 DEF InTurn
  <2>3. QED
    BY <2>1, <2>2, <1>2, <1>4 DEF InTurn
<1>7. ASSUME NEW c \in Opened \ short PROVE ConnInv(c)'
  <2>1. ConnInv(c) /\ c \in Nat
    BY <1>1 DEF StreamInv
  <2>2. c \in torn => c \in torn'
    BY <1>3
  <2>3. Left(c)' /\ c \notin torn' => Left(c)
    BY <2>1, <1>1, <1>3 DEF Left
  <2>4. ~Left(c)' => ~Left(c) /\ Taken(c)' = Taken(c)
    BY <2>1, <1>1, <1>2, <1>4 DEF Left, Taken
  <2>5. QED
    BY <2>1, <2>2, <2>3, <2>4, <1>2, <1>4, Untouched
<1>8. QED
  BY <1>2, <1>4, <1>5, <1>6, <1>7 DEF StreamInv

(***************************************************************************)
(* What the server does with one connection leaves the others as they are. *)
(***************************************************************************)
LEMMA OthersUntouched ==
    ASSUME StreamInv, srv # "accept", UNCHANGED <<sent, torn, conn>>,
           NEW c \in Opened \ short, c # conn,
           stream'[c] = stream[c], executed'[c] = executed[c]
    PROVE  ConnInv(c)'
<1>1. (Left(c)' <=> Left(c)) /\ Taken(c)' = Taken(c) /\ ConnInv(c)
  BY DEF Left, Taken, StreamInv
<1>2. QED
  BY <1>1, Untouched

LEMMA LosesClientStep ==
    ASSUME StreamInv, LosesClient
    PROVE  StreamInv'
<1>1. /\ StreamTypeOK /\ InTurn /\ Newest \in Nat /\ Opened = 1 .. Newest /\ srv = "header"
      /\ conn \in Opened /\ conn \in ended /\ Bytes = <<>> /\ srv' = "accept" /\ hdr' = <<>>
  <2>1. conn \in 0 .. Newest /\ conn > 0 /\ Newest \in Nat /\ Opened = 1 .. Newest /\ StreamTypeOK
    BY ConnTypes DEF StreamInv, StreamTypeOK, LosesClient
  <2>2. conn \in Opened
    BY <2>1
  <2>3. QED
    BY <2>1, <2>2 DEF StreamInv, LosesClient, AtEnd
<1>2. UNCHANGED <<sent, stream, ended, conn, executed, short, torn>>
  BY DEF LosesClient
<1>3. Newest' = Newest /\ Opened' = Opened
  BY <1>2 DEF Newest, Opened
<1>4. StreamTypeOK'
  <2>1. <<>> \in Seq(0 .. 255) /\ Len(<<>>) < HeaderSize
    BY EmptySeq DEF HeaderSize
  <2>2. QED
    BY <2>1, <1>1, <1>2, <1>3 DEF StreamTypeOK
<1>5. InTurn'
  BY <1>1, <1>2, <1>3 DEF InTurn, Left
<1>6. ASSUME NEW c \in Opened \ short PROVE ConnInv(c)'
  <2>1. CASE c # conn
    BY <2>1, <1>1, <1>2, <1>6, OthersUntouched
  <2>2. CASE c = conn
    <3>1. ConnInv(c) /\ ~Left(c) /\ Left(c)'
      BY <2>2, <1>1, <1>2 DEF StreamInv, Left
    <3>2. Agrees(c) /\ Aligned(c)
      BY <3>1 DEF ConnInv
    <3>3. ASSUME c \notin torn PROVE Len(executed[c]) = Len(sent[c])
      <4>1. InStep(sent[c], Len(executed[c]) + 1, stream[c], Len(hdr), 0)
        BY <3>2, <3>3, <2>2 DEF Aligned, Taken
      <4>2. /\ Len(executed[c]) \in Nat /\ Len(sent[c]) \in Nat /\ Len(executed[c]) <= Len(sent[c])
            /\ sent[c] \in Seq(Bodies) /\ stream[c] \in Seq(0 .. 255)
        BY <3>2, <1>1, ConnTypes, LenProperties DEF Agrees
      <4>3. Len(executed[c]) + 1 \in 1 .. Len(sent[c]) + 1
        BY <4>2
      <4>4. Len(stream[c]) = 0
        BY <2>2, <1>1, EmptySeq DEF Bytes
      <4>5. Len(hdr) \in 0 .. HeaderSize - 1
        <5>1. Len(hdr) \in 0 .. HeaderSize /\ Len(hdr) < HeaderSize
          BY <1>1, ConnTypes DEF StreamTypeOK
        <5>2. QED
          BY <5>1 DEF HeaderSize
      <4>6. Len(executed[c]) + 1 = Len(sent[c]) + 1
        BY <4>1, <4>2, <4>3, <4>4, <4>5, InStepEnd
      <4>7. QED
        BY <4>2, <4>6
    <3>4. Agrees(c)'
      BY <3>2, <1>2 DEF Agrees
    <3>5. QED
      BY <3>1, <3>3, <3>4, <1>2 DEF ConnInv
  <2>3. QED
    BY <2>1, <2>2
<1>7. QED
  BY <1>2, <1>3, <1>4, <1>5, <1>6 DEF StreamInv
LEMMA ReceiveHeaderStep ==
    ASSUME StreamInv, ReceiveHeader
    PROVE  StreamInv'
<1>1. /\ StreamTypeOK /\ InTurn /\ Newest \in Nat /\ Opened = 1 .. Newest /\ srv = "header"
      /\ hdr \in Seq(0 .. 255) /\ Len(hdr) \in {0, 1}
  <2>1. StreamTypeOK /\ InTurn /\ srv = "header"
    BY DEF StreamInv, ReceiveHeader
  <2>2. Len(hdr) \in 0 .. HeaderSize /\ Len(hdr) < HeaderSize /\ hdr \in Seq(0 .. 255)
    BY <2>1, ConnTypes DEF StreamTypeOK
  <2>3. Len(hdr) \in {0, 1}
    <3> DEFINE m == Len(hdr)
    <3>1. m \in 0 .. HeaderSize /\ m < HeaderSize
      BY <2>2
    <3> HIDE DEF m
    <3>2. m \in {0, 1}
      BY <3>1 DEF HeaderSize
    <3>3. QED
      BY <3>2 DEF m
  <2>4. QED
    BY <2>1, <2>2, <2>3, ConnTypes
<1>2. UNCHANGED <<sent, ended, conn, executed, short, torn>>
  BY DEF ReceiveHeader
<1>3. PICK bytes \in Received(HeaderSize - Len(hdr)) \ {<<>>} :
         /\ Consume(bytes)
         /\ IF Len(hdr \o bytes) < HeaderSize THEN srv' = srv /\ hdr' = hdr \o bytes
            ELSE Dispatch(hdr \o bytes)
  BY DEF ReceiveHeader
<1> DEFINE h == hdr \o bytes
           k == Len(bytes)
           m == Len(hdr)
           t == SubSeq(stream[conn], k + 1, Len(stream[conn]))
<1>4. /\ conn \in Opened /\ k \in 1 .. Len(stream[conn]) /\ k \in 0 .. Len(stream[conn])
      /\ k <= HeaderSize - m /\ bytes \in Seq(0 .. 255) /\ k \in Nat
      /\ \A i \in 1 .. k : bytes[i] = stream[conn][i]
  <2>1. HeaderSize - m \in Nat
    <3>1. m \in {0, 1}
      BY <1>1
    <3> HIDE DEF m
    <3>2. QED
      BY <3>1 DEF HeaderSize
  <2>2. QED
    BY <2>1, <1>1, <1>3, ReceivedBytes
<1>5. /\ h \in Seq(0 .. 255) /\ Len(h) = m + k
      /\ \A i \in 1 .. m + k : h[i] = IF i <= m THEN hdr[i] ELSE bytes[i - m]
  BY <1>1, <1>4, ConcatProperties
<1>6. t \in Seq(0 .. 255) /\ stream' = [stream EXCEPT ![conn] = t]
  BY <1>1, <1>3, <1>4, ConnTypes, Dropped DEF Consume
<1>7. IF Len(h) < HeaderSize THEN srv' = "header" /\ hdr' = h ELSE Dispatch(h)
  BY <1>1, <1>3
<1> HIDE DEF h, t
<1>8. /\ stream' \in Seq(Seq(0 .. 255)) /\ Len(stream') = Newest /\ stream'[conn] = t
      /\ \A c \in Opened \ {conn} : stream'[c] = stream[c]
  BY <1>1, <1>4, <1>6, Consumed
<1>9. m \in {0, 1} /\ m + k \in 0 .. HeaderSize /\ m + k <= HeaderSize
  <2>1. m \in {0, 1}
    BY <1>1
  <2> HIDE DEF m, k
  <2>2. QED
    BY <2>1, <1>4 DEF HeaderSize
<1>10. Newest' = Newest /\ Opened' = Opened
  BY <1>2 DEF Newest, Opened
<1>11. srv' \in {"header", "body"}
  BY <1>7 DEF Dispatch
<1>12. StreamTypeOK'
  <2>1. hdr' \in Seq(0 .. 255) /\ IF srv' = "body" THEN Len(hdr') = HeaderSize ELSE Len(hdr') < HeaderSize
    <3>1. CASE Len(h) < HeaderSize
      BY <3>1, <1>5, <1>7
    <3>2. CASE ~(Len(h) < HeaderSize)
      <4>1. Len(h) = HeaderSize
        <5> HIDE DEF m, k
        <5> DEFINE l == Len(h)
        <5>1. l = m + k /\ ~(l < HeaderSize)
          BY <3>2, <1>5
        <5> HIDE DEF l
        <5>2. l = HeaderSize
          BY <5>1, <1>9 DEF HeaderSize
        <5>3. QED
          BY <5>2 DEF l
      <4>2. <<>> \in Seq(0 .. 255) /\ Len(<<>>) < HeaderSize
        BY EmptySeq DEF HeaderSize
      <4>3. QED
        BY <3>2, <4>1, <4>2, <1>5, <1>7 DEF Dispatch
    <3>3. QED
      BY <3>1, <3>2
  <2>2. srv' # "accept" /\ conn > 0
    BY <1>1, <1>4, <1>11
  <2>3. QED
    BY <2>1, <2>2, <1>1, <1>2, <1>8, <1>10, <1>11 DEF StreamTypeOK
<1>13. InTurn'
  BY <1>1, <1>2, <1>10, <1>11 DEF InTurn, Left
<1>14. ASSUME NEW c \in Opened \ short PROVE ConnInv(c)'
  <2>1. CASE c # conn
    BY <2>1, <1>1, <1>2, <1>8, <1>14, OthersUntouched
  <2>2. CASE c = conn
    <3>1. ConnInv(c) /\ ~Left(c) /\ ~Left(c)'
      BY <2>2, <1>1, <1>2, <1>4, <1>11, <1>14 DEF StreamInv, Left
    <3>2. Agrees(c) /\ Aligned(c)
      BY <3>1 DEF ConnInv
    <3>3. PICK lost \in 0 .. 4 * MaxSent :
             /\ InStep(sent[c], Len(executed[c]) + 1, stream[c], m, lost)
             /\ c \notin torn => lost = 0
      BY <3>2, <2>2 DEF Aligned, Taken
    <3>4. /\ Len(executed[c]) \in Nat /\ Len(sent[c]) \in Nat /\ Len(executed[c]) <= Len(sent[c])
          /\ sent[c] \in Seq(Bodies) /\ stream[c] \in Seq(0 .. 255) /\ lost \in Nat
      BY <3>2, <1>1, ConnTypes, LenProperties, StreamAssumption DEF Agrees
    <3>5. Len(executed[c]) + 1 \in 1 .. Len(sent[c]) + 1 /\ m \in 0 .. HeaderSize
      BY <3>4, <1>9 DEF HeaderSize
    <3> DEFINE enc == Encoded(sent[c][Len(executed[c]) + 1])
    <3>6. /\ Len(executed[c]) + 1 <= Len(sent[c])
          /\ \A i \in 1 .. k : stream[c][i] = enc[m + i]
          /\ InStep(sent[c], Len(executed[c]) + 1, t, m + k, lost)
      <4>1. k \in 1 .. Len(stream[c]) /\ t = SubSeq(stream[c], k + 1, Len(stream[c]))
        BY <2>2, <1>4 DEF t
      <4> DEFINE first == Len(executed[c]) + 1
                 reqs  == sent[c]
                 s     == stream[c]
      <4>2. /\ reqs \in Seq(Bodies) /\ first \in 1 .. Len(reqs) + 1 /\ s \in Seq(0 .. 255)
            /\ m \in 0 .. HeaderSize /\ lost \in Nat /\ InStep(reqs, first, s, m, lost)
            /\ k \in 1 .. Len(s) /\ m + k <= HeaderSize /\ t = SubSeq(s, k + 1, Len(s))
        BY <4>1, <3>3, <3>4, <3>5, <1>9
      <4> HIDE DEF m, k, first, reqs, s
      <4>3. /\ first <= Len(reqs) /\ \A i \in 1 .. k : s[i] = Encoded(reqs[first])[m + i]
            /\ InStep(reqs, first, t, m + k, lost)
        BY <4>2, InStepHeader
      <4>4. QED
        BY <4>3 DEF first, reqs, s
    <3>7. sent[c][Len(executed[c]) + 1] \in Bodies
      <4>1. Len(executed[c]) + 1 \in 1 .. Len(sent[c])
        BY <3>4, <3>6
      <4>2. QED
        BY <4>1, <3>4, ElementOfSeq
    <3>8. enc[1] = TYPE_CNTRL /\ enc[2] \in {CNTRL_ACT_REQ, CNTRL_ARM_REQ}
      BY <3>7, EncodedBody
    <3>9. \A i \in 1 .. m : hdr[i] = enc[i]
      BY <3>2, <2>2 DEF Aligned
    <3> HIDE DEF enc
    <3>10. ASSUME NEW i \in 1 .. m + k PROVE h[i] = enc[i]
      <4>1. CASE i <= m
        <5>1. i \in 1 .. m
          BY <4>1, <1>4, <1>9
        <5>2. QED
          BY <5>1, <4>1, <3>9, <1>5
      <4>2. CASE ~(i <= m)
        <5> HIDE DEF m, k
        <5> DEFINE j == i - m
        <5>1. j \in 1 .. k /\ m + j = i
          BY <4>2, <1>4, <1>9
        <5>2. h[i] = bytes[j]
          BY <4>2, <1>5
        <5> HIDE DEF j
        <5>3. bytes[j] = enc[m + j]
          BY <5>1, <3>6, <2>2, <1>4
        <5>4. QED
          BY <5>1, <5>2, <5>3
      <4>3. QED
        BY <4>1, <4>2
    <3>11. hdr' = h
      <4>1. CASE Len(h) < HeaderSize
        BY <4>1, <1>7
      <4>2. CASE ~(Len(h) < HeaderSize)
        <5>1. 1 \in 1 .. m + k /\ 2 \in 1 .. m + k
          <6> DEFINE l == Len(h)
          <6>1. l = m + k /\ ~(l < HeaderSize)
            BY <4>2, <1>5
          <6> HIDE DEF l, m, k
          <6>2. QED
            BY <6>1, <1>4, <1>9 DEF HeaderSize
        <5>2. h[1] = TYPE_CNTRL /\ h[2] \in {CNTRL_ACT_REQ, CNTRL_ARM_REQ}
          BY <5>1, <3>8, <3>10
        <5>3. QED
          BY <5>2, <4>2, <1>7 DEF Dispatch
      <4>3. QED
        BY <4>1, <4>2
    <3>12. Agrees(c)'
      BY <3>2, <1>2 DEF Agrees
    <3>13. InStep(sent'[c], Len(executed'[c]) + 1, stream'[c], Taken(c)', lost)
      BY <3>6, <3>11, <2>2, <1>2, <1>5, <1>8 DEF Taken
    <3>14. ASSUME NEW i \in 1 .. Len(hdr')
           PROVE  /\ Len(executed'[c]) < Len(sent'[c])
                  /\ hdr'[i] = Encoded(sent'[c][Len(executed'[c]) + 1])[i]
      <4>1. i \in 1 .. m + k
        BY <3>11, <3>14, <1>5
      <4>2. Len(executed[c]) < Len(sent[c])
        BY <3>4, <3>6
      <4>3. QED
        BY <4>1, <4>2, <3>10, <3>11, <1>2 DEF enc
    <3>15. Aligned(c)'
      BY <3>3, <3>13, <3>14, <1>2 DEF Aligned
    <3>16. QED
      BY <3>1, <3>12, <3>15 DEF ConnInv
  <2>3. QED
    BY <2>1, <2>2
<1>15. QED
  BY <1>2, <1>10, <1>12, <1>13, <1>14 DEF StreamInv
LEMMA ReceiveBodyStep ==
    ASSUME StreamInv, ReceiveBody
    PROVE  StreamInv'
<1> DEFINE n == BodySize(hdr[2])
<1>1. /\ StreamTypeOK /\ InTurn /\ Newest \in Nat /\ Opened = 1 .. Newest /\ srv = "body"
      /\ Len(hdr) = HeaderSize /\ n \in {1, 2} /\ n \in Nat
  <2>1. StreamTypeOK /\ InTurn /\ srv = "body" /\ Len(hdr) = HeaderSize
    BY DEF StreamInv, ReceiveBody, StreamTypeOK
  <2>2. n \in {1, 2} /\ n \in Nat
    BY DEF BodySize
  <2>3. QED
    BY <2>1, <2>2, ConnTypes
<1>2. UNCHANGED <<sent, ended, conn, torn>> /\ srv' = "header" /\ hdr' = <<>>
  BY DEF ReceiveBody
<1>0. PICK bytes \in Received(n) : \E rest \in [1 .. n - Len(bytes) -> Garbage] :
         /\ Consume(bytes)
         /\ executed' = [executed EXCEPT ![conn] = Append(executed[conn], bytes \o rest)]
         /\ short' = IF Len(bytes) < n THEN short \cup {conn} ELSE short
  BY DEF ReceiveBody
<1>3. PICK rest \in [1 .. n - Len(bytes) -> Garbage] :
         /\ Consume(bytes)
         /\ executed' = [executed EXCEPT ![conn] = Append(executed[conn], bytes \o rest)]
         /\ short' = IF Len(bytes) < n THEN short \cup {conn} ELSE short
  BY <1>0
<1> DEFINE k == Len(bytes)
           t == SubSeq(stream[conn], k + 1, Len(stream[conn]))
           b == bytes \o rest
           x == Append(executed[conn], b)
<1>4. /\ conn \in Opened /\ k \in 0 .. Len(stream[conn]) /\ k <= n /\ bytes \in Seq(0 .. 255)
      /\ k \in Nat /\ \A i \in 1 .. k : bytes[i] = stream[conn][i]
  BY <1>1, <1>3, ReceivedBytes
<1>5. rest \in Seq(0 .. 255) /\ Len(rest) = n - k
  <2> HIDE DEF n, k
  <2>1. n - k \in Nat
    BY <1>1, <1>4
  <2>2. rest \in [1 .. n - k -> 0 .. 255]
    BY <1>3, StreamAssumption DEF k
  <2>3. QED
    BY <2>1, <2>2, FunctionIsSeq
<1>6. b \in Seq(0 .. 255) /\ Len(b) = k + Len(rest) /\ \A i \in 1 .. k : b[i] = bytes[i]
  <2>1. /\ b \in Seq(0 .. 255) /\ Len(b) = k + Len(rest)
        /\ \A i \in 1 .. k + Len(rest) : b[i] = IF i <= k THEN bytes[i] ELSE rest[i - k]
    BY <1>4, <1>5, ConcatProperties
  <2>2. ASSUME NEW i \in 1 .. k PROVE b[i] = bytes[i]
    <3> DEFINE l == Len(rest)
    <3>1. l \in Nat
      BY <1>5, LenProperties
    <3> HIDE DEF k, b, l
    <3>2. i \in 1 .. k + l /\ i <= k
      BY <3>1, <1>4
    <3>3. QED
      BY <3>2, <2>1 DEF l
  <2>3. QED
    BY <2>1, <2>2
<1>7. executed[conn] \in Seq(Seq(0 .. 255)) /\ stream[conn] \in Seq(0 .. 255)
  BY <1>1, <1>4, ConnTypes
<1>8. t \in Seq(0 .. 255) /\ stream' = [stream EXCEPT ![conn] = t]
  BY <1>3, <1>4, <1>7, Dropped DEF Consume
<1> HIDE DEF b
<1>9. /\ x \in Seq(Seq(0 .. 255)) /\ Len(x) = Len(executed[conn]) + 1
      /\ x[Len(executed[conn]) + 1] = b
      /\ \A i \in 1 .. Len(executed[conn]) : x[i] = executed[conn][i]
  BY <1>6, <1>7, AppendProperties
<1>10. executed' = [executed EXCEPT ![conn] = x]
  BY <1>3 DEF b
<1> HIDE DEF n, k, t, x
<1>11. /\ stream' \in Seq(Seq(0 .. 255)) /\ Len(stream') = Newest /\ stream'[conn] = t
       /\ \A c \in Opened \ {conn} : stream'[c] = stream[c]
  BY <1>1, <1>4, <1>8, Consumed
<1>12. /\ executed' \in Seq(Seq(Seq(0 .. 255))) /\ Len(executed') = Newest /\ executed'[conn] = x
       /\ \A c \in Opened \ {conn} : executed'[c] = executed[c]
  <2> DEFINE S == Seq(Seq(0 .. 255))
  <2>1. /\ executed \in Seq(S) /\ x \in S /\ Len(executed) = Newest /\ conn \in 1 .. Len(executed)
    BY <1>1, <1>4, <1>9 DEF StreamTypeOK
  <2> HIDE DEF S
  <2>2. /\ executed' \in Seq(S) /\ Len(executed') = Len(executed) /\ executed'[conn] = x
        /\ \A j \in 1 .. Len(executed) : j # conn => executed'[j] = executed[j]
    BY <2>1, <1>10, SetAt
  <2>3. QED
    BY <2>1, <2>2, <1>1 DEF S
<1>13. Newest' = Newest /\ Opened' = Opened
  BY <1>2 DEF Newest, Opened
<1>14. StreamTypeOK'
  <2>1. <<>> \in Seq(0 .. 255) /\ Len(<<>>) < HeaderSize
    BY EmptySeq DEF HeaderSize
  <2>2. short' \subseteq Opened /\ conn > 0
    BY <1>1, <1>3, <1>4 DEF StreamTypeOK, k, n
  <2>3. QED
    BY <2>1, <2>2, <1>1, <1>2, <1>11, <1>12, <1>13 DEF StreamTypeOK
<1>15. InTurn'
  <2>1. \A c \in Opened : c > conn => executed'[c] = <<>>
    <3>1. ASSUME NEW c \in Opened, c > conn PROVE c \in Opened \ {conn}
      BY <3>1, <1>1, <1>4
    <3>2. QED
      BY <3>1, <1>1, <1>12 DEF InTurn
  <2>2. QED
    BY <2>1, <1>1, <1>2, <1>13 DEF InTurn, Left
<1>16. ASSUME NEW c \in Opened \ short' PROVE ConnInv(c)'
  <2>0. c \notin short
    BY <1>3
  <2>1. CASE c # conn
    BY <2>0, <2>1, <1>1, <1>2, <1>11, <1>12, OthersUntouched
  <2>2. CASE c = conn
    <3>1. k = n
      BY <2>2, <1>1, <1>3, <1>4 DEF k, n
    <3>2. ConnInv(c) /\ ~Left(c) /\ ~Left(c)'
      BY <2>0, <2>2, <1>1, <1>2, <1>4 DEF StreamInv, Left
    <3>3. Agrees(c) /\ Aligned(c)
      BY <3>2 DEF ConnInv
    <3>4. PICK lost \in 0 .. 4 * MaxSent :
             /\ InStep(sent[c], Len(executed[c]) + 1, stream[c], HeaderSize, lost)
             /\ c \notin torn => lost = 0
      BY <3>3, <2>2, <1>1 DEF Aligned, Taken
    <3>5. /\ Len(executed[c]) \in Nat /\ Len(sent[c]) \in Nat /\ sent[c] \in Seq(Bodies)
          /\ stream[c] \in Seq(0 .. 255) /\ lost \in Nat
      BY <1>1, ConnTypes, LenProperties, StreamAssumption
    <3> DEFINE first == Len(executed[c]) + 1
               body == sent[c][first]
    <3>6. Len(executed[c]) < Len(sent[c]) /\ hdr[2] = Encoded(body)[2]
      <4>1. 2 \in 1 .. Len(hdr)
        BY <1>1 DEF HeaderSize
      <4>2. QED
        BY <4>1, <3>3, <2>2 DEF Aligned
    <3>7. first \in 1 .. Len(sent[c])
      BY <3>5, <3>6
    <3>8. body \in Bodies
      BY <3>5, <3>7, ElementOfSeq
    <3>9. body \in Seq(0 .. 255) /\ Len(body) = n
      BY <3>6, <3>8, EncodedBody DEF n
    <3>10. /\ \A i \in 1 .. n : stream[c][i] = body[i]
           /\ InStep(sent[c], first + 1, t, 0, lost)
      <4>1. Len(body) <= Len(stream[c])
        BY <3>1, <3>9, <2>2, <1>4
      <4>2. /\ \A i \in 1 .. Len(body) : stream[c][i] = body[i]
            /\ InStep(sent[c], first + 1, SubSeq(stream[c], Len(body) + 1, Len(stream[c])), 0, lost)
        BY <4>1, <3>4, <3>5, <3>7, InStepBody
      <4>3. t = SubSeq(stream[c], Len(body) + 1, Len(stream[c]))
        BY <3>1, <3>9, <2>2 DEF t
      <4>4. QED
        BY <4>2, <4>3, <3>9
    <3>11. b = body
      <4>1. Len(b) = n
        <5>1. Len(b) = k + (n - k)
          BY <1>5, <1>6
        <5>2. k + (n - k) = n
          BY <1>1, <1>4
        <5>3. QED
          BY <5>1, <5>2
      <4>2. \A i \in 1 .. n : b[i] = body[i]
        BY <3>1, <3>10, <2>2, <1>4, <1>6
      <4> HIDE DEF body
      <4>3. QED
        BY <4>1, <4>2, <3>9, <1>6, SeqEqual
    <3>12. executed'[c] = x /\ Len(x) = first /\ x[first] = b
           /\ \A i \in 1 .. Len(executed[c]) : x[i] = executed[c][i]
      BY <2>2, <1>9, <1>12
    <3>13. Agrees(c)'
      <4>1. ASSUME NEW i \in 1 .. first PROVE x[i] = sent[c][i]
        <5>1. CASE i = first
          BY <5>1, <3>11, <3>12
        <5>2. CASE i \in 1 .. Len(executed[c])
          BY <5>2, <3>3, <3>12 DEF Agrees
        <5>3. QED
          BY <5>1, <5>2, <3>5
      <4>2. first <= Len(sent[c])
        BY <3>5, <3>7
      <4>3. QED
        BY <4>1, <4>2, <3>12, <1>2 DEF Agrees
    <3>14. Taken(c)' = 0 /\ Len(hdr') = 0
      BY <1>2, EmptySeq DEF Taken
    <3>15. InStep(sent'[c], Len(executed'[c]) + 1, stream'[c], Taken(c)', lost)
      BY <3>10, <3>12, <3>14, <2>2, <1>2, <1>11
    <3>16. \A i \in 1 .. Len(hdr') : FALSE
      BY <3>14
    <3>17. Aligned(c)'
      BY <3>4, <3>15, <3>16, <1>2 DEF Aligned
    <3>18. QED
      BY <3>2, <3>13, <3>17 DEF ConnInv
  <2>3. QED
    BY <2>1, <2>2
<1>17. QED
  BY <1>13, <1>14, <1>15, <1>16 DEF StreamInv

-----------------------------------------------------------------------------
(***************************************************************************)
(* The invariant, and what it is for.                                      *)
(***************************************************************************)
LEMMA InitStreamInv == StreamInit => StreamInv
<1> SUFFICES ASSUME StreamInit PROVE StreamInv
  OBVIOUS
<1>1. /\ <<>> \in Seq(Seq(Bodies)) /\ <<>> \in Seq(Seq(0 .. 255)) /\ <<>> \in Seq(Seq(Seq(0 .. 255)))
      /\ <<>> \in Seq(0 .. 255) /\ Len(<<>>) = 0 /\ MaxConns \in Nat
  BY EmptySeq, StreamAssumption
<1>2. Newest = 0 /\ Opened = {}
  <2>1. Newest = 0
    BY <1>1 DEF StreamInit, Newest
  <2>2. Opened = 1 .. 0
    BY <1>1, LenProperties DEF StreamInit, Opened
  <2>3. QED
    BY <2>1, <2>2
<1>3. StreamTypeOK
  BY <1>1, <1>2 DEF StreamInit, StreamTypeOK, HeaderSize
<1>4. QED
  BY <1>2, <1>3 DEF StreamInv, InTurn

LEMMA StreamInvStep == StreamInv /\ [StreamNext]_streamVars => StreamInv'
<1>1. ASSUME StreamInv, StreamNext PROVE StreamInv'
  BY <1>1, OpenStep, SendStep, EndStep, AcceptStep, ReceiveHeaderStep, LosesClientStep, ReceiveBodyStep
  DEF StreamNext, Client, Server
<1>2. ASSUME StreamInv, UNCHANGED streamVars PROVE StreamInv'
  BY <1>2 DEF streamVars, StreamInv, StreamTypeOK, InTurn, ConnInv, Agrees, Aligned, Left, Taken,
      Newest, Opened
<1>3. QED
  BY <1>1, <1>2

(***************************************************************************)
(* What is left of every stream is what is left of its requests.           *)
(***************************************************************************)
THEOREM StreamInvAlways == StreamSpec => []StreamInv
BY InitStreamInv, StreamInvStep, PTL DEF StreamSpec

(***************************************************************************)
(* Requests are executed as they were sent, in order and once, however the *)
(* stream was cut into pieces and wherever it ended, unless a body came    *)
(* short (controller.c:357, controller.c:392).                             *)
(***************************************************************************)
THEOREM RequestsIntact == StreamSpec => []ExecutedAsSent
<1>1. ASSUME StreamInv PROVE ExecutedAsSent
  <2> SUFFICES ASSUME NEW c \in Opened \ short PROVE IsPrefix(executed[c], sent[c])
    BY DEF ExecutedAsSent
  <2>1. Agrees(c) /\ sent[c] \in Seq(Seq(0 .. 255)) /\ executed[c] \in Seq(Seq(0 .. 255))
    BY <1>1, ConnTypes, StreamAssumption DEF StreamInv, ConnInv
  <2> DEFINE S == Seq(0 .. 255)
             e == executed[c]
             r == sent[c]
  <2>2. /\ r \in Seq(S) /\ e \in Seq(S) /\ Len(e) \in 0 .. Len(e) /\ Len(e) \in 0 .. Len(r)
        /\ \A i \in 1 .. Len(e) : e[i] = r[i]
    BY <2>1, LenProperties DEF Agrees
  <2> HIDE DEF S, e, r
  <2>3. /\ SubSeq(e, 1, Len(e)) \in Seq(S) /\ Len(SubSeq(e, 1, Len(e))) = Len(e)
        /\ \A i \in 1 .. Len(e) : SubSeq(e, 1, Len(e))[i] = e[i]
    BY <2>2, Kept
  <2>4. /\ SubSeq(r, 1, Len(e)) \in Seq(S) /\ Len(SubSeq(r, 1, Len(e))) = Len(e)
        /\ \A i \in 1 .. Len(e) : SubSeq(r, 1, Len(e))[i] = r[i]
    BY <2>2, Kept
  <2>5. SubSeq(e, 1, Len(e)) = SubSeq(r, 1, Len(e))
    BY <2>2, <2>3, <2>4, SeqEqual
  <2>6. QED
    BY <2>2, <2>5 DEF IsPrefix, e, r
<1>2. QED
  BY <1>1, StreamInvAlways, PTL

(***************************************************************************)
(* The server gives a connection up only when it has executed everything   *)
(* that was sent on it, unless bytes were lost (controller.c:342).         *)
(***************************************************************************)
THEOREM NoRequestLeft == StreamSpec => []NothingLeftBehind
<1>1. ASSUME StreamInv PROVE NothingLeftBehind
  <2> SUFFICES ASSUME NEW c \in Opened \ (short \cup torn), Left(c)
               PROVE  executed[c] = sent[c]
    BY DEF NothingLeftBehind, Left
  <2>1. /\ Agrees(c) /\ Len(executed[c]) = Len(sent[c])
        /\ sent[c] \in Seq(Seq(0 .. 255)) /\ executed[c] \in Seq(Seq(0 .. 255))
    BY <1>1, ConnTypes, StreamAssumption DEF StreamInv, ConnInv
  <2>2. QED
    BY <2>1, SeqEqual DEF Agrees
<1>2. QED
  BY <1>1, StreamInvAlways, PTL
=============================================================================
