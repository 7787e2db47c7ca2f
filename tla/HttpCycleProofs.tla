--------------------------- MODULE HttpCycleProofs ---------------------------
(***************************************************************************)
(* Proofs about HttpCycle, for every stream of bytes, every way it is cut  *)
(* into pieces, and every size of the ring: the ring holds the last bytes  *)
(* received, each character that a parser reads is the next byte of the    *)
(* stream, and no callback is called twice.                                *)
(***************************************************************************)
EXTENDS HttpCycle, TLAPS

(***************************************************************************)
(* The invariant                                                           *)
(***************************************************************************)

RingFields == {"cap", "cells", "rp", "dep0", "dep1"}
IsRing(r)  == r = [f \in RingFields |-> r[f]]

AbufFields == {"ring", "eof", "base", "cp", "len", "erc", "bc", "lch", "spcs",
               "lim", "ccnt", "mirror", "mir"}
IsAbuf(b)  == b = [f \in AbufFields |-> b[f]]

\* The pointers of a suiolite are in their order, and region 1 is in use only when
\* region 2 reaches the end of the buffer.
RingOK(r) ==
    /\ IsRing(r)
    /\ r.cap \in Nat /\ r.rp \in Nat /\ r.dep0 \in Nat /\ r.dep1 \in Nat
    /\ r.cells \in [0 .. r.cap - 1 -> Byte]
    /\ r.dep0 <= r.rp /\ r.rp <= r.dep1 /\ r.dep1 <= r.cap /\ r.rp < r.cap
    /\ r.dep0 > 0 => r.dep1 = r.cap

\* The ring holds the bytes of s that end with the p-th, cell by cell.
Holds(r, s, p) ==
    /\ Resid(r) <= p
    /\ \A j \in r.rp .. r.dep1 - 1 : r.cells[j] = s[p - Resid(r) + 1 + (j - r.rp)]
    /\ \A j \in 0 .. r.dep0 - 1 : r.cells[j] = s[p - r.dep0 + 1 + j]

\* The window of an abuf starts where the ring does and lies in its first region.
Window(b) ==
    /\ b.base \in Nat /\ b.cp \in Nat /\ b.len \in Nat
    /\ b.base = b.ring.rp /\ b.base + b.len <= b.ring.dep1
    /\ b.base <= b.cp /\ b.cp <= b.base + b.len

\* w is a sequence of bytes; those of s that end with the p-th.
EndsAt(w, s, p) ==
    /\ Len(w) <= p
    /\ \A i \in 1 .. Len(w) : w[i] = s[p - Len(w) + i]

\* The inductive invariant: the reader is sound in every phase, ...
ReaderOK ==
    /\ IsAbuf(a) /\ RingOK(a.ring)
    /\ who # "none" => Window(a)
    /\ phase = "parse" /\ res = "none" => who # "none"

\* ... and okd and the service hold the end of what has been kept, which is what has
\* been received unless there was no room for it.
StreamOK ==
    /\ scn \in Scenarios /\ pos \in 0 .. Len(scn.bytes)
    /\ okd = [f \in {"bytes", "reqno", "timedout", "ncb"} |-> okd[f]]
    /\ okd.bytes \in Seq(Byte)
    /\ kept \in Seq(Byte)
    /\ "room" \notin slips => kept = SubSeq(scn.bytes, 1, pos)
    /\ "scraps" \notin slips =>
         /\ phase \in {"parse", "reply"} => Holds(a.ring, kept, Len(kept))
         /\ phase \in {"demux", "queued"} => EndsAt(okd.bytes, kept, Len(kept))

\* Where a reader is in the stream of which p bytes have been received: the bytes
\* before the ring, and those of the window that have been read.
At(b, p) == p - Resid(b.ring) + (b.cp - b.base)

----------------------------------------------------------------------------
(***************************************************************************)
(* suiolite                                                                *)
(***************************************************************************)

LEMMA NewRingOK ==
  ASSUME NEW n \in Nat \ {0}
  PROVE  /\ RingOK(NewRing(n)) /\ Resid(NewRing(n)) = 0 /\ Capacity(NewRing(n)) = n
         /\ NewRing(n).rp = 0
<1>1. [i \in 0 .. n - 1 |-> JUNK] \in [0 .. n - 1 -> Byte]
  BY DEF Byte
<1> QED
  BY <1>1 DEF NewRing, RingOK, IsRing, RingFields, Resid, Capacity

\* The pointers of a ring, as numbers.
LEMMA RingNumbers ==
  ASSUME NEW r, RingOK(r)
  PROVE  \E cap \in Nat, rp \in Nat, d0 \in Nat, d1 \in Nat :
           /\ r.cap = cap /\ r.rp = rp /\ r.dep0 = d0 /\ r.dep1 = d1
           /\ d0 <= rp /\ rp <= d1 /\ d1 <= cap /\ rp < cap /\ (d0 > 0 => d1 = cap)
           /\ Resid(r) = (d1 - rp) + d0 /\ Capacity(r) = cap - ((d1 - rp) + d0)
           /\ r.cells \in [0 .. cap - 1 -> Byte]
  BY DEF RingOK, Resid, Capacity

\* Where P comes from r, with pointers cap, rp, d0 and d1, by taking in the n bytes
\* of w, n1 of them into region 2.
Puts(P, r, w, cap, rp, d0, d1, n, n1) ==
    /\ r.cap = cap /\ r.rp = rp /\ r.dep0 = d0 /\ r.dep1 = d1 /\ n = Len(w)
    /\ d0 <= rp /\ rp <= d1 /\ d1 <= cap /\ rp < cap /\ n1 <= n
    /\ d0 + (n - n1) <= rp /\ d1 + n1 <= cap /\ (d0 > 0 => n1 = 0)
    /\ (d0 + (n - n1) > 0 => d1 + n1 = cap)
    /\ Resid(r) = (d1 - rp) + d0 /\ IsRing(P)
    /\ P.cap = cap /\ P.rp = rp
    /\ P.dep1 = d1 + n1 /\ P.dep0 = d0 + (n - n1)
    /\ P.cells \in [0 .. cap - 1 -> Byte]
    /\ \A i \in 0 .. cap - 1 :
         P.cells[i] = IF i \in d1 .. d1 + n1 - 1 THEN w[i - d1 + 1]
                      ELSE IF i \in d0 .. d0 + (n - n1) - 1 THEN w[n1 + i - d0 + 1]
                      ELSE r.cells[i]

\* What readv and account_for_new_bytes do to the pointers and the cells.
LEMMA PutRing ==
  ASSUME NEW r, RingOK(r), NEW w \in Seq(Byte), Len(w) <= Capacity(r)
  PROVE  \E cap \in Nat, rp \in Nat, d0 \in Nat, d1 \in Nat, n \in Nat, n1 \in Nat :
           Puts(Put(r, w), r, w, cap, rp, d0, d1, n, n1)
<1>1. PICK cap \in Nat, rp \in Nat, d0 \in Nat, d1 \in Nat :
           /\ r.cap = cap /\ r.rp = rp /\ r.dep0 = d0 /\ r.dep1 = d1
           /\ d0 <= rp /\ rp <= d1 /\ d1 <= cap /\ rp < cap /\ (d0 > 0 => d1 = cap)
           /\ Resid(r) = (d1 - rp) + d0 /\ Capacity(r) = cap - ((d1 - rp) + d0)
           /\ r.cells \in [0 .. cap - 1 -> Byte]
  BY RingNumbers
<1>2. PICK n \in Nat : n = Len(w)
  OBVIOUS
<1>3. PICK n1 \in Nat : n1 = (IF n < cap - d1 THEN n ELSE cap - d1)
  BY <1>1
<1>4. n <= cap - ((d1 - rp) + d0)
  BY <1>1, <1>2
<1>5. /\ n1 <= n /\ d1 + n1 <= cap /\ d0 + (n - n1) <= rp
      /\ (d0 > 0 => n1 = 0) /\ (d0 + (n - n1) > 0 => d1 + n1 = cap)
  BY <1>1, <1>3, <1>4
<1> DEFINE cells == [i \in 0 .. cap - 1 |->
                       IF i \in d1 .. d1 + n1 - 1 THEN w[i - d1 + 1]
                       ELSE IF i \in d0 .. d0 + (n - n1) - 1 THEN w[n1 + i - d0 + 1]
                       ELSE r.cells[i]]
           P == Put(r, w)
<1>6. cells \in [0 .. cap - 1 -> Byte]
  <2>1. \A i \in 1 .. n : w[i] \in Byte
    BY <1>2
  <2>2. \A i \in d1 .. d1 + n1 - 1 : i - d1 + 1 \in 1 .. n
    BY <1>5
  <2>3. \A i \in d0 .. d0 + (n - n1) - 1 : n1 + i - d0 + 1 \in 1 .. n
    BY <1>5
  <2> QED
    BY <1>1, <2>1, <2>2, <2>3
<1>7. P = [r EXCEPT !.cells = cells, !.dep1 = @ + n1, !.dep0 = @ + (Len(w) - n1)]
  <2>1. DOMAIN r.cells = 0 .. cap - 1
    BY <1>1
  <2> QED
    BY <1>1, <1>2, <1>3, <2>1 DEF Put
<1> HIDE DEF P, cells
<1>8. /\ IsRing(P) /\ P.cap = cap /\ P.rp = rp
      /\ P.dep1 = d1 + n1 /\ P.dep0 = d0 + (n - n1) /\ P.cells = cells
  BY <1>1, <1>2, <1>7 DEF RingOK, IsRing, RingFields
<1>9. \A i \in 0 .. cap - 1 :
        cells[i] = IF i \in d1 .. d1 + n1 - 1 THEN w[i - d1 + 1]
                   ELSE IF i \in d0 .. d0 + (n - n1) - 1 THEN w[n1 + i - d0 + 1]
                   ELSE r.cells[i]
  BY DEF cells
<1>10. Puts(P, r, w, cap, rp, d0, d1, n, n1)
  BY <1>1, <1>2, <1>5, <1>6, <1>8, <1>9 DEF Puts
<1> QED
  BY <1>10 DEF P

LEMMA PutOK ==
  ASSUME NEW r, RingOK(r), NEW w \in Seq(Byte), Len(w) <= Capacity(r)
  PROVE  /\ RingOK(Put(r, w)) /\ Resid(Put(r, w)) = Resid(r) + Len(w)
         /\ Put(r, w).rp = r.rp /\ Put(r, w).dep1 >= r.dep1
<1> DEFINE P == Put(r, w)
<1>1. PICK cap \in Nat, rp \in Nat, d0 \in Nat, d1 \in Nat, n \in Nat, n1 \in Nat :
        Puts(P, r, w, cap, rp, d0, d1, n, n1)
  BY PutRing
<1> HIDE DEF P
<1>2. /\ P.cap = cap /\ P.rp = rp /\ P.dep1 = d1 + n1 /\ P.dep0 = d0 + (n - n1)
      /\ d0 + (n - n1) <= rp /\ rp <= d1 + n1 /\ d1 + n1 <= cap /\ rp < cap
      /\ n1 <= n /\ (d0 + (n - n1) > 0 => d1 + n1 = cap)
  BY <1>1 DEF Puts
<1>3. RingOK(P)
  BY <1>1, <1>2 DEF RingOK, Puts
<1>4. Resid(P) = (d1 - rp) + d0 + n
  BY <1>2 DEF Resid
<1>5. Resid(r) = (d1 - rp) + d0 /\ r.rp = rp /\ r.dep1 = d1 /\ Len(w) = n
  BY <1>1 DEF Puts
<1> QED
  BY <1>2, <1>3, <1>4, <1>5 DEF P

\* The bytes that readv puts into the ring come after those that were there.
LEMMA PutHolds ==
  ASSUME NEW r, RingOK(r), NEW w \in Seq(Byte), Len(w) <= Capacity(r),
         NEW s, NEW p \in Nat, Holds(r, s, p), \A i \in 1 .. Len(w) : w[i] = s[p + i]
  PROVE  Holds(Put(r, w), s, p + Len(w))
<1> DEFINE P == Put(r, w)
<1>1. PICK cap \in Nat, rp \in Nat, d0 \in Nat, d1 \in Nat, n \in Nat, n1 \in Nat :
        Puts(P, r, w, cap, rp, d0, d1, n, n1)
  BY PutRing
<1> HIDE DEF P
<1>2. /\ d0 <= rp /\ rp <= d1 /\ d1 <= cap /\ rp < cap /\ n1 <= n
      /\ d0 + (n - n1) <= rp /\ d1 + n1 <= cap /\ (d0 > 0 => n1 = 0)
      /\ (d0 + (n - n1) > 0 => d1 + n1 = cap)
  BY <1>1 DEF Puts
<1>6. Resid(P) = ((d1 - rp) + d0) + n
  BY <1>1 DEF Resid, Puts
<1>7. /\ (d1 - rp) + d0 <= p
      /\ \A j \in rp .. d1 - 1 : r.cells[j] = s[p - ((d1 - rp) + d0) + 1 + (j - rp)]
      /\ \A j \in 0 .. d0 - 1 : r.cells[j] = s[p - d0 + 1 + j]
  BY <1>1 DEF Holds, Puts
<1>8. ASSUME NEW j \in rp .. (d1 + n1) - 1
      PROVE  P.cells[j] = s[(p + n) - (((d1 - rp) + d0) + n) + 1 + (j - rp)]
  <2>1. j \in 0 .. cap - 1 /\ ~(j \in d0 .. d0 + (n - n1) - 1)
    BY <1>2
  <2>2. CASE j \in d1 .. d1 + n1 - 1
    <3>1. P.cells[j] = w[j - d1 + 1]
      BY <1>1, <2>1, <2>2 DEF Puts
    <3>2. n1 > 0 /\ d0 = 0
      BY <1>2, <2>2
    <3>3. j - d1 + 1 \in 1 .. n
      BY <1>2, <2>2
    <3>4. w[j - d1 + 1] = s[p + (j - d1 + 1)]
      BY <1>1, <3>3 DEF Puts
    <3>5. p + (j - d1 + 1) = (p + n) - (((d1 - rp) + d0) + n) + 1 + (j - rp)
      BY <3>2
    <3> QED
      BY <3>1, <3>4, <3>5
  <2>3. CASE ~(j \in d1 .. d1 + n1 - 1)
    <3>1. P.cells[j] = r.cells[j] /\ j \in rp .. d1 - 1
      BY <1>1, <2>1, <2>3 DEF Puts
    <3>2. (p + n) - (((d1 - rp) + d0) + n) + 1 + (j - rp) = p - ((d1 - rp) + d0) + 1 + (j - rp)
      OBVIOUS
    <3> QED
      BY <1>7, <3>1, <3>2
  <2> QED
    BY <2>2, <2>3
<1>9. ASSUME NEW j \in 0 .. (d0 + (n - n1)) - 1
      PROVE  P.cells[j] = s[(p + n) - (d0 + (n - n1)) + 1 + j]
  <2>1. j \in 0 .. cap - 1 /\ ~(j \in d1 .. d1 + n1 - 1)
    BY <1>2
  <2>2. CASE j \in d0 .. d0 + (n - n1) - 1
    <3>1. P.cells[j] = w[n1 + j - d0 + 1]
      BY <1>1, <2>1, <2>2 DEF Puts
    <3>2. n1 + j - d0 + 1 \in 1 .. n
      BY <1>2, <2>2
    <3>3. w[n1 + j - d0 + 1] = s[p + (n1 + j - d0 + 1)]
      BY <1>1, <3>2 DEF Puts
    <3>4. p + (n1 + j - d0 + 1) = (p + n) - (d0 + (n - n1)) + 1 + j
      OBVIOUS
    <3> QED
      BY <3>1, <3>3, <3>4
  <2>3. CASE ~(j \in d0 .. d0 + (n - n1) - 1)
    <3>1. P.cells[j] = r.cells[j] /\ j \in 0 .. d0 - 1 /\ n1 = 0
      BY <1>1, <2>1, <2>3 DEF Puts
    <3>2. (p + n) - (d0 + (n - n1)) + 1 + j = p - d0 + 1 + j
      BY <3>1
    <3> QED
      BY <1>7, <3>1, <3>2
  <2> QED
    BY <2>2, <2>3
<1> QED
  BY <1>1, <1>6, <1>7, <1>8, <1>9 DEF Holds, Puts, P

\* rembytes takes n bytes off the front, whichever region they are in, and the others
\* stay what they are.
LEMMA RemBytesOK ==
  ASSUME NEW r, RingOK(r), NEW n \in Nat, n <= Resid(r)
  PROVE  /\ RingOK(RemBytes(r, n)) /\ Resid(RemBytes(r, n)) = Resid(r) - n
         /\ \A s : \A p \in Nat : Holds(r, s, p) => Holds(RemBytes(r, n), s, p)
<1>1. PICK cap \in Nat, rp \in Nat, d0 \in Nat, d1 \in Nat :
           /\ r.cap = cap /\ r.rp = rp /\ r.dep0 = d0 /\ r.dep1 = d1
           /\ d0 <= rp /\ rp <= d1 /\ d1 <= cap /\ rp < cap /\ (d0 > 0 => d1 = cap)
           /\ Resid(r) = (d1 - rp) + d0 /\ Capacity(r) = cap - ((d1 - rp) + d0)
           /\ r.cells \in [0 .. cap - 1 -> Byte]
  BY RingNumbers
<1>2. n <= (d1 - rp) + d0
  BY <1>1
<1> DEFINE P == RemBytes(r, n)
           cells == [i \in 0 .. cap - 1 |->
                       IF i \in rp .. rp + n - 1 \/ i < rp + n - cap THEN JUNK ELSE r.cells[i]]
<1>3. cells \in [0 .. cap - 1 -> Byte] /\ Scrub(r, n) = cells
  <2>1. JUNK \in Byte /\ DOMAIN r.cells = 0 .. cap - 1
    BY <1>1 DEF Byte
  <2> QED
    BY <1>1, <2>1 DEF Scrub
<1>4. \A i \in 0 .. cap - 1 :
        ~(i \in rp .. rp + n - 1) /\ ~(i < rp + n - cap) => cells[i] = r.cells[i]
  OBVIOUS
<1> HIDE DEF cells
<1>5. ASSUME NEW s, NEW p \in Nat, Holds(r, s, p)
      PROVE  /\ (d1 - rp) + d0 <= p
             /\ \A j \in rp .. d1 - 1 : r.cells[j] = s[p - ((d1 - rp) + d0) + 1 + (j - rp)]
             /\ \A j \in 0 .. d0 - 1 : r.cells[j] = s[p - d0 + 1 + j]
  BY <1>1, <1>5 DEF Holds
<1>6. CASE n >= cap - rp
  <2>1. d1 = cap /\ n - (cap - rp) \in Nat /\ n - (cap - rp) <= d0 /\ d0 < cap
    BY <1>1, <1>2, <1>6
  <2>2. PICK q \in Nat : q = n - (cap - rp)
    BY <2>1
  <2>3. P = [r EXCEPT !.rp = q, !.dep1 = d0, !.dep0 = 0, !.cells = cells]
    BY <1>1, <1>3, <1>6, <2>2 DEF RemBytes
  <2> HIDE DEF P
  <2>4. IsRing(P) /\ P.cap = cap /\ P.rp = q /\ P.dep1 = d0 /\ P.dep0 = 0 /\ P.cells = cells
    BY <1>1, <2>3 DEF RingOK, IsRing, RingFields
  <2>5. RingOK(P)
    BY <1>3, <2>1, <2>2, <2>4 DEF RingOK
  <2>6. Resid(P) = d0 - q /\ d0 - q = ((d1 - rp) + d0) - n
    BY <2>1, <2>2, <2>4 DEF Resid
  <2>7. ASSUME NEW s, NEW p \in Nat, Holds(r, s, p) PROVE Holds(P, s, p)
    <3>1. d0 - q <= p
      BY <1>2, <1>5, <2>6, <2>7
    <3>2. ASSUME NEW j \in q .. d0 - 1 PROVE cells[j] = s[p - (d0 - q) + 1 + (j - q)]
      <4>1. j \in 0 .. cap - 1 /\ ~(j \in rp .. rp + n - 1) /\ ~(j < rp + n - cap)
        BY <1>1, <2>1, <2>2
      <4>2. cells[j] = s[p - d0 + 1 + j]
        BY <1>4, <1>5, <2>7, <4>1
      <4>3. p - d0 + 1 + j = p - (d0 - q) + 1 + (j - q)
        OBVIOUS
      <4> QED
        BY <4>2, <4>3
    <3> QED
      BY <2>4, <2>6, <3>1, <3>2 DEF Holds
  <2> QED
    BY <1>1, <2>5, <2>6, <2>7 DEF P
<1>7. CASE ~(n >= cap - rp)
  <2>1. rp + n <= d1 /\ rp + n < cap /\ rp + n \in Nat
    BY <1>1, <1>2, <1>7
  <2>2. PICK q \in Nat : q = rp + n
    BY <2>1
  <2>3. P = [r EXCEPT !.rp = q, !.cells = cells]
    BY <1>1, <1>3, <1>7, <2>2 DEF RemBytes
  <2> HIDE DEF P
  <2>4. IsRing(P) /\ P.cap = cap /\ P.rp = q /\ P.dep1 = d1 /\ P.dep0 = d0 /\ P.cells = cells
    BY <1>1, <2>3 DEF RingOK, IsRing, RingFields
  <2>5. RingOK(P)
    <3>1. d0 <= q
      BY <1>1, <2>2
    <3> QED
      BY <1>1, <1>3, <2>1, <2>2, <2>4, <3>1 DEF RingOK
  <2>6. Resid(P) = (d1 - q) + d0 /\ (d1 - q) + d0 = ((d1 - rp) + d0) - n
    BY <2>2, <2>4 DEF Resid
  <2>7. ASSUME NEW s, NEW p \in Nat, Holds(r, s, p) PROVE Holds(P, s, p)
    <3>1. (d1 - q) + d0 <= p
      BY <1>2, <1>5, <2>6, <2>7
    <3>2. ASSUME NEW j \in q .. d1 - 1 PROVE cells[j] = s[p - ((d1 - q) + d0) + 1 + (j - q)]
      <4>1. j \in 0 .. cap - 1 /\ ~(j \in rp .. rp + n - 1) /\ ~(j < rp + n - cap)
            /\ j \in rp .. d1 - 1
        BY <1>1, <2>1, <2>2
      <4>2. cells[j] = s[p - ((d1 - rp) + d0) + 1 + (j - rp)]
        BY <1>4, <1>5, <2>7, <4>1
      <4>3. p - ((d1 - rp) + d0) + 1 + (j - rp) = p - ((d1 - q) + d0) + 1 + (j - q)
        OBVIOUS
      <4> QED
        BY <4>2, <4>3
    <3>3. ASSUME NEW j \in 0 .. d0 - 1 PROVE cells[j] = s[p - d0 + 1 + j]
      <4>1. j \in 0 .. cap - 1 /\ ~(j \in rp .. rp + n - 1) /\ ~(j < rp + n - cap)
        BY <1>1, <2>1
      <4> QED
        BY <1>4, <1>5, <2>7, <4>1
    <3> QED
      BY <2>4, <2>6, <3>1, <3>2, <3>3 DEF Holds
  <2> QED
    BY <1>1, <2>5, <2>6, <2>7 DEF P
<1> QED
  BY <1>6, <1>7

\* An empty ring holds the end of anything.
LEMMA EmptyHolds ==
  ASSUME NEW r, RingOK(r), Resid(r) = 0, NEW s, NEW p \in Nat
  PROVE  Holds(r, s, p)
<1>1. PICK cap \in Nat, rp \in Nat, d0 \in Nat, d1 \in Nat :
           /\ r.cap = cap /\ r.rp = rp /\ r.dep0 = d0 /\ r.dep1 = d1
           /\ d0 <= rp /\ rp <= d1 /\ d1 <= cap /\ rp < cap /\ (d0 > 0 => d1 = cap)
           /\ Resid(r) = (d1 - rp) + d0 /\ Capacity(r) = cap - ((d1 - rp) + d0)
           /\ r.cells \in [0 .. cap - 1 -> Byte]
  BY RingNumbers
<1>2. d0 = 0 /\ d1 = rp
  BY <1>1
<1>3. rp .. d1 - 1 = {} /\ 0 .. d0 - 1 = {}
  BY <1>2
<1> QED
  BY <1>1, <1>2, <1>3 DEF Holds

\* The beginning of a sequence of bytes.
LEMMA PrefixOK ==
  ASSUME NEW w \in Seq(Byte), NEW k \in Nat, k <= Len(w)
  PROVE  /\ SubSeq(w, 1, k) \in Seq(Byte) /\ Len(SubSeq(w, 1, k)) = k
         /\ \A i \in 1 .. k : SubSeq(w, 1, k)[i] = w[i]
<1>1. SubSeq(w, 1, k) = [i \in 1 .. k |-> w[i]]
  <2>1. SubSeq(w, 1, k) = [i \in 1 .. (k - 1) + 1 |-> w[i + 1 - 1]]
    OBVIOUS
  <2>2. (k - 1) + 1 = k /\ \A i \in 1 .. k : i + 1 - 1 = i
    OBVIOUS
  <2> QED
    BY <2>1, <2>2
<1>2. \A i \in 1 .. k : w[i] \in Byte
  OBVIOUS
<1> QED
  BY <1>1, <1>2

\* load_from_buffer into the ring of a new connection, which grows if need be: it takes
\* the first MaxRing bytes.
LEMMA LoadFromBufferOK ==
  ASSUME NEW w \in Seq(Byte), NEW k \in Nat, k = Lesser(Len(w), MaxRing)
  PROVE  LET L == LoadFromBuffer(NewRing(RingSize), w) IN
         /\ RingOK(L) /\ Resid(L) = k /\ L.rp = 0
         /\ \A s : \A p \in Nat : EndsAt(SubSeq(w, 1, k), s, p) => Holds(L, s, p)
<1> DEFINE L == LoadFromBuffer(NewRing(RingSize), w)
           R == IF Len(w) > Capacity(NewRing(RingSize))
                THEN NewRing(Lesser(Len(w) + 10, MaxRing)) ELSE NewRing(RingSize)
           v == SubSeq(w, 1, k)
<1>0. PICK l \in Nat : l = Len(w)
  OBVIOUS
<1>1. L = Put(R, SubSeq(w, 1, Lesser(Len(w), Capacity(R))))
  BY DEF LoadFromBuffer
<1>2. /\ RingOK(R) /\ Resid(R) = 0 /\ R.rp = 0 /\ Capacity(R) \in Nat
      /\ Lesser(l, Capacity(R)) = k
  <2>1. Capacity(NewRing(RingSize)) = RingSize
    BY RingAssumption, NewRingOK
  <2>2. CASE l > RingSize
    <3>1. PICK c1 \in Nat \ {0} : c1 = Lesser(l + 10, MaxRing)
      BY RingAssumption DEF Lesser
    <3>2. R = NewRing(c1)
      BY <1>0, <2>1, <2>2, <3>1
    <3>3. RingOK(R) /\ Resid(R) = 0 /\ R.rp = 0 /\ Capacity(R) = c1
      BY <3>1, <3>2, NewRingOK
    <3>4. Lesser(l, c1) = k
      BY <1>0, <3>1, RingAssumption DEF Lesser
    <3> QED
      BY <3>3, <3>4
  <2>3. CASE ~(l > RingSize)
    <3>1. R = NewRing(RingSize)
      BY <1>0, <2>1, <2>3
    <3>2. RingOK(R) /\ Resid(R) = 0 /\ R.rp = 0 /\ Capacity(R) = RingSize
      BY <3>1, NewRingOK, RingAssumption
    <3>3. Lesser(l, RingSize) = k
      BY <1>0, <2>3, RingAssumption DEF Lesser
    <3> QED
      BY <3>2, <3>3, RingAssumption
  <2> QED
    BY <2>2, <2>3
<1>3. L = Put(R, v)
  BY <1>0, <1>1, <1>2
<1>4. k <= l /\ k <= Capacity(R)
  BY <1>0, <1>2 DEF Lesser
<1>5. v \in Seq(Byte) /\ Len(v) = k
  BY <1>0, <1>4, PrefixOK
<1> HIDE DEF R, L, v
<1>6. RingOK(L) /\ Resid(L) = k /\ L.rp = 0
  BY <1>2, <1>3, <1>4, <1>5, PutOK
<1>7. ASSUME NEW s, NEW p \in Nat, EndsAt(v, s, p) PROVE Holds(L, s, p)
  <2>1. p - k \in Nat /\ (p - k) + k = p
    BY <1>5, <1>7 DEF EndsAt
  <2>2. \A i \in 1 .. k : v[i] = s[(p - k) + i]
    BY <1>5, <1>7 DEF EndsAt
  <2>3. Holds(R, s, p - k)
    BY <1>2, <2>1, EmptyHolds
  <2>4. Holds(Put(R, v), s, (p - k) + Len(v))
    BY <1>2, <1>4, <1>5, <2>1, <2>2, <2>3, PutHolds
  <2> QED
    BY <1>3, <1>5, <2>1, <2>4
<1> QED
  BY <1>6, <1>7 DEF L, v

\* load_into_xdr gives back what the ring holds when it does not wrap, and as many
\* bytes when it does.
LEMMA LoadIntoXdrOK ==
  ASSUME NEW r, RingOK(r)
  PROVE  /\ LoadIntoXdr(r) \in Seq(Byte) /\ Len(LoadIntoXdr(r)) = Resid(r)
         /\ \A s : \A p \in Nat : ~Wrapped(r) /\ Holds(r, s, p) => EndsAt(LoadIntoXdr(r), s, p)
<1>1. PICK cap \in Nat, rp \in Nat, d0 \in Nat, d1 \in Nat :
           /\ r.cap = cap /\ r.rp = rp /\ r.dep0 = d0 /\ r.dep1 = d1
           /\ d0 <= rp /\ rp <= d1 /\ d1 <= cap /\ rp < cap /\ (d0 > 0 => d1 = cap)
           /\ Resid(r) = (d1 - rp) + d0 /\ Capacity(r) = cap - ((d1 - rp) + d0)
           /\ r.cells \in [0 .. cap - 1 -> Byte]
  BY RingNumbers
<1>2. PICK n \in Nat : n = (d1 - rp) + d0
  BY <1>1
<1> DEFINE first  == [i \in 1 .. d1 - rp |-> r.cells[rp + i - 1]]
           second == [i \in 1 .. d0 |-> r.cells[i - 1]]
           x2 == [i \in 1 .. n |-> IF i <= d0 THEN second[i]
                                   ELSE IF i <= d1 - rp THEN first[i] ELSE JUNK]
           L == LoadIntoXdr(r)
<1>3. Len(first) = d1 - rp /\ Len(second) = d0
  <2>1. d1 - rp \in Nat
    BY <1>1
  <2> QED
    BY <2>1
<1>4. L = x2
  <2>1. Resid(r) = n
    BY <1>1, <1>2
  <2> DEFINE f == [i \in 1 .. r.dep1 - r.rp |-> r.cells[r.rp + i - 1]]
             g == [i \in 1 .. r.dep0 |-> r.cells[i - 1]]
  <2>2. f = first /\ g = second
    BY <1>1
  <2>3. Len(f) = d1 - rp /\ Len(g) = d0
    <3> HIDE DEF f, g, first, second
    <3> QED
      BY <1>3, <2>2
  <2>4. L = [i \in 1 .. Resid(r) |-> IF i <= Len(g) THEN g[i]
                                     ELSE IF i <= Len(f) THEN f[i] ELSE JUNK]
    BY DEF LoadIntoXdr
  <2> HIDE DEF f, g, first, second, L
  <2> QED
    BY <2>1, <2>2, <2>3, <2>4
<1>5. \A i \in 1 .. n : x2[i] \in Byte
  <2>1. JUNK \in Byte
    BY DEF Byte
  <2>2. \A i \in 1 .. d0 : i - 1 \in 0 .. cap - 1
    BY <1>1
  <2>3. \A i \in 1 .. d1 - rp : rp + i - 1 \in 0 .. cap - 1
    BY <1>1
  <2>4. \A i \in 1 .. d0 : second[i] \in Byte
    BY <1>1, <2>2
  <2>5. \A i \in 1 .. d1 - rp : first[i] \in Byte
    BY <1>1, <2>3
  <2> QED
    BY <2>1, <2>4, <2>5
<1>6. x2 \in Seq(Byte) /\ Len(x2) = n
  BY <1>5
<1>7. ASSUME NEW s, NEW p \in Nat, ~Wrapped(r), Holds(r, s, p) PROVE EndsAt(L, s, p)
  <2>1. /\ n <= p
        /\ \A j \in rp .. d1 - 1 : r.cells[j] = s[p - n + 1 + (j - rp)]
        /\ \A j \in 0 .. d0 - 1 : r.cells[j] = s[p - d0 + 1 + j]
    BY <1>1, <1>2, <1>7 DEF Holds
  <2>2. d0 = 0
    BY <1>1, <1>7 DEF Wrapped
  <2>3. ASSUME NEW i \in 1 .. n PROVE x2[i] = s[p - n + i]
    <3>1. i \in 1 .. d1 - rp /\ rp + i - 1 \in rp .. d1 - 1 /\ ~(i <= d0) /\ i <= d1 - rp
      BY <1>2, <2>2
    <3>2. x2[i] = r.cells[rp + i - 1]
      BY <3>1
    <3>3. r.cells[rp + i - 1] = s[p - n + 1 + ((rp + i - 1) - rp)]
      BY <2>1, <3>1
    <3>4. p - n + 1 + ((rp + i - 1) - rp) = p - n + i
      OBVIOUS
    <3> QED
      BY <3>2, <3>3, <3>4
  <2> QED
    BY <1>4, <1>6, <2>1, <2>3 DEF EndsAt
<1> QED
  BY <1>1, <1>2, <1>4, <1>6, <1>7

\* Two sequences with the same elements are equal.
LEMMA SeqEq ==
  ASSUME NEW u \in Seq(Byte), NEW v \in Seq(Byte), Len(u) = Len(v),
         \A i \in 1 .. Len(u) : u[i] = v[i]
  PROVE  u = v
  OBVIOUS

\* Two sequences, one after the other.
LEMMA ConcatOK ==
  ASSUME NEW u \in Seq(Byte), NEW v \in Seq(Byte)
  PROVE  /\ u \o v \in Seq(Byte) /\ Len(u \o v) = Len(u) + Len(v)
         /\ \A i \in 1 .. Len(u) + Len(v) :
              (u \o v)[i] = IF i <= Len(u) THEN u[i] ELSE v[i - Len(u)]
  OBVIOUS

\* The whole of a sequence is its beginning.
LEMMA WholeOK == ASSUME NEW w \in Seq(Byte) PROVE SubSeq(w, 1, Len(w)) = w
<1>1. Len(w) \in Nat /\ Len(w) <= Len(w)
  OBVIOUS
<1> DEFINE v == SubSeq(w, 1, Len(w))
<1>2. v \in Seq(Byte) /\ Len(v) = Len(w) /\ \A i \in 1 .. Len(w) : v[i] = w[i]
  BY <1>1, PrefixOK
<1> HIDE DEF v
<1>3. v = w
  BY <1>2, SeqEq
<1> QED
  BY <1>3 DEF v

\* A ring that holds the end of s cell by cell has it for its contents.
LEMMA ContentsOK ==
  ASSUME NEW r, RingOK(r), NEW s \in Seq(Byte), NEW p \in Nat, p <= Len(s), Holds(r, s, p)
  PROVE  Contents(r) = SubSeq(s, p - Resid(r) + 1, p)
<1>1. PICK cap \in Nat, rp \in Nat, d0 \in Nat, d1 \in Nat :
           /\ r.cap = cap /\ r.rp = rp /\ r.dep0 = d0 /\ r.dep1 = d1
           /\ d0 <= rp /\ rp <= d1 /\ d1 <= cap /\ rp < cap /\ (d0 > 0 => d1 = cap)
           /\ Resid(r) = (d1 - rp) + d0 /\ Capacity(r) = cap - ((d1 - rp) + d0)
           /\ r.cells \in [0 .. cap - 1 -> Byte]
  BY RingNumbers
<1>2. PICK n1 \in Nat, n \in Nat : n1 = d1 - rp /\ n = n1 + d0
  BY <1>1
<1>3. /\ n <= p
      /\ \A j \in rp .. d1 - 1 : r.cells[j] = s[p - n + 1 + (j - rp)]
      /\ \A j \in 0 .. d0 - 1 : r.cells[j] = s[p - d0 + 1 + j]
  BY <1>1, <1>2 DEF Holds
<1> DEFINE first  == [i \in 1 .. n1 |-> r.cells[rp + i - 1]]
           second == [i \in 1 .. d0 |-> r.cells[i - 1]]
<1>4. /\ first \in Seq(Byte) /\ Len(first) = n1
      /\ \A i \in 1 .. n1 : first[i] = r.cells[rp + i - 1]
  <2>1. \A i \in 1 .. n1 : rp + i - 1 \in 0 .. cap - 1
    BY <1>1, <1>2
  <2>2. \A i \in 1 .. n1 : r.cells[rp + i - 1] \in Byte
    BY <1>1, <2>1
  <2> QED
    BY <2>2
<1>5. /\ second \in Seq(Byte) /\ Len(second) = d0
      /\ \A i \in 1 .. d0 : second[i] = r.cells[i - 1]
  <2>1. \A i \in 1 .. d0 : i - 1 \in 0 .. cap - 1
    BY <1>1
  <2>2. \A i \in 1 .. d0 : r.cells[i - 1] \in Byte
    BY <1>1, <2>1
  <2> QED
    BY <2>2
<1>6. Contents(r) = first \o second
  BY <1>1, <1>2 DEF Contents
<1> HIDE DEF first, second
<1> DEFINE u == first \o second
           v == SubSeq(s, p - n + 1, p)
<1>7. /\ u \in Seq(Byte) /\ Len(u) = n
      /\ \A i \in 1 .. n : u[i] = IF i <= n1 THEN first[i] ELSE second[i - n1]
  <2>1. /\ u \in Seq(Byte) /\ Len(u) = Len(first) + Len(second)
        /\ \A i \in 1 .. Len(first) + Len(second) :
             u[i] = IF i <= Len(first) THEN first[i] ELSE second[i - Len(first)]
    BY <1>4, <1>5, ConcatOK
  <2> HIDE DEF u
  <2> QED
    BY <1>2, <1>4, <1>5, <2>1
<1>8. v \in Seq(Byte) /\ Len(v) = n /\ \A i \in 1 .. n : v[i] = s[p - n + i]
  <2>1. p - n + 1 >= 1 /\ p \in Nat /\ Len(s) \in Nat
    BY <1>3
  <2>2. \A i \in p - n + 1 .. p : s[i] \in Byte
    BY <1>3, <2>1
  <2>3. v = [i \in 1 .. (p - (p - n + 1)) + 1 |-> s[i + (p - n + 1) - 1]]
    BY <2>1
  <2>4. (p - (p - n + 1)) + 1 = n /\ \A i \in 1 .. n : i + (p - n + 1) - 1 = p - n + i
    OBVIOUS
  <2>5. \A i \in 1 .. n : p - n + i \in p - n + 1 .. p
    OBVIOUS
  <2>6. v = [i \in 1 .. n |-> s[p - n + i]]
    BY <2>3, <2>4
  <2> HIDE DEF v
  <2> QED
    BY <2>2, <2>5, <2>6
<1>9. ASSUME NEW i \in 1 .. n PROVE u[i] = v[i]
  <2>1. CASE i <= n1
    <3>1. i \in 1 .. n1 /\ rp + i - 1 \in rp .. d1 - 1
      BY <1>2, <2>1
    <3>2. u[i] = r.cells[rp + i - 1]
      BY <1>4, <1>7, <2>1, <3>1
    <3>3. r.cells[rp + i - 1] = s[p - n + 1 + ((rp + i - 1) - rp)]
      BY <1>3, <3>1
    <3>4. p - n + 1 + ((rp + i - 1) - rp) = p - n + i
      OBVIOUS
    <3> QED
      BY <1>8, <3>2, <3>3, <3>4
  <2>2. CASE ~(i <= n1)
    <3>1. i - n1 \in 1 .. d0 /\ i - n1 - 1 \in 0 .. d0 - 1
      BY <1>2, <2>2
    <3>2. u[i] = r.cells[i - n1 - 1]
      BY <1>5, <1>7, <2>2, <3>1
    <3>3. r.cells[i - n1 - 1] = s[p - d0 + 1 + (i - n1 - 1)]
      BY <1>3, <3>1
    <3>4. p - d0 + 1 + (i - n1 - 1) = p - n + i
      BY <1>2
    <3> QED
      BY <1>8, <3>2, <3>3, <3>4
  <2> QED
    BY <2>1, <2>2
<1> HIDE DEF u, v
<1>10. u = v
  BY <1>7, <1>8, <1>9, SeqEq
<1>11. Resid(r) = n
  BY <1>1, <1>2
<1> QED
  BY <1>6, <1>10, <1>11 DEF u, v

----------------------------------------------------------------------------
(***************************************************************************)
(* abuf_t                                                                  *)
(***************************************************************************)

\* A reader with a parser on it.
Reader(b) == IsAbuf(b) /\ RingOK(b.ring) /\ Window(b)

\* g has lost no byte that b had; as a reader it is where b is, or it has just taken
\* the next byte of the stream.
Follows(b, g) ==
    \A s : \A p \in Nat : Holds(b.ring, s, p) =>
      /\ Holds(g.ring, s, p)
      /\ \/ At(g, p) = At(b, p)
         \/ At(g, p) = At(b, p) + 1 /\ g.lch = s[At(g, p)]

\* g differs from b in nothing that has to do with the ring and the window.
Like(b, g) ==
    /\ IsAbuf(g) /\ g.ring = b.ring /\ g.base = b.base /\ g.cp = b.cp /\ g.len = b.len
    /\ g.lch = b.lch

LEMMA NewAbufOK ==
  ASSUME NEW r, RingOK(r), r.rp = 0, NEW e
  PROVE  Reader(Mirror(NewAbuf(r, e))) /\ Mirror(NewAbuf(r, e)).ring = r
         /\ IsAbuf(NewAbuf(r, e)) /\ NewAbuf(r, e).ring = r
<1> DEFINE b == Mirror(NewAbuf(r, e))
<1>1. IsAbuf(b) /\ b.ring = r /\ b.base = 0 /\ b.cp = 0 /\ b.len = 0
  BY DEF NewAbuf, Mirror, IsAbuf, AbufFields
<1>2. IsAbuf(NewAbuf(r, e)) /\ NewAbuf(r, e).ring = r
  BY DEF NewAbuf, IsAbuf, AbufFields
<1> HIDE DEF b
<1>3. Window(b)
  BY <1>1 DEF Window, RingOK
<1> QED
  BY <1>1, <1>2, <1>3 DEF Reader, b

\* The calls that leave the ring and the window alone.
LEMMA LikeBuf ==
  ASSUME NEW b, IsAbuf(b)
  PROVE  /\ Like(b, b) /\ Like(b, Unget(b)) /\ Like(b, Mirror(b)) /\ Like(b, EndMirror(b))
         /\ Like(b, CanRead(b)) /\ \A n : Like(b, SetLim(b, n))
         /\ \A e : Like(b, [b EXCEPT !.eof = e]) /\ Like(b, CanRead([b EXCEPT !.eof = e]))
         /\ \A e : Like(b, Mirror(CanRead([b EXCEPT !.eof = e])))
         /\ Like(b, ResetAbuf(b)) /\ Like(b, [b EXCEPT !.spcs = 0])
         /\ Like(b, [b EXCEPT !.spcs = @ + 1])
<1> USE DEF IsAbuf, AbufFields, Like
<1>1. Like(b, b) /\ Like(b, Unget(b))
  BY DEF Unget
<1>2. Like(b, Mirror(b)) /\ Like(b, EndMirror(b))
  BY DEF Mirror, EndMirror
<1>3. Like(b, CanRead(b)) /\ \A n : Like(b, SetLim(b, n))
  BY DEF CanRead, SetLim
<1>4. \A e : Like(b, [b EXCEPT !.eof = e]) /\ Like(b, CanRead([b EXCEPT !.eof = e]))
  BY DEF CanRead
<1>5. \A e : Like(b, Mirror(CanRead([b EXCEPT !.eof = e])))
  BY DEF CanRead, Mirror
<1>6. Like(b, ResetAbuf(b)) /\ Like(b, [b EXCEPT !.spcs = 0]) /\ Like(b, [b EXCEPT !.spcs = @ + 1])
  BY DEF ResetAbuf
<1> QED
  BY <1>1, <1>2, <1>3, <1>4, <1>5, <1>6

LEMMA LikeTrans ==
  ASSUME NEW b, NEW g, NEW f, Like(b, g), Like(g, f)
  PROVE  Like(b, f)
  BY DEF Like

\* A reader that is like another one can do what the other can.
LEMMA LikeReader ==
  ASSUME NEW b, NEW g, Like(b, g)
  PROVE  /\ Reader(b) => Reader(g) /\ Follows(b, g)
         /\ \A p \in Nat : At(g, p) = At(b, p)
  BY DEF Like, Reader, Follows, Window, At

\* The numbers of a reader.
LEMMA ReaderNumbers ==
  ASSUME NEW b, Reader(b)
  PROVE  \E base \in Nat, cp \in Nat, len \in Nat, d1 \in Nat, d0 \in Nat :
           /\ b.base = base /\ b.cp = cp /\ b.len = len
           /\ b.ring.rp = base /\ b.ring.dep1 = d1 /\ b.ring.dep0 = d0
           /\ base + len <= d1 /\ base <= cp /\ cp <= base + len
           /\ Resid(b.ring) = (d1 - base) + d0
<1> DEFINE r == b.ring
<1>1. RingOK(r) /\ b.base \in Nat /\ b.cp \in Nat /\ b.len \in Nat /\ b.base = r.rp
      /\ b.base + b.len <= r.dep1 /\ b.base <= b.cp /\ b.cp <= b.base + b.len
  BY DEF Reader, Window
<1> HIDE DEF r
<1>2. r.rp \in Nat /\ r.dep0 \in Nat /\ r.dep1 \in Nat
  BY <1>1 DEF RingOK
<1> QED
  BY <1>1, <1>2 DEF Resid, r

\* ABUF_T_GET_GOT_CHAR takes the next byte of the stream.
LEMMA GotCharOK ==
  ASSUME NEW b, Reader(b), HasChar(b)
  PROVE  Reader(GotChar(b)) /\ Follows(b, GotChar(b))
<1>1. PICK base \in Nat, cp \in Nat, len \in Nat, d1 \in Nat, d0 \in Nat :
           /\ b.base = base /\ b.cp = cp /\ b.len = len
           /\ b.ring.rp = base /\ b.ring.dep1 = d1 /\ b.ring.dep0 = d0
           /\ base + len <= d1 /\ base <= cp /\ cp <= base + len
           /\ Resid(b.ring) = (d1 - base) + d0
  BY ReaderNumbers
<1> DEFINE g == GotChar(b)
<1>2. /\ IsAbuf(g) /\ g.ring = b.ring /\ g.base = base /\ g.len = len /\ g.cp = cp + 1
      /\ g.lch = b.ring.cells[cp]
  BY <1>1 DEF GotChar, Reader, IsAbuf, AbufFields
<1>3. cp < base + len
  BY <1>1 DEF HasChar
<1> HIDE DEF g
<1>4. Window(g)
  BY <1>1, <1>2, <1>3 DEF Window
<1>5. Reader(g)
  BY <1>2, <1>4 DEF Reader
<1>6. ASSUME NEW s, NEW p \in Nat, Holds(b.ring, s, p)
      PROVE  At(g, p) = At(b, p) + 1 /\ g.lch = s[At(g, p)]
  <2>1. At(b, p) = p - ((d1 - base) + d0) + (cp - base)
    BY <1>1 DEF At
  <2>2. At(g, p) = p - ((d1 - base) + d0) + ((cp + 1) - base)
    BY <1>1, <1>2 DEF At
  <2>3. cp \in base .. d1 - 1
    BY <1>1, <1>3
  <2>4. b.ring.cells[cp] = s[p - ((d1 - base) + d0) + 1 + (cp - base)]
    BY <1>1, <1>6, <2>3 DEF Holds
  <2>5. p - ((d1 - base) + d0) + 1 + (cp - base) = p - ((d1 - base) + d0) + ((cp + 1) - base)
    OBVIOUS
  <2>6. p - ((d1 - base) + d0) + ((cp + 1) - base) = p - ((d1 - base) + d0) + (cp - base) + 1
    OBVIOUS
  <2> QED
    BY <1>2, <2>1, <2>2, <2>4, <2>5, <2>6
<1>7. Follows(b, g)
  BY <1>2, <1>6 DEF Follows
<1> QED
  BY <1>5, <1>7 DEF g

\* moredata, at the end of the window, gives back the window and takes the next one.
LEMMA MoreDataOK ==
  ASSUME NEW b, Reader(b), ~HasChar(b)
  PROVE  /\ Reader(MoreData(b))
         /\ \A s : \A p \in Nat : Holds(b.ring, s, p) =>
              Holds(MoreData(b).ring, s, p) /\ At(MoreData(b), p) = At(b, p)
<1>1. PICK base \in Nat, cp \in Nat, len \in Nat, d1 \in Nat, d0 \in Nat :
           /\ b.base = base /\ b.cp = cp /\ b.len = len
           /\ b.ring.rp = base /\ b.ring.dep1 = d1 /\ b.ring.dep0 = d0
           /\ base + len <= d1 /\ base <= cp /\ cp <= base + len
           /\ Resid(b.ring) = (d1 - base) + d0
  BY ReaderNumbers
<1>2. cp = base + len
  BY <1>1 DEF HasChar
<1> DEFINE g == MoreData(b)
           r == IF len > 0 THEN RemBytes(b.ring, len) ELSE b.ring
<1>3. /\ RingOK(r) /\ Resid(r) = ((d1 - base) + d0) - len
      /\ \A s : \A p \in Nat : Holds(b.ring, s, p) => Holds(r, s, p)
  <2>1. RingOK(b.ring) /\ len <= Resid(b.ring)
    BY <1>1 DEF Reader
  <2>2. CASE len > 0
    BY <1>1, <2>1, <2>2, RemBytesOK
  <2>3. CASE ~(len > 0)
    <3>1. len = 0
      BY <2>3
    <3> QED
      BY <1>1, <2>1, <2>3, <3>1
  <2> QED
    BY <2>2, <2>3
<1>4. /\ IsAbuf(g) /\ g.ring = r /\ g.base = r.rp /\ g.cp = r.rp
      /\ g.len = IF b.eof THEN 0 ELSE r.dep1 - r.rp
  BY <1>1 DEF MoreData, Reader, IsAbuf, AbufFields
<1> HIDE DEF g, r
<1>5. PICK rp \in Nat, e1 \in Nat : r.rp = rp /\ r.dep1 = e1 /\ rp <= e1
  BY <1>3 DEF RingOK
<1>6. PICK k \in Nat : g.len = k /\ rp + k <= e1
  BY <1>4, <1>5
<1>7. Window(g)
  BY <1>4, <1>5, <1>6 DEF Window
<1>8. Reader(g)
  BY <1>3, <1>4, <1>7 DEF Reader
<1>9. ASSUME NEW p \in Nat PROVE At(g, p) = At(b, p)
  <2>1. At(g, p) = p - (((d1 - base) + d0) - len) + (rp - rp)
    BY <1>3, <1>4, <1>5 DEF At
  <2>2. At(b, p) = p - ((d1 - base) + d0) + (cp - base)
    BY <1>1 DEF At
  <2>3. p - (((d1 - base) + d0) - len) + (rp - rp) = p - ((d1 - base) + d0) + (cp - base)
    BY <1>2
  <2> QED
    BY <2>1, <2>2, <2>3
<1> QED
  BY <1>3, <1>4, <1>8, <1>9 DEF g

\* get: whatever it has to do for a character, the character is the next byte.
LEMMA AfterGetOK ==
  ASSUME NEW b, Reader(b)
  PROVE  Reader(AfterGet(b)) /\ Follows(b, AfterGet(b))
<1> DEFINE more == IF b.erc = "OK" THEN MoreData(b) ELSE b
<1>0. IsAbuf(b)
  BY DEF Reader
<1>1. CASE b.bc
  <2>1. AfterGet(b) = [b EXCEPT !.bc = FALSE]
    BY <1>1 DEF AfterGet
  <2>2. Like(b, [b EXCEPT !.bc = FALSE])
    BY <1>0 DEF Like, IsAbuf, AbufFields
  <2> QED
    BY <2>1, <2>2, LikeReader
<1>2. CASE ~b.bc /\ b.lim = b.ccnt
  <2>1. AfterGet(b) = b
    BY <1>2 DEF AfterGet
  <2> QED
    BY <1>0, <2>1, LikeBuf, LikeReader
<1>3. CASE ~b.bc /\ b.lim # b.ccnt /\ HasChar(b)
  <2>1. AfterGet(b) = GotChar(b)
    BY <1>3 DEF AfterGet
  <2> QED
    BY <1>3, <2>1, GotCharOK
<1>4. CASE ~b.bc /\ b.lim # b.ccnt /\ ~HasChar(b)
  <2>1. AfterGet(b) = IF more.erc = "OK" /\ HasChar(more) THEN GotChar(more)
                      ELSE [more EXCEPT !.lch = IF more.erc = "WAIT" THEN WAITCHAR ELSE EOFCHAR]
    BY <1>4 DEF AfterGet
  <2>2. /\ Reader(more)
        /\ \A s : \A p \in Nat : Holds(b.ring, s, p) =>
             Holds(more.ring, s, p) /\ At(more, p) = At(b, p)
    <3>1. CASE b.erc = "OK"
      BY <1>4, <3>1, MoreDataOK
    <3>2. CASE b.erc # "OK"
      BY <3>2
    <3> QED
      BY <3>1, <3>2
  <2> HIDE DEF more
  <2>3. CASE more.erc = "OK" /\ HasChar(more)
    <3>1. Reader(GotChar(more)) /\ Follows(more, GotChar(more))
      BY <2>2, <2>3, GotCharOK
    <3> QED
      BY <2>1, <2>2, <2>3, <3>1 DEF Follows
  <2>4. CASE ~(more.erc = "OK" /\ HasChar(more))
    <3> DEFINE e == IF more.erc = "WAIT" THEN WAITCHAR ELSE EOFCHAR
               g == [more EXCEPT !.lch = e]
    <3>1. /\ IsAbuf(g) /\ g.ring = more.ring /\ g.base = more.base
          /\ g.cp = more.cp /\ g.len = more.len
      BY <2>2 DEF Reader, IsAbuf, AbufFields
    <3>2. AfterGet(b) = g
      BY <2>1, <2>4
    <3> HIDE DEF g
    <3>3. Reader(g) /\ \A p \in Nat : At(g, p) = At(more, p)
      BY <2>2, <3>1 DEF Reader, Window, At
    <3> QED
      BY <2>2, <3>1, <3>2, <3>3 DEF Follows
  <2> QED
    BY <2>3, <2>4
<1> QED
  BY <1>1, <1>2, <1>3, <1>4

\* finish: what the parser has not read stays in the ring.
LEMMA FinishOK ==
  ASSUME NEW b, Reader(b)
  PROVE  /\ IsAbuf(Finish(b)) /\ RingOK(Finish(b).ring) /\ Finish(b).lch = b.lch
         /\ Finish(b).cp \in Nat /\ Finish(b).cp = Finish(b).base
         /\ \A s : \A p \in Nat : Holds(b.ring, s, p) =>
              Holds(Finish(b).ring, s, p) /\ At(Finish(b), p) = At(b, p)
<1>1. PICK base \in Nat, cp \in Nat, len \in Nat, d1 \in Nat, d0 \in Nat :
           /\ b.base = base /\ b.cp = cp /\ b.len = len
           /\ b.ring.rp = base /\ b.ring.dep1 = d1 /\ b.ring.dep0 = d0
           /\ base + len <= d1 /\ base <= cp /\ cp <= base + len
           /\ Resid(b.ring) = (d1 - base) + d0
  BY ReaderNumbers
<1>2. PICK n \in Nat : n = cp - base
  BY <1>1
<1> DEFINE g == Finish(b)
           r == IF n > 0 THEN RemBytes(b.ring, n) ELSE b.ring
<1>3. /\ RingOK(r) /\ Resid(r) = ((d1 - base) + d0) - n
      /\ \A s : \A p \in Nat : Holds(b.ring, s, p) => Holds(r, s, p)
  <2>1. RingOK(b.ring) /\ n <= Resid(b.ring)
    BY <1>1, <1>2 DEF Reader
  <2>2. CASE n > 0
    BY <1>1, <2>1, <2>2, RemBytesOK
  <2>3. CASE ~(n > 0)
    <3>1. n = 0
      BY <2>3
    <3> QED
      BY <1>1, <2>1, <2>3, <3>1
  <2> QED
    BY <2>2, <2>3
<1>4. IsAbuf(g) /\ g.ring = r /\ g.base = cp /\ g.cp = cp /\ g.lch = b.lch
  BY <1>1, <1>2 DEF Finish, Reader, IsAbuf, AbufFields
<1> HIDE DEF g, r
<1>5. ASSUME NEW p \in Nat PROVE At(g, p) = At(b, p)
  <2>1. At(g, p) = p - (((d1 - base) + d0) - n) + (cp - cp)
    BY <1>3, <1>4 DEF At
  <2>2. At(b, p) = p - ((d1 - base) + d0) + (cp - base)
    BY <1>1 DEF At
  <2>3. p - (((d1 - base) + d0) - n) + (cp - cp) = p - ((d1 - base) + d0) + (cp - base)
    BY <1>2
  <2> QED
    BY <2>1, <2>2, <2>3
<1> QED
  BY <1>3, <1>4, <1>5 DEF g

----------------------------------------------------------------------------
(***************************************************************************)
(* What any step of a parser does with the abuf: it takes one character or *)
(* none, and then the connection stays with a parser or is finished        *)
(***************************************************************************)

\* The abuf as it is, or after get, but for what does not concern the ring.
Taken(g) == Like(a, g) \/ Like(AfterGet(a), g)

Shaped ==
    \E g : /\ Taken(g)
          /\ \/ a' = g /\ who' # "none" /\ res' = res
             \/ a' = Finish(g) /\ who' = "none" /\ res' # "none"

Ready == IsAbuf(a) /\ IsAbuf(AfterGet(a))

LEMMA LikeOps ==
  ASSUME NEW b, IsAbuf(b)
  PROVE  /\ Like(b, b) /\ Like(b, Unget(b)) /\ Like(b, EndMirror(b))
         /\ \A ch : Like(b, CrlfUnget(b, ch)) /\ Like(b, HwsAfter(b, ch))
                    /\ Like(b, ResetAbuf(HwsAfter(b, ch)))
                    /\ \A t : Like(b, CgiUnget(b, t, ch))
<1>1. \A ch : Like(b, HwsAfter(b, ch))
  <2>1. Like(b, [b EXCEPT !.spcs = 0]) /\ IsAbuf([b EXCEPT !.spcs = 0])
    BY LikeBuf DEF Like
  <2>2. Like(b, Unget([b EXCEPT !.spcs = 0]))
    BY <2>1, LikeBuf, LikeTrans
  <2> QED
    BY <2>2, LikeBuf DEF HwsAfter
<1>2. \A ch : Like(b, ResetAbuf(HwsAfter(b, ch)))
  <2> TAKE ch
  <2>1. Like(b, HwsAfter(b, ch)) /\ IsAbuf(HwsAfter(b, ch))
    BY <1>1 DEF Like
  <2> QED
    BY <2>1, LikeBuf, LikeTrans
<1>3. \A ch : Like(b, CrlfUnget(b, ch)) /\ \A t : Like(b, CgiUnget(b, t, ch))
  BY LikeBuf DEF CrlfUnget, CgiUnget
<1> QED
  BY <1>1, <1>2, <1>3, LikeBuf

\* abuf_con_t::init for another parser.
LEMMA BeginShape ==
  ASSUME NEW w, w # "none", NEW g, Taken(g), IsAbuf(g), Begin(w, g), res' = res
  PROVE  Shaped
<1> DEFINE f == CanRead([g EXCEPT !.eof = @ \/ ~x.open])
<1>1. Like(g, f)
  BY LikeBuf
<1>2. a' = f /\ who' = w
  BY DEF Begin, Goes
<1> HIDE DEF f
<1>3. Taken(f)
  BY <1>1, LikeTrans DEF Taken
<1> QED
  BY <1>2, <1>3 DEF Shaped

\* A new body's parser reads under a limit.
LEMMA BodyShape ==
  ASSUME NEW w, w # "none", NEW g, NEW n, Taken(g), IsAbuf(g), Begin(w, SetLim(g, n)), res' = res
  PROVE  Shaped
<1>1. Like(g, SetLim(g, n))
  BY LikeBuf
<1>2. Taken(SetLim(g, n)) /\ IsAbuf(SetLim(g, n))
  BY <1>1, LikeTrans DEF Taken, Like
<1> QED
  BY <1>2, BeginShape

LEMMA FinishShape ==
  ASSUME NEW st, st # "none", NEW g, Taken(g), FinishReq(st, g)
  PROVE  Shaped
  BY DEF FinishReq, Goes, Shaped

LEMMA HdrReturnsShape ==
  ASSUME NEW r, NEW ok, NEW more, NEW head, NEW g, Taken(g), who # "none",
         HdrReturns(r, ok, more, head, g)
  PROVE  Shaped
<1>1. CASE \E st : st # "none" /\ FinishReq(st, g)
  BY <1>1, FinishShape
<1>2. CASE a' = g /\ who' = who /\ res' = res
  BY <1>2 DEF Shaped
<1> QED
  BY <1>1, <1>2 DEF HdrReturns, HdrStatus, Goes

LEMMA MpfdReturnsShape ==
  ASSUME NEW r, NEW ok, NEW more, NEW head, NEW g, Taken(g), who # "none",
         MpfdReturns(r, ok, more, head, g)
  PROVE  Shaped
<1>1. CASE \E st : st # "none" /\ FinishReq(st, g)
  BY <1>1, FinishShape
<1>2. CASE a' = g /\ who' = who /\ res' = res
  BY <1>2 DEF Shaped
<1> QED
  BY <1>1, <1>2 DEF MpfdReturns, Goes

LEMMA DispReturnsShape ==
  ASSUME NEW r, NEW ok, NEW more, NEW head, NEW g, Taken(g), IsAbuf(g), who # "none",
         DispReturns(r, ok, more, head, g)
  PROVE  Shaped
<1>1. CASE FinishReq("BAD_REQUEST", g)
  BY <1>1, FinishShape
<1>2. CASE a' = g /\ who' = who /\ res' = res
  BY <1>2 DEF Shaped
<1>3. CASE Begin("mpfd", g) /\ res' = res
  BY <1>3, BeginShape
<1> QED
  BY <1>1, <1>2, <1>3 DEF DispReturns, Goes

\* http_inhdr_t.
LEMMA HdrMethodShape == ASSUME Ready, HdrMethod PROVE Shaped
<1>1. \E g : Like(AfterGet(a), g) /\ \E r, ok, more, head : HdrReturns(r, ok, more, head, g)
  BY LikeOps DEF Ready, HdrMethod, HdrWord, Reads
<1>2. who = "hdr"
  BY DEF HdrMethod, HdrWord, Reads
<1> QED
  BY <1>1, <1>2, HdrReturnsShape DEF Taken

LEMMA HdrTargetShape == ASSUME Ready, HdrTarget PROVE Shaped
<1>1. \E g : Like(AfterGet(a), g) /\ \E r, ok, more, head : HdrReturns(r, ok, more, head, g)
  BY LikeOps DEF Ready, HdrTarget, HdrWord, Reads
<1>2. who = "hdr"
  BY DEF HdrTarget, HdrWord, Reads
<1> QED
  BY <1>1, <1>2, HdrReturnsShape DEF Taken

LEMMA HdrVersionShape == ASSUME Ready, HdrVersion PROVE Shaped
<1>1. \E g : Like(AfterGet(a), g) /\ \E r, ok, more, head : HdrReturns(r, ok, more, head, g)
  BY LikeOps DEF Ready, HdrVersion, HdrWord, Reads
<1>2. who = "hdr"
  BY DEF HdrVersion, HdrWord, Reads
<1> QED
  BY <1>1, <1>2, HdrReturnsShape DEF Taken

LEMMA HdrBlanksShape == ASSUME Ready, HdrBlanks PROVE Shaped
<1>1. \E g : Like(AfterGet(a), g) /\ \E r, ok, more, head : HdrReturns(r, ok, more, head, g)
  BY LikeOps DEF Ready, HdrBlanks, Reads
<1>2. who = "hdr"
  BY DEF HdrBlanks, Reads
<1> QED
  BY <1>1, <1>2, HdrReturnsShape DEF Taken

LEMMA HdrEolShape == ASSUME Ready, HdrEol PROVE Shaped
<1>1. \E g : Like(AfterGet(a), g) /\ \E r, ok, more, head : HdrReturns(r, ok, more, head, g)
  BY LikeOps DEF Ready, HdrEol, Reads
<1>2. who = "hdr"
  BY DEF HdrEol, Reads
<1> QED
  BY <1>1, <1>2, HdrReturnsShape DEF Taken

LEMMA HdrLineEndShape == ASSUME Ready, HdrLineEnd PROVE Shaped
<1>1. \E g : Like(AfterGet(a), g) /\ \E r, ok, more, head : HdrReturns(r, ok, more, head, g)
  BY LikeOps DEF Ready, HdrLineEnd, Reads
<1>2. who = "hdr"
  BY DEF HdrLineEnd, Reads
<1> QED
  BY <1>1, <1>2, HdrReturnsShape DEF Taken

LEMMA HdrKeyShape == ASSUME Ready, HdrKey PROVE Shaped
<1>1. \E g : Like(AfterGet(a), g) /\ \E r, ok, more, head : HdrReturns(r, ok, more, head, g)
  BY LikeOps DEF Ready, HdrKey, Reads
<1>2. who = "hdr"
  BY DEF HdrKey, Reads
<1> QED
  BY <1>1, <1>2, HdrReturnsShape DEF Taken

LEMMA HdrValueShape == ASSUME Ready, HdrValue PROVE Shaped
<1>1. \E g : Like(AfterGet(a), g) /\ \E r, ok, more, head : HdrReturns(r, ok, more, head, g)
  BY LikeOps DEF Ready, HdrValue, Reads
<1>2. who = "hdr"
  BY DEF HdrValue, Reads
<1> QED
  BY <1>1, <1>2, HdrReturnsShape DEF Taken

LEMMA HdrUriDatShape == ASSUME Ready, HdrUriDat PROVE Shaped
<1> DEFINE g == AfterGet(a)
<1>1. Taken(g) /\ Taken(Unget(g)) /\ IsAbuf(g)
  BY LikeOps DEF Ready, Taken
<1>2. CASE Begin("url", g) /\ res' = res
  BY <1>1, <1>2, BeginShape
<1>3. CASE \E r, ok, more, head : HdrReturns(r, ok, more, head, Unget(g))
  <2>1. who = "hdr"
    BY DEF HdrUriDat, Reads
  <2> QED
    BY <1>1, <1>3, <2>1, HdrReturnsShape
<1> QED
  BY <1>2, <1>3 DEF HdrUriDat, Reads

\* http_parser_cgi_t::v_parse_cb1.
LEMMA BodyStartShape ==
  ASSUME NEW g, Taken(g), IsAbuf(g), BodyStart(g)
  PROVE  Shaped
<1>1. CASE FinishReq("OK", g) \/ FinishReq("NOT_ALLOWED", g)
  BY <1>1, FinishShape
<1>2. CASE \E w \in {"raw", "post", "mpfd"} : Begin(w, SetLim(g, BodyLen)) /\ res' = res
  BY <1>2, BodyShape
<1> QED
  BY <1>1, <1>2 DEF BodyStart

LEMMA HdrKeyLineShape == ASSUME Ready, HdrKeyLine PROVE Shaped
<1> DEFINE g == AfterGet(a)
<1>1. Taken(g) /\ IsAbuf(g) /\ \A ch : Taken(CrlfUnget(g, ch))
  BY LikeOps DEF Ready, Taken
<1>2. CASE BodyStart(g)
  BY <1>1, <1>2, BodyStartShape
<1>3. CASE \E r, ok, more, head, ch : HdrReturns(r, ok, more, head, CrlfUnget(g, ch))
  <2>1. who = "hdr"
    BY DEF HdrKeyLine, Reads
  <2> QED
    BY <1>1, <1>3, <2>1, HdrReturnsShape
<1> QED
  BY <1>2, <1>3 DEF HdrKeyLine, Reads

LEMMA HdrShape == ASSUME Ready, HdrStep PROVE Shaped
<1>1. Taken(a) /\ Taken(EndMirror(a)) /\ IsAbuf(a)
  BY LikeOps DEF Ready, Taken
<1>2. CASE HdrLine1
  BY <1>1, <1>2 DEF HdrLine1, Shaped
<1>3. CASE HdrCookie
  BY <1>1, <1>3, BeginShape DEF HdrCookie
<1>4. CASE HdrInsert
  BY <1>1, <1>4 DEF HdrInsert, Shaped
<1> QED
  BY <1>2, <1>3, <1>4, HdrMethodShape, HdrTargetShape, HdrVersionShape, HdrBlanksShape,
     HdrUriDatShape, HdrEolShape, HdrLineEndShape, HdrKeyLineShape, HdrKeyShape, HdrValueShape
     DEF HdrStep

\* cgi_t.
LEMMA CgiFinishedShape ==
  ASSUME NEW w, NEW g, Taken(g), IsAbuf(g), CgiFinished(w, g)
  PROVE  Shaped
<1>1. CASE FinishReq("OK", g)
  BY <1>1, FinishShape
<1>2. CASE Begin("hdr", g) /\ res' = res
  BY <1>2, BeginShape
<1> QED
  BY <1>1, <1>2 DEF CgiFinished

LEMMA CgiReadShape ==
  ASSUME Ready, NEW w \in {"url", "cookie", "post"}, CgiRead(w)
  PROVE  Shaped
<1> DEFINE g == AfterGet(a)
<1>1. Taken(g) /\ \A t, ch : Taken(CgiUnget(g, t, ch)) /\ IsAbuf(CgiUnget(g, t, ch))
  <2>1. Like(g, g) /\ \A t, ch : Like(g, CgiUnget(g, t, ch))
    BY LikeOps DEF Ready
  <2> QED
    BY <2>1 DEF Taken, Like
<1>2. who = w
  BY DEF CgiRead, Reads
<1>3. CASE \E t, ch : CgiFinished(w, CgiUnget(g, t, ch))
  BY <1>1, <1>3, CgiFinishedShape
<1>4. CASE a' = g /\ who' = who /\ res' = res
  BY <1>1, <1>2, <1>4 DEF Shaped
<1> QED
  BY <1>3, <1>4 DEF CgiRead, Reads, Goes

LEMMA CgiHexShape ==
  ASSUME Ready, NEW w \in {"url", "cookie", "post"}, CgiHex(w)
  PROVE  Shaped
<1> DEFINE g == AfterGet(a)
<1>1. Taken(g) /\ IsAbuf(g) /\ Taken(Unget(g))
  BY LikeOps DEF Ready, Taken, Like
<1>2. who = w
  BY DEF CgiHex, Reads
<1>3. CASE CgiFinished(w, g)
  BY <1>1, <1>3, CgiFinishedShape
<1>4. CASE a' \in {g, Unget(g)} /\ who' = who /\ res' = res
  BY <1>1, <1>2, <1>4 DEF Shaped
<1> QED
  BY <1>3, <1>4 DEF CgiHex, Reads, Goes

LEMMA CgiShape == ASSUME Ready, CgiStep PROVE Shaped
<1>1. PICK w \in {"url", "cookie", "post"} :
        CgiOverflow(w) \/ CgiBlanks(w) \/ CgiRead(w) \/ CgiHex(w)
  BY DEF CgiStep
<1>2. CASE CgiOverflow(w)
  BY <1>2, LikeOps DEF Ready, CgiOverflow, Taken, Shaped
<1>3. CASE CgiBlanks(w)
  <2>1. \E ch : a' = HwsAfter(AfterGet(a), ch) /\ who = w /\ who' = who /\ res' = res
    BY <1>3 DEF CgiBlanks, Reads, Goes
  <2> QED
    BY <2>1, LikeOps DEF Ready, Taken, Shaped
<1> QED
  BY <1>1, <1>2, <1>3, CgiReadShape, CgiHexShape

\* async_raw_post_parser_t.
LEMMA RawShape == ASSUME Ready, RawStep PROVE Shaped
<1> DEFINE g == AfterGet(a)
<1>1. Taken(g)
  BY LikeOps DEF Ready, Taken
<1>2. CASE FinishReq("OK", g)
  BY <1>1, <1>2, FinishShape
<1>3. CASE a' = g /\ who' = who /\ res' = res
  BY <1>1, <1>3 DEF RawStep, Reads, Shaped
<1> QED
  BY <1>2, <1>3 DEF RawStep, Reads, Goes

\* cgi_mpfd_t.
LEMMA MpfdSearchShape == ASSUME Ready, MpfdSearch PROVE Shaped
<1>1. \E g : Like(AfterGet(a), g) /\ \E r, ok, more, head : MpfdReturns(r, ok, more, head, g)
  BY LikeOps DEF Ready, MpfdSearch, Reads
<1>2. who = "mpfd"
  BY DEF MpfdSearch, Reads
<1> QED
  BY <1>1, <1>2, MpfdReturnsShape DEF Taken

LEMMA MpfdLineEndShape == ASSUME Ready, MpfdLineEnd PROVE Shaped
<1>1. \E g : Like(AfterGet(a), g) /\ \E r, ok, more, head : MpfdReturns(r, ok, more, head, g)
  BY LikeOps DEF Ready, MpfdLineEnd, Reads
<1>2. who = "mpfd"
  BY DEF MpfdLineEnd, Reads
<1> QED
  BY <1>1, <1>2, MpfdReturnsShape DEF Taken

LEMMA MpfdKeyLineShape == ASSUME Ready, MpfdKeyLine PROVE Shaped
<1>1. \E g : Like(AfterGet(a), g) /\ \E r, ok, more, head : MpfdReturns(r, ok, more, head, g)
  BY LikeOps DEF Ready, MpfdKeyLine, Reads
<1>2. who = "mpfd"
  BY DEF MpfdKeyLine, Reads
<1> QED
  BY <1>1, <1>2, MpfdReturnsShape DEF Taken

LEMMA MpfdKeyShape == ASSUME Ready, MpfdKey PROVE Shaped
<1>1. \E g : Like(AfterGet(a), g) /\ \E r, ok, more, head : MpfdReturns(r, ok, more, head, g)
  BY LikeOps DEF Ready, MpfdKey, Reads
<1>2. who = "mpfd"
  BY DEF MpfdKey, Reads
<1> QED
  BY <1>1, <1>2, MpfdReturnsShape DEF Taken

LEMMA MpfdBlanksShape == ASSUME Ready, MpfdBlanks PROVE Shaped
<1>1. \E g : Like(AfterGet(a), g) /\ \E r, ok, more, head : MpfdReturns(r, ok, more, head, g)
  BY LikeOps DEF Ready, MpfdBlanks, Reads
<1>2. who = "mpfd"
  BY DEF MpfdBlanks, Reads
<1> QED
  BY <1>1, <1>2, MpfdReturnsShape DEF Taken

LEMMA MpfdValueShape == ASSUME Ready, MpfdValue PROVE Shaped
<1>1. \E g : Like(AfterGet(a), g) /\ \E r, ok, more, head : MpfdReturns(r, ok, more, head, g)
  BY LikeOps DEF Ready, MpfdValue, Reads
<1>2. who = "mpfd"
  BY DEF MpfdValue, Reads
<1> QED
  BY <1>1, <1>2, MpfdReturnsShape DEF Taken

LEMMA MpfdDashesShape == ASSUME Ready, MpfdDashes PROVE Shaped
<1>1. \E g : Like(AfterGet(a), g) /\ \E r, ok, more, head : MpfdReturns(r, ok, more, head, g)
  BY LikeOps DEF Ready, MpfdDashes, Reads
<1>2. who = "mpfd"
  BY DEF MpfdDashes, Reads
<1> QED
  BY <1>1, <1>2, MpfdReturnsShape DEF Taken

LEMMA MpfdEndShape == ASSUME Ready, MpfdEnd PROVE Shaped
<1>1. \E g : Like(AfterGet(a), g) /\ \E r, ok, more, head : MpfdReturns(r, ok, more, head, g)
  BY LikeOps DEF Ready, MpfdEnd, Reads
<1>2. who = "mpfd"
  BY DEF MpfdEnd, Reads
<1> QED
  BY <1>1, <1>2, MpfdReturnsShape DEF Taken

LEMMA MpfdShape == ASSUME Ready, MpfdStep PROVE Shaped
<1>1. Taken(a) /\ Taken(Mirror(a)) /\ IsAbuf(a)
  BY LikeBuf DEF Ready, Taken
<1>2. CASE MpfdSearchStart
  BY <1>1, <1>2 DEF MpfdSearchStart, Shaped
<1>3. CASE MpfdLast \/ MpfdPart
  <2>1. CASE FinishReq("BAD_REQUEST", a)
    BY <1>1, <2>1, FinishShape
  <2>2. CASE a' = a /\ who = "mpfd" /\ who' = who /\ res' = res
    BY <1>1, <2>2 DEF Shaped
  <2> QED
    BY <1>3, <2>1, <2>2 DEF MpfdLast, MpfdPart
<1>4. CASE MpfdDisposition
  BY <1>1, <1>4, BeginShape DEF MpfdDisposition
<1> QED
  BY <1>2, <1>3, <1>4, MpfdSearchShape, MpfdLineEndShape, MpfdKeyLineShape, MpfdKeyShape,
     MpfdBlanksShape, MpfdValueShape, MpfdDashesShape, MpfdEndShape DEF MpfdStep

\* contdisp_parser_t.
LEMMA DispWordShape == ASSUME Ready, DispWord PROVE Shaped
<1>1. \E g : Like(AfterGet(a), g) /\ \E r, ok, more, head : DispReturns(r, ok, more, head, g)
  BY LikeOps DEF Ready, DispWord, Reads
<1>2. who = "cdp"
  BY DEF DispWord, Reads
<1> QED
  BY <1>1, <1>2, DispReturnsShape DEF Taken, Like

LEMMA DispSep1Shape == ASSUME Ready, DispSep1 PROVE Shaped
<1>1. \E g : Like(AfterGet(a), g) /\ \E r, ok, more, head : DispReturns(r, ok, more, head, g)
  BY LikeOps DEF Ready, DispSep1, Reads
<1>2. who = "cdp"
  BY DEF DispSep1, Reads
<1> QED
  BY <1>1, <1>2, DispReturnsShape DEF Taken, Like

LEMMA DispMatchShape == ASSUME Ready, DispMatch PROVE Shaped
<1>1. \E g : Like(AfterGet(a), g) /\ \E r, ok, more, head : DispReturns(r, ok, more, head, g)
  BY LikeOps DEF Ready, DispMatch, Reads
<1>2. who = "cdp"
  BY DEF DispMatch, Reads
<1> QED
  BY <1>1, <1>2, DispReturnsShape DEF Taken, Like

LEMMA DispSep2Shape == ASSUME Ready, DispSep2 PROVE Shaped
<1>1. \E g : Like(AfterGet(a), g) /\ \E r, ok, more, head : DispReturns(r, ok, more, head, g)
  BY LikeOps DEF Ready, DispSep2, Reads
<1>2. who = "cdp"
  BY DEF DispSep2, Reads
<1> QED
  BY <1>1, <1>2, DispReturnsShape DEF Taken, Like

LEMMA DispFilenameShape == ASSUME Ready, DispFilename PROVE Shaped
<1>1. \E g : Like(AfterGet(a), g) /\ \E r, ok, more, head : DispReturns(r, ok, more, head, g)
  BY LikeOps DEF Ready, DispFilename, Reads
<1>2. who = "cdp"
  BY DEF DispFilename, Reads
<1> QED
  BY <1>1, <1>2, DispReturnsShape DEF Taken, Like

\* Every step of every parser.
LEMMA ParseShape == ASSUME Ready, ParseStep PROVE Shaped
  BY HdrShape, CgiShape, RawShape, MpfdShape, DispWordShape, DispSep1Shape, DispMatchShape,
     DispSep2Shape, DispFilenameShape DEF ParseStep, DispStep

----------------------------------------------------------------------------
(***************************************************************************)
(* The steps                                                               *)
(***************************************************************************)

IndInv == ReaderOK /\ StreamOK

\* A piece that arrives is what comes next.
LEMMA PieceOK ==
  ASSUME StreamOK, NEW n \in 1 .. Rest
  PROVE  /\ Piece(n) \in Seq(Byte) /\ Len(Piece(n)) = n /\ n \in Nat /\ pos \in Nat
         /\ \A i \in 1 .. n : Piece(n)[i] = scn.bytes[pos + i]
         /\ pos + n \in 0 .. Len(scn.bytes)
<1> DEFINE s == scn.bytes
<1>1. s \in Seq(Byte) /\ pos \in 0 .. Len(s) /\ n \in 1 .. Len(s) - pos
  BY StreamAssumption DEF StreamOK, Rest
<1>2. Piece(n) = SubSeq(s, pos + 1, pos + n)
  BY DEF Piece
<1> HIDE DEF s
<1>3. PICK p \in Nat, k \in Nat, l \in Nat : p = pos /\ k = n /\ l = Len(s)
  <2>1. Len(s) \in Nat
    BY <1>1
  <2>2. pos \in Nat
    BY <1>1, <2>1
  <2>3. n \in Nat
    BY <1>1, <2>1, <2>2
  <2> QED
    BY <2>1, <2>2, <2>3
<1>4. p <= l /\ 1 <= k /\ k <= l - p
  BY <1>1, <1>3
<1>5. \A i \in 1 .. k : p + i \in 1 .. l /\ s[p + i] \in Byte
  <2>1. \A i \in 1 .. k : p + i \in 1 .. l
    BY <1>4
  <2> QED
    BY <1>1, <1>3, <2>1
<1>6. SubSeq(s, p + 1, p + k) = [i \in 1 .. ((p + k) - (p + 1)) + 1 |-> s[i + (p + 1) - 1]]
  BY <1>1
<1>7. ((p + k) - (p + 1)) + 1 = k /\ \A i \in 1 .. k : i + (p + 1) - 1 = p + i
  OBVIOUS
<1>8. SubSeq(s, p + 1, p + k) = [i \in 1 .. k |-> s[p + i]]
  BY <1>6, <1>7
<1>9. [i \in 1 .. k |-> s[p + i]] \in Seq(Byte) /\ Len([i \in 1 .. k |-> s[p + i]]) = k
  BY <1>5
<1>10. p + k \in 0 .. l
  BY <1>4
<1> QED
  BY <1>2, <1>3, <1>8, <1>9, <1>10 DEF s

\* What arrives is appended to what has been kept.
LEMMA KeptGrows ==
  ASSUME StreamOK, NEW n \in 1 .. Rest, kept' = kept \o Piece(n), pos' = pos + n,
         scn' = scn, slips \subseteq slips'
  PROVE  /\ kept' \in Seq(Byte) /\ Len(kept) \in Nat /\ Len(kept') = Len(kept) + n
         /\ \A i \in 1 .. Len(kept) : kept'[i] = kept[i]
         /\ \A i \in 1 .. n : kept'[Len(kept) + i] = Piece(n)[i]
         /\ "room" \notin slips' => kept' = SubSeq(scn'.bytes, 1, pos')
<1>1. /\ Piece(n) \in Seq(Byte) /\ Len(Piece(n)) = n /\ n \in Nat /\ pos \in Nat
      /\ \A i \in 1 .. n : Piece(n)[i] = scn.bytes[pos + i]
      /\ pos + n \in 0 .. Len(scn.bytes)
  BY PieceOK
<1>2. kept \in Seq(Byte) /\ scn.bytes \in Seq(Byte) /\ pos \in 0 .. Len(scn.bytes)
  BY StreamAssumption DEF StreamOK
<1>3. PICK l \in Nat, k \in Nat, p \in Nat : l = Len(kept) /\ k = n /\ p = pos
  BY <1>1, <1>2
<1>4. /\ kept' \in Seq(Byte) /\ Len(kept') = l + k
      /\ \A i \in 1 .. l + k : kept'[i] = IF i <= l THEN kept[i] ELSE Piece(n)[i - l]
  <2> DEFINE w == kept \o Piece(n)
  <2>1. /\ w \in Seq(Byte) /\ Len(w) = Len(kept) + Len(Piece(n))
        /\ \A i \in 1 .. Len(kept) + Len(Piece(n)) :
             w[i] = IF i <= Len(kept) THEN kept[i] ELSE Piece(n)[i - Len(kept)]
    BY <1>1, <1>2, ConcatOK
  <2>2. Len(kept) = l /\ Len(Piece(n)) = k /\ kept' = w
    BY <1>1, <1>3
  <2> HIDE DEF w
  <2> QED
    BY <2>1, <2>2
<1>5. \A i \in 1 .. l : kept'[i] = kept[i]
  BY <1>4
<1>6. ASSUME NEW i \in 1 .. k PROVE kept'[l + i] = Piece(n)[i]
  <2>1. l + i \in 1 .. l + k /\ ~(l + i <= l) /\ (l + i) - l = i
    OBVIOUS
  <2> QED
    BY <1>4, <2>1
<1>7. ASSUME "room" \notin slips' PROVE kept' = SubSeq(scn.bytes, 1, p + k)
  <2> DEFINE b == scn.bytes
             v == SubSeq(b, 1, p + k)
  <2>1. kept = SubSeq(b, 1, p)
    BY <1>3, <1>7 DEF StreamOK
  <2>2. p <= Len(b) /\ p + k <= Len(b) /\ b \in Seq(Byte)
    BY <1>1, <1>2, <1>3
  <2> HIDE DEF b
  <2>3. l = p /\ \A i \in 1 .. p : kept[i] = b[i]
    BY <1>3, <2>1, <2>2, PrefixOK
  <2>4. v \in Seq(Byte) /\ Len(v) = p + k /\ \A i \in 1 .. p + k : v[i] = b[i]
    BY <2>2, PrefixOK
  <2>5. ASSUME NEW i \in 1 .. p + k PROVE kept'[i] = b[i]
    <3>1. CASE i <= p
      BY <1>4, <2>3, <3>1
    <3>2. CASE ~(i <= p)
      <4>1. i - p \in 1 .. k /\ p + (i - p) = i
        BY <3>2
      <4>2. Piece(n)[i - p] = b[p + (i - p)]
        BY <1>1, <1>3, <4>1 DEF b
      <4> QED
        BY <1>4, <2>3, <3>2, <4>1, <4>2
    <3> QED
      BY <3>1, <3>2
  <2> HIDE DEF v
  <2>6. kept' = v
    BY <1>4, <2>3, <2>4, <2>5, SeqEq
  <2> QED
    BY <2>6 DEF v, b
<1> QED
  BY <1>3, <1>4, <1>5, <1>6, <1>7

\* The end of what was kept is where it was when more is appended.
LEMMA HoldsAlike ==
  ASSUME NEW r, RingOK(r), NEW s, NEW t, NEW p \in Nat, \A i \in 1 .. p : t[i] = s[i],
         Holds(r, s, p)
  PROVE  Holds(r, t, p)
<1>1. PICK cap \in Nat, rp \in Nat, d0 \in Nat, d1 \in Nat :
           /\ r.cap = cap /\ r.rp = rp /\ r.dep0 = d0 /\ r.dep1 = d1
           /\ d0 <= rp /\ rp <= d1 /\ d1 <= cap /\ rp < cap /\ (d0 > 0 => d1 = cap)
           /\ Resid(r) = (d1 - rp) + d0 /\ Capacity(r) = cap - ((d1 - rp) + d0)
           /\ r.cells \in [0 .. cap - 1 -> Byte]
  BY RingNumbers
<1>2. /\ (d1 - rp) + d0 <= p
      /\ \A j \in rp .. d1 - 1 : r.cells[j] = s[p - ((d1 - rp) + d0) + 1 + (j - rp)]
      /\ \A j \in 0 .. d0 - 1 : r.cells[j] = s[p - d0 + 1 + j]
  BY <1>1 DEF Holds
<1>3. ASSUME NEW j \in rp .. d1 - 1 PROVE p - ((d1 - rp) + d0) + 1 + (j - rp) \in 1 .. p
  <2>1. (d1 - rp) + d0 <= p /\ rp <= d1
    BY <1>1, <1>2
  <2>2. PICK i \in Nat : i = j - rp
    OBVIOUS
  <2>3. i < d1 - rp
    BY <2>2
  <2>4. p - ((d1 - rp) + d0) + 1 + i \in 1 .. p
    BY <2>1, <2>3
  <2> QED
    BY <2>2, <2>4
<1>4. \A j \in 0 .. d0 - 1 : p - d0 + 1 + j \in 1 .. p
  <2>1. d0 <= p
    BY <1>1, <1>2
  <2> QED
    BY <2>1
<1> QED
  BY <1>1, <1>2, <1>3, <1>4 DEF Holds

LEMMA InitInv == Init => IndInv
<1> SUFFICES ASSUME Init PROVE IndInv
  OBVIOUS
<1>1. RingOK(NewRing(RingSize)) /\ NewRing(RingSize).rp = 0
  BY RingAssumption, NewRingOK
<1>2. IsAbuf(a) /\ RingOK(a.ring)
  BY <1>1, NewAbufOK DEF Init
<1>3. ReaderOK
  BY <1>2 DEF Init, ReaderOK
<1>4. pos \in 0 .. Len(scn.bytes)
  BY StreamAssumption DEF Init
<1>5. okd.bytes = <<>> /\ okd = [f \in {"bytes", "reqno", "timedout", "ncb"} |-> okd[f]]
  BY DEF Init
<1>6. EndsAt(<<>>, <<>>, 0)
  BY DEF EndsAt
<1>7. SubSeq(scn.bytes, 1, 0) = <<>>
  BY StreamAssumption DEF Init
<1> QED
  BY <1>3, <1>4, <1>5, <1>6, <1>7 DEF Init, IndInv, StreamOK

\* A step that leaves the abuf alone does not begin a parse.
LEMMA ReaderSame ==
  ASSUME ReaderOK, UNCHANGED <<a, who>>, phase' = "parse" => phase = "parse" /\ res' = res
  PROVE  ReaderOK'
  BY DEF ReaderOK

\* The abuf after a step of a parser, or after its timer.
LEMMA ShapedReader ==
  ASSUME Reader(a), Shaped
  PROVE  /\ IsAbuf(a') /\ RingOK(a'.ring) /\ (who' # "none" => Window(a'))
         /\ (res' = "none" => who' # "none") /\ Follows(a, a')
         /\ (who' = "none" => a'.cp \in Nat /\ a'.cp = a'.base) /\ (res' # res => who' = "none")
<1>1. PICK g : /\ Taken(g)
               /\ \/ a' = g /\ who' # "none" /\ res' = res
                  \/ a' = Finish(g) /\ who' = "none" /\ res' # "none"
  BY DEF Shaped
<1>2. Reader(g) /\ Follows(a, g)
  <2>1. CASE Like(a, g)
    BY <2>1, LikeReader
  <2>2. CASE Like(AfterGet(a), g)
    <3>1. Reader(AfterGet(a)) /\ Follows(a, AfterGet(a))
      BY AfterGetOK
    <3>2. Reader(g) /\ g.ring = AfterGet(a).ring /\ g.lch = AfterGet(a).lch
          /\ \A p \in Nat : At(g, p) = At(AfterGet(a), p)
      BY <2>2, <3>1, LikeReader DEF Like
    <3> QED
      BY <3>1, <3>2 DEF Follows
  <2> QED
    BY <1>1, <2>1, <2>2 DEF Taken
<1>3. CASE a' = g /\ who' # "none" /\ res' = res
  BY <1>2, <1>3 DEF Reader
<1>4. CASE a' = Finish(g) /\ who' = "none" /\ res' # "none"
  <2>1. /\ IsAbuf(a') /\ RingOK(a'.ring) /\ a'.lch = g.lch
        /\ a'.cp \in Nat /\ a'.cp = a'.base
        /\ \A s : \A p \in Nat : Holds(g.ring, s, p) =>
             Holds(a'.ring, s, p) /\ At(a', p) = At(g, p)
    BY <1>2, <1>4, FinishOK
  <2>2. Follows(a, a')
    BY <1>2, <2>1 DEF Follows
  <2> QED
    BY <1>4, <2>1, <2>2
<1> QED
  BY <1>1, <1>3, <1>4

\* A parser has the connection in both.
LEMMA ParserShaped ==
  ASSUME IndInv, Parse \/ SvcTimeout
  PROVE  /\ Reader(a) /\ Shaped /\ phase = "parse" /\ slips \subseteq slips'
         /\ UNCHANGED <<scn, pos, phase, okd, kept>> /\ who # "none"
<1>1. CASE Parse
  <2>1. who # "none"
    BY <1>1 DEF Parse, ParseStep, HdrStep, CgiStep, RawStep, MpfdStep, DispStep, Reads,
          HdrMethod, HdrTarget, HdrVersion, HdrWord, HdrBlanks, HdrUriDat, HdrEol, HdrLine1,
          HdrLineEnd, HdrKeyLine, HdrKey, HdrCookie, HdrValue, HdrInsert,
          CgiOverflow, CgiBlanks, CgiRead, CgiHex,
          MpfdSearchStart, MpfdSearch, MpfdLast, MpfdLineEnd, MpfdKeyLine, MpfdKey, MpfdBlanks,
          MpfdDisposition, MpfdValue, MpfdPart, MpfdDashes, MpfdEnd,
          DispWord, DispSep1, DispMatch, DispSep2, DispFilename
  <2>2. Reader(a)
    BY <2>1 DEF IndInv, ReaderOK, Reader
  <2>3. Ready
    BY <2>2, AfterGetOK DEF Ready, Reader
  <2>4. Shaped
    BY <1>1, <2>3, ParseShape DEF Parse
  <2> QED
    BY <1>1, <2>1, <2>2, <2>4 DEF Parse
<1>2. CASE SvcTimeout
  <2>1. Reader(a) /\ who # "none"
    BY <1>2 DEF SvcTimeout, IndInv, ReaderOK, Reader
  <2>2. Taken(a)
    BY <2>1, LikeBuf DEF Taken, Reader
  <2>3. Shaped
    BY <1>2, <2>2, FinishShape DEF SvcTimeout
  <2> QED
    BY <1>2, <2>1, <2>3 DEF SvcTimeout
<1> QED
  BY <1>1, <1>2

LEMMA ParserInv == ASSUME IndInv, Parse \/ SvcTimeout PROVE IndInv'
<1>1. /\ Reader(a) /\ Shaped /\ phase = "parse" /\ slips \subseteq slips'
      /\ UNCHANGED <<scn, pos, phase, okd, kept>>
  BY ParserShaped
<1>2. /\ IsAbuf(a') /\ RingOK(a'.ring) /\ (who' # "none" => Window(a'))
      /\ (res' = "none" => who' # "none") /\ Follows(a, a')
  BY <1>1, ShapedReader
<1>3. ReaderOK'
  BY <1>2 DEF ReaderOK, Window
<1>4. Len(kept) \in Nat
  BY DEF IndInv, StreamOK
<1>5. "scraps" \notin slips' => Holds(a'.ring, kept', Len(kept'))
  BY <1>1, <1>2, <1>4 DEF IndInv, StreamOK, Follows
<1>6. StreamOK'
  BY <1>1, <1>5 DEF IndInv, StreamOK, Holds, Resid, EndsAt
<1> QED
  BY <1>3, <1>6 DEF IndInv

\* The read callback runs: nothing that concerns the window.
LEMMA WakeLike ==
  ASSUME NEW b, IsAbuf(b)
  PROVE  Like(b, Wake(b))
<1>1. Like(b, b) /\ Like(b, CanRead(b)) /\ IsAbuf(CanRead(b))
  BY LikeBuf DEF Like
<1>2. Like(b, Mirror(CanRead(b)))
  BY <1>1, LikeBuf, LikeTrans
<1> QED
  BY <1>1, <1>2 DEF Wake

\* ahttpcon_t::input under a parser: the window stays where it is.
LEMMA SvcInputReader ==
  ASSUME IndInv, NEW n \in 1 .. Rest, SvcInput(n)
  PROVE  /\ IsAbuf(a') /\ a'.ring = Put(a.ring, Piece(n))
         /\ a'.base = a.base /\ a'.cp = a.cp /\ a'.len = a.len
         /\ RingOK(a'.ring) /\ Resid(a'.ring) = Resid(a.ring) + n
         /\ a'.ring.rp = a.ring.rp /\ a'.ring.dep1 >= a.ring.dep1
<1>1. IsAbuf(a) /\ RingOK(a.ring)
  BY DEF IndInv, ReaderOK
<1>2. Piece(n) \in Seq(Byte) /\ Len(Piece(n)) = n /\ n <= Capacity(a.ring)
  BY PieceOK DEF IndInv, SvcInput
<1>3. \E e : a' = Wake([a EXCEPT !.ring = Put(@, Piece(n)), !.eof = e])
  BY DEF SvcInput
<1>4. PICK e : a' = Wake([a EXCEPT !.ring = Put(@, Piece(n)), !.eof = e])
  BY <1>3
<1> DEFINE b == [a EXCEPT !.ring = Put(@, Piece(n)), !.eof = e]
<1>5. /\ IsAbuf(b) /\ b.ring = Put(a.ring, Piece(n))
      /\ b.base = a.base /\ b.cp = a.cp /\ b.len = a.len
  BY <1>1 DEF IsAbuf, AbufFields
<1>6. Like(b, a')
  BY <1>4, <1>5, WakeLike
<1> HIDE DEF b
<1>7. RingOK(Put(a.ring, Piece(n))) /\ Resid(Put(a.ring, Piece(n))) = Resid(a.ring) + n
      /\ Put(a.ring, Piece(n)).rp = a.ring.rp /\ Put(a.ring, Piece(n)).dep1 >= a.ring.dep1
  BY <1>1, <1>2, PutOK
<1> QED
  BY <1>5, <1>6, <1>7 DEF Like

LEMMA SvcInputInv == ASSUME IndInv, NEW n \in 1 .. Rest, SvcInput(n) PROVE IndInv'
<1>1. /\ IsAbuf(a') /\ a'.ring = Put(a.ring, Piece(n))
      /\ a'.base = a.base /\ a'.cp = a.cp /\ a'.len = a.len
      /\ RingOK(a'.ring) /\ Resid(a'.ring) = Resid(a.ring) + n
      /\ a'.ring.rp = a.ring.rp /\ a'.ring.dep1 >= a.ring.dep1
  BY SvcInputReader
<1>2. /\ Piece(n) \in Seq(Byte) /\ Len(Piece(n)) = n /\ n \in Nat /\ pos \in Nat
      /\ \A i \in 1 .. n : Piece(n)[i] = scn.bytes[pos + i]
      /\ pos + n \in 0 .. Len(scn.bytes)
  BY PieceOK DEF IndInv
<1>3. UNCHANGED <<who, res, scn, phase, okd, slips>> /\ pos' = pos + n
      /\ phase \in {"parse", "reply"} /\ n <= Capacity(a.ring) /\ kept' = kept \o Piece(n)
  BY DEF SvcInput
<1>4. ASSUME who # "none" PROVE Window(a')
  <2>1. Reader(a)
    BY <1>4 DEF IndInv, ReaderOK, Reader
  <2>2. PICK base \in Nat, cp \in Nat, len \in Nat, d1 \in Nat, d0 \in Nat :
           /\ a.base = base /\ a.cp = cp /\ a.len = len
           /\ a.ring.rp = base /\ a.ring.dep1 = d1 /\ a.ring.dep0 = d0
           /\ base + len <= d1 /\ base <= cp /\ cp <= base + len
           /\ Resid(a.ring) = (d1 - base) + d0
    BY <2>1, ReaderNumbers
  <2>3. PICK e1 \in Nat : a'.ring.dep1 = e1
    BY <1>1 DEF RingOK
  <2>4. base + len <= e1
    BY <1>1, <2>2, <2>3
  <2> QED
    BY <1>1, <2>2, <2>3, <2>4 DEF Window
<1>5. ReaderOK'
  BY <1>1, <1>3, <1>4 DEF IndInv, ReaderOK, Window
<1>6. /\ kept' \in Seq(Byte) /\ Len(kept) \in Nat /\ Len(kept') = Len(kept) + n
      /\ \A i \in 1 .. Len(kept) : kept'[i] = kept[i]
      /\ \A i \in 1 .. n : kept'[Len(kept) + i] = Piece(n)[i]
      /\ "room" \notin slips' => kept' = SubSeq(scn'.bytes, 1, pos')
  BY <1>3, KeptGrows DEF IndInv
<1>7. ASSUME "scraps" \notin slips PROVE Holds(a'.ring, kept', Len(kept) + n)
  <2>1. Holds(a.ring, kept, Len(kept)) /\ RingOK(a.ring)
    BY <1>3, <1>7 DEF IndInv, StreamOK, ReaderOK
  <2>2. Holds(a.ring, kept', Len(kept))
    BY <1>6, <2>1, HoldsAlike
  <2>3. \A i \in 1 .. Len(Piece(n)) : Piece(n)[i] = kept'[Len(kept) + i]
    BY <1>2, <1>6
  <2>4. Holds(Put(a.ring, Piece(n)), kept', Len(kept) + Len(Piece(n)))
    BY <1>2, <1>3, <1>6, <2>1, <2>2, <2>3, PutHolds
  <2> QED
    BY <1>1, <1>2, <2>4
<1>8. StreamOK'
  BY <1>2, <1>3, <1>6, <1>7 DEF IndInv, StreamOK
<1> QED
  BY <1>5, <1>8 DEF IndInv

\* fail, and the steps that change nothing of the input.
LEMMA SvcOtherInv ==
  ASSUME IndInv, UNCHANGED <<who, res, scn, pos, okd, slips, kept>>, Like(a, a'),
         phase' = phase \/ (phase = "parse" /\ phase' = "reply")
  PROVE  IndInv'
<1>1. IsAbuf(a') /\ a'.ring = a.ring /\ a'.base = a.base /\ a'.cp = a.cp /\ a'.len = a.len
  BY DEF Like
<1>2. ReaderOK'
  BY <1>1 DEF IndInv, ReaderOK, Window
<1>3. StreamOK'
  BY <1>1 DEF IndInv, StreamOK
<1> QED
  BY <1>2, <1>3 DEF IndInv

LEMMA FailLike == ASSUME IndInv, Fail PROVE Like(a, a')
<1>1. IsAbuf(a)
  BY DEF IndInv, ReaderOK
<1>2. Like(a, a) /\ Like(a, [a EXCEPT !.eof = TRUE])
  BY <1>1, LikeBuf
<1>4. IsAbuf([a EXCEPT !.eof = TRUE])
  BY <1>2 DEF Like
<1>3. Like(a, Wake([a EXCEPT !.eof = TRUE]))
  BY <1>2, <1>4, WakeLike, LikeTrans
<1> QED
  BY <1>2, <1>3 DEF Fail

LEMMA SvcInv ==
  ASSUME IndInv, SvcFull \/ SvcEof \/ \E k \in -1 .. ReplyLen : Send(k) \/ Output(k)
  PROVE  IndInv'
<1>0. Like(a, a)
  BY LikeBuf DEF IndInv, ReaderOK
<1>1. CASE SvcFull
  BY <1>0, <1>1, SvcOtherInv DEF SvcFull
<1>2. CASE SvcEof
  BY <1>2, FailLike, SvcOtherInv DEF SvcEof
<1>3. ASSUME NEW k, Send(k) PROVE IndInv'
  BY <1>0, <1>3, SvcOtherInv DEF Send
<1>4. ASSUME NEW k, Output(k) PROVE IndInv'
  <2>1. Like(a, a')
    BY <1>0, <1>4, FailLike DEF Output
  <2> QED
    BY <1>4, <2>1, SvcOtherInv DEF Output
<1> QED
  BY <1>1, <1>2, <1>3, <1>4

\* recvd_bytes and sclone: okd keeps the bytes it looks at.
LEMMA DemuxOK ==
  ASSUME IndInv, NEW w \in Seq(Byte), NEW n, Demux(w, n)
  PROVE  /\ okd' = [f \in {"bytes", "reqno", "timedout", "ncb"} |-> okd'[f]]
         /\ okd'.bytes = w /\ phase' \in {"demux", "queued", "closed"}
  BY DEF Demux, IndInv, StreamOK

LEMMA DemuxInputInv == ASSUME IndInv, NEW n \in 1 .. Rest, DemuxInput(n) PROVE IndInv'
<1>1. /\ Piece(n) \in Seq(Byte) /\ Len(Piece(n)) = n /\ n \in Nat /\ pos \in Nat
      /\ \A i \in 1 .. n : Piece(n)[i] = scn.bytes[pos + i]
      /\ pos + n \in 0 .. Len(scn.bytes)
  BY PieceOK DEF IndInv
<1> DEFINE w == okd.bytes \o Piece(n)
<1>2. w \in Seq(Byte) /\ okd.bytes \in Seq(Byte)
  BY <1>1 DEF IndInv, StreamOK
<1>3. /\ okd' = [f \in {"bytes", "reqno", "timedout", "ncb"} |-> okd'[f]]
      /\ okd'.bytes = w /\ phase' \in {"demux", "queued", "closed"}
  BY <1>2, DemuxOK DEF DemuxInput
<1>4. UNCHANGED <<pvars, scn>> /\ phase = "demux" /\ pos' = pos + n /\ slips \subseteq slips'
      /\ kept' = kept \o Piece(n)
  BY DEF DemuxInput
<1>10.
      /\ kept' \in Seq(Byte) /\ Len(kept) \in Nat /\ Len(kept') = Len(kept) + n
      /\ \A i \in 1 .. Len(kept) : kept'[i] = kept[i]
      /\ \A i \in 1 .. n : kept'[Len(kept) + i] = Piece(n)[i]
      /\ "room" \notin slips' => kept' = SubSeq(scn'.bytes, 1, pos')
  BY <1>4, KeptGrows DEF IndInv
<1>5. ReaderOK'
  BY <1>3, <1>4, ReaderSame DEF IndInv, pvars
<1>6. ASSUME EndsAt(okd.bytes, kept, Len(kept)) PROVE EndsAt(w, kept', Len(kept'))
  <2>1. PICK l \in Nat, p \in Nat, k \in Nat : l = Len(okd.bytes) /\ p = Len(kept) /\ k = n
    BY <1>1, <1>2, <1>10
  <2>2. l <= p /\ \A i \in 1 .. l : okd.bytes[i] = kept[p - l + i]
    BY <1>6, <2>1 DEF EndsAt
  <2>6. /\ Len(kept') = p + k
        /\ \A i \in 1 .. p : kept'[i] = kept[i]
        /\ \A i \in 1 .. k : kept'[p + i] = Piece(n)[i]
    <3>1. Len(kept') = p + k
      BY <1>10, <2>1
    <3>2. \A i \in 1 .. p : kept'[i] = kept[i]
      BY <1>10, <2>1
    <3>3. \A i \in 1 .. k : kept'[p + i] = Piece(n)[i]
      <4>1. \A i \in 1 .. n : kept'[Len(kept) + i] = Piece(n)[i]
        BY <1>10
      <4> QED
        BY <2>1, <4>1
    <3> QED
      BY <3>1, <3>2, <3>3
  <2>3. /\ Len(w) = l + k
        /\ \A i \in 1 .. l + k : w[i] = IF i <= l THEN okd.bytes[i] ELSE Piece(n)[i - l]
    <3>1. Piece(n) \in Seq(Byte) /\ Len(okd.bytes) = l /\ Len(Piece(n)) = k
      BY <1>1, <2>1
    <3>2. /\ Len(w) = Len(okd.bytes) + Len(Piece(n))
          /\ \A i \in 1 .. Len(okd.bytes) + Len(Piece(n)) :
               w[i] = IF i <= Len(okd.bytes) THEN okd.bytes[i] ELSE Piece(n)[i - Len(okd.bytes)]
      BY <1>2, <3>1, ConcatOK
    <3> HIDE DEF w
    <3> QED
      BY <3>1, <3>2
  <2>4. ASSUME NEW i \in 1 .. l + k PROVE w[i] = kept'[(p + k) - (l + k) + i]
    <3>1. CASE i <= l
      <4>1. i \in 1 .. l /\ p - l + i = (p + k) - (l + k) + i /\ p - l + i \in 1 .. p
        BY <2>2, <3>1
      <4> QED
        BY <2>2, <2>3, <2>6, <3>1, <4>1
    <3>2. CASE ~(i <= l)
      <4>1. i - l \in 1 .. k /\ p + (i - l) = (p + k) - (l + k) + i
        BY <3>2
      <4>2. Piece(n)[i - l] = kept'[p + (i - l)]
        BY <2>6, <4>1
      <4> QED
        BY <2>3, <3>2, <4>1, <4>2
    <3> QED
      BY <3>1, <3>2
  <2>5. l + k <= p + k
    BY <2>2
  <2> HIDE DEF w
  <2> QED
    BY <2>3, <2>4, <2>5, <2>6 DEF EndsAt
<1> HIDE DEF w
<1>7. StreamOK'
  <2>1. scn' \in Scenarios /\ pos' \in 0 .. Len(scn'.bytes) /\ kept' \in Seq(Byte)
    BY <1>1, <1>4, <1>10 DEF IndInv, StreamOK
  <2>2. okd'.bytes \in Seq(Byte)
    BY <1>2, <1>3
  <2>3. "scraps" \notin slips' => EndsAt(okd'.bytes, kept', Len(kept'))
    BY <1>3, <1>4, <1>6 DEF IndInv, StreamOK
  <2> QED
    <3>1. "room" \notin slips' => kept' = SubSeq(scn'.bytes, 1, pos')
      BY <1>10
    <3>2. phase' \notin {"parse", "reply"}
      BY <1>3
    <3> QED
      BY <1>3, <2>1, <2>2, <2>3, <3>1, <3>2 DEF StreamOK
<1> QED
  BY <1>5, <1>7 DEF IndInv

LEMMA DemuxEndsInv == ASSUME IndInv, DemuxEof \/ DemuxTimeout PROVE IndInv'
<1>1. /\ UNCHANGED <<pvars, scn, pos, slips, kept>> /\ okd'.bytes = okd.bytes
      /\ okd' = [f \in {"bytes", "reqno", "timedout", "ncb"} |-> okd'[f]]
      /\ phase \in {"demux", "queued"} /\ phase' \in {phase, "closed"}
  BY DEF DemuxEof, DemuxTimeout, IndInv, StreamOK
<1>2. ReaderOK'
  BY <1>1, ReaderSame DEF IndInv, pvars
<1>3. StreamOK'
  BY <1>1 DEF IndInv, StreamOK
<1> QED
  BY <1>2, <1>3 DEF IndInv

\* The bytes there is no room for are cut off the end of what okd holds and of what
\* has been kept alike.
LEMMA SurplusOK ==
  ASSUME StreamOK
  PROVE  \E l \in Nat, k \in Nat, n \in Nat :
           /\ l = Len(okd.bytes) /\ k = Lesser(Len(okd.bytes), MaxRing) /\ k <= l
           /\ n = Len(kept) /\ Surplus(okd.bytes) = l - k
           /\ Surplus(okd.bytes) > 0 \/ k = l
           /\ SubSeq(kept, 1, Len(kept) - Surplus(okd.bytes)) \in Seq(Byte)
           /\ EndsAt(okd.bytes, kept, Len(kept)) =>
                /\ l <= n /\ Len(SubSeq(kept, 1, Len(kept) - Surplus(okd.bytes))) = n - (l - k)
                /\ EndsAt(SubSeq(okd.bytes, 1, k),
                          SubSeq(kept, 1, Len(kept) - Surplus(okd.bytes)), n - (l - k))
<1>1. okd.bytes \in Seq(Byte) /\ kept \in Seq(Byte)
  BY DEF StreamOK
<1>2. PICK l \in Nat, n \in Nat : l = Len(okd.bytes) /\ n = Len(kept)
  BY <1>1
<1>3. PICK k \in Nat : k = Lesser(l, MaxRing)
  BY RingAssumption DEF Lesser
<1>4. k <= l /\ Surplus(okd.bytes) = l - k /\ (l - k > 0 \/ k = l)
  <2>1. k <= l
    BY <1>3, RingAssumption DEF Lesser
  <2>2. Surplus(okd.bytes) = l - k
    <3>1. Surplus(okd.bytes) = IF l > MaxRing THEN l - MaxRing ELSE 0
      BY <1>2 DEF Surplus
    <3>2. MaxRing \in Nat
      BY RingAssumption
    <3> QED
      BY <1>3, <3>1, <3>2 DEF Lesser
  <2> QED
    BY <2>1, <2>2
<1> DEFINE v == SubSeq(okd.bytes, 1, k)
           u == SubSeq(kept, 1, n - (l - k))
<1>5. u \in Seq(Byte)
  <2>1. CASE n - (l - k) \in Nat
    BY <1>1, <1>2, <1>4, <2>1, PrefixOK
  <2>2. CASE ~(n - (l - k) \in Nat)
    <3>1. n - (l - k) < 1
      BY <1>4, <2>2
    <3>2. u = <<>>
      BY <1>1, <3>1
    <3> HIDE DEF u
    <3> QED
      BY <3>2
  <2> QED
    BY <2>1, <2>2
<1>6. ASSUME EndsAt(okd.bytes, kept, n)
      PROVE  l <= n /\ Len(u) = n - (l - k) /\ EndsAt(v, u, n - (l - k))
  <2>1. l <= n /\ \A i \in 1 .. l : okd.bytes[i] = kept[n - l + i]
    BY <1>2, <1>6 DEF EndsAt
  <2>2. PICK q \in Nat : q = n - (l - k)
    BY <1>4, <2>1
  <2>3. q <= n /\ k <= q
    BY <1>4, <2>1, <2>2
  <2>4. Len(u) = q /\ \A i \in 1 .. q : u[i] = kept[i]
    BY <1>1, <1>2, <2>2, <2>3, PrefixOK
  <2>5. Len(v) = k /\ \A i \in 1 .. k : v[i] = okd.bytes[i]
    BY <1>1, <1>2, <1>4, PrefixOK
  <2> HIDE DEF u, v
  <2>6. ASSUME NEW i \in 1 .. k PROVE v[i] = u[q - k + i]
    <3>1. i \in 1 .. l /\ q - k + i \in 1 .. q /\ n - l + i = q - k + i
      BY <1>4, <2>2, <2>3
    <3> QED
      BY <2>1, <2>4, <2>5, <3>1
  <2> QED
    BY <2>1, <2>2, <2>3, <2>4, <2>5, <2>6 DEF EndsAt
<1> HIDE DEF u, v
<1>7. /\ k = Lesser(Len(okd.bytes), MaxRing) /\ (Surplus(okd.bytes) > 0 \/ k = l)
      /\ SubSeq(kept, 1, Len(kept) - Surplus(okd.bytes)) = u /\ SubSeq(okd.bytes, 1, k) = v
  BY <1>2, <1>3, <1>4 DEF u, v
<1> QED
  BY <1>2, <1>4, <1>5, <1>6, <1>7

\* The first bytes the service's ring holds are those okd has read, as far as there is
\* room for them.
LEMMA DispatchInv == ASSUME IndInv, Dispatch PROVE IndInv'
<1> DEFINE L == LoadFromBuffer(NewRing(RingSize), okd.bytes)
           u == SubSeq(kept, 1, Len(kept) - Surplus(okd.bytes))
<1>1. phase = "queued" /\ UNCHANGED <<scn, pos>> /\ okd.bytes \in Seq(Byte)
  BY DEF Dispatch, IndInv, StreamOK
<1>2. /\ okd'.bytes = <<>> /\ okd' = [f \in {"bytes", "reqno", "timedout", "ncb"} |-> okd'[f]]
  BY DEF Dispatch, IndInv, StreamOK
<1>3. CASE okd.timedout
  <2>1. phase' = "closed" /\ UNCHANGED <<pvars, slips, kept>>
    BY <1>3 DEF Dispatch
  <2>2. ReaderOK'
    BY <2>1, ReaderSame DEF IndInv, pvars
  <2>3. StreamOK'
    BY <1>1, <1>2, <2>1 DEF IndInv, StreamOK
  <2> QED
    BY <2>2, <2>3 DEF IndInv
<1>4. CASE ~okd.timedout
  <2>1. /\ phase' = "parse" /\ who' = "hdr" /\ a' = Mirror(NewAbuf(L, FALSE))
        /\ kept' = u /\ slips \subseteq slips'
        /\ (Surplus(okd.bytes) > 0 => "room" \in slips')
    BY <1>4 DEF Dispatch
  <2>2. PICK l \in Nat, k \in Nat, n \in Nat :
           /\ l = Len(okd.bytes) /\ k = Lesser(Len(okd.bytes), MaxRing) /\ k <= l
           /\ n = Len(kept) /\ Surplus(okd.bytes) = l - k
           /\ Surplus(okd.bytes) > 0 \/ k = l
           /\ u \in Seq(Byte)
           /\ EndsAt(okd.bytes, kept, Len(kept)) =>
                l <= n /\ Len(u) = n - (l - k) /\ EndsAt(SubSeq(okd.bytes, 1, k), u, n - (l - k))
    BY SurplusOK DEF IndInv
  <2>3. /\ RingOK(L) /\ L.rp = 0
        /\ \A s : \A p \in Nat : EndsAt(SubSeq(okd.bytes, 1, k), s, p) => Holds(L, s, p)
    BY <1>1, <2>2, LoadFromBufferOK
  <2>4. "room" \notin slips' => u = kept
    <3> SUFFICES ASSUME "room" \notin slips' PROVE u = kept
      OBVIOUS
    <3>1. Surplus(okd.bytes) = 0
      BY <2>1, <2>2
    <3>2. kept \in Seq(Byte) /\ Len(kept) \in Nat /\ Len(kept) - 0 = Len(kept)
      BY DEF IndInv, StreamOK
    <3>3. u = SubSeq(kept, 1, Len(kept))
      BY <3>1, <3>2
    <3> HIDE DEF u
    <3> QED
      BY <3>2, <3>3, WholeOK
  <2> HIDE DEF L, u
  <2>5. Reader(a') /\ a'.ring = L
    BY <2>1, <2>3, NewAbufOK
  <2>6. ReaderOK'
    BY <2>1, <2>5 DEF ReaderOK, Reader, Window
  <2>7. "scraps" \notin slips' => Holds(a'.ring, u, Len(u))
    <3> SUFFICES ASSUME "scraps" \notin slips' PROVE Holds(L, u, Len(u))
      BY <2>5
    <3>1. EndsAt(okd.bytes, kept, Len(kept))
      BY <1>1, <2>1 DEF IndInv, StreamOK
    <3>2. Len(u) = n - (l - k) /\ EndsAt(SubSeq(okd.bytes, 1, k), u, n - (l - k)) /\ l <= n
      BY <2>2, <3>1
    <3>3. n - (l - k) \in Nat
      BY <2>2, <3>2
    <3> QED
      BY <2>3, <3>2, <3>3
  <2>8. "room" \notin slips' => u = SubSeq(scn.bytes, 1, pos)
    BY <2>1, <2>4 DEF IndInv, StreamOK
  <2>9. okd'.bytes \in Seq(Byte) /\ scn \in Scenarios /\ pos \in 0 .. Len(scn.bytes)
    BY <1>2 DEF IndInv, StreamOK
  <2>10. StreamOK'
    BY <1>1, <1>2, <2>1, <2>2, <2>7, <2>8, <2>9 DEF StreamOK
  <2> QED
    BY <2>6, <2>10 DEF IndInv
<1> QED
  BY <1>3, <1>4

\* The scraps are what the ring holds, unless it wraps.
LEMMA PassbackInv == ASSUME IndInv, Passback PROVE IndInv'
<1> DEFINE w == LoadIntoXdr(a.ring)
<1>0. scn \in Scenarios /\ scn.bytes \in Seq(Byte) /\ pos \in 0 .. Len(scn.bytes)
  BY StreamAssumption DEF IndInv, StreamOK
<1>1. UNCHANGED <<pvars, scn, pos, kept>> /\ phase = "reply" /\ Len(kept) \in Nat
  <2>1. kept \in Seq(Byte)
    BY DEF IndInv, StreamOK
  <2>2. UNCHANGED <<pvars, scn, pos, kept>> /\ phase = "reply"
    BY DEF Passback
  <2> QED
    BY <2>1, <2>2
<1>2. /\ w \in Seq(Byte)
      /\ \A s : \A p \in Nat : ~Wrapped(a.ring) /\ Holds(a.ring, s, p) => EndsAt(w, s, p)
  BY LoadIntoXdrOK DEF IndInv, ReaderOK
<1>3. CASE ~KeepAlive \/ ~x.open
  <2>1. phase' = "closed" /\ UNCHANGED <<okd, out, slips>>
    BY <1>3 DEF Passback
  <2>2. ReaderOK'
    BY <1>1, <2>1, ReaderSame DEF IndInv, pvars
  <2>3. StreamOK'
    BY <1>1, <2>1 DEF IndInv, StreamOK, pvars
  <2> QED
    BY <2>2, <2>3 DEF IndInv
<1>4. CASE ~(~KeepAlive \/ ~x.open)
  <2>1. slips \subseteq slips' /\ (Wrapped(a.ring) => "scraps" \in slips')
    BY <1>4 DEF Passback
  <2>2. /\ okd' = [f \in {"bytes", "reqno", "timedout", "ncb"} |-> okd'[f]]
        /\ okd'.bytes = w /\ phase' \in {"demux", "queued", "closed"}
    <3>1. CASE w = <<>>
      BY <1>4, <3>1 DEF Passback
    <3>2. CASE w # <<>>
      <4>1. Demux(w, okd.reqno + 1)
        BY <1>4, <3>2 DEF Passback
      <4> QED
        BY <1>2, <4>1, DemuxOK
    <3> QED
      BY <3>1, <3>2
  <2>3. ReaderOK'
    BY <1>1, <2>2, ReaderSame DEF IndInv, pvars
  <2> HIDE DEF w
  <2>4. "scraps" \notin slips' => EndsAt(w, kept, Len(kept))
    BY <1>1, <1>2, <2>1 DEF IndInv, StreamOK
  <2>5. StreamOK'
    <3>1. /\ scn' \in Scenarios /\ pos' \in 0 .. Len(scn'.bytes) /\ kept' \in Seq(Byte)
          /\ kept' = kept /\ okd'.bytes \in Seq(Byte)
      BY <1>1, <1>2, <2>2 DEF IndInv, StreamOK
    <3>2. "room" \notin slips' => kept' = SubSeq(scn'.bytes, 1, pos')
      BY <1>1, <2>1 DEF IndInv, StreamOK
    <3> QED
      BY <2>2, <2>4, <3>1, <3>2 DEF StreamOK
  <2> QED
    BY <2>3, <2>5 DEF IndInv
<1> QED
  BY <1>3, <1>4

\* Every step preserves the invariant.
LEMMA NextInv == IndInv /\ [Next]_vars => IndInv'
<1> SUFFICES ASSUME IndInv, [Next]_vars PROVE IndInv'
  OBVIOUS
<1>1. CASE Arrive
  BY <1>1, DemuxInputInv, SvcInputInv DEF Arrive
<1>2. CASE Transmit
  BY <1>2, SvcInv DEF Transmit
<1>3. CASE UNCHANGED vars
  <2>1. Like(a, a')
    BY <1>3, LikeBuf DEF vars, pvars, IndInv, ReaderOK
  <2> QED
    BY <1>3, <2>1, SvcOtherInv DEF vars, pvars
<1> QED
  BY <1>1, <1>2, <1>3, DemuxEndsInv, DispatchInv, SvcInv, ParserInv, PassbackInv DEF Next

LEMMA AlwaysInv == Spec => []IndInv
  BY InitInv, NextInv, PTL DEF Spec

\* For every stream, every way to cut it and every size of the ring, the ring of the
\* service's connection holds the last bytes kept, in order: readv into both regions,
\* moredata, rembytes, the growth for okd's bytes and the passback keep it so; and
\* what is kept is what has been received, unless the largest ring had no room for it.
THEOREM RingFifoThm == Spec => []RingFifo
<1>1. ASSUME IndInv PROVE RingFifo
  <2>1. kept \in Seq(Byte) /\ Len(kept) \in Nat /\ Len(kept) <= Len(kept)
    BY <1>1 DEF IndInv, StreamOK
  <2>2. RingOK(a.ring)
    BY <1>1 DEF IndInv, ReaderOK
  <2>3. ASSUME phase \in {"parse", "reply"}, "scraps" \notin slips
        PROVE  Holds(a.ring, kept, Len(kept))
    BY <1>1, <2>3 DEF IndInv, StreamOK
  <2>4. "room" \notin slips => kept = SubSeq(scn.bytes, 1, pos)
    BY <1>1 DEF IndInv, StreamOK
  <2> QED
    BY <2>1, <2>2, <2>3, <2>4, ContentsOK DEF RingFifo
<1> QED
  BY <1>1, AlwaysInv, PTL

\* While okd has a connection, what it holds is the end of what has been kept, also
\* when part of it has come back from a service (ahttpcon_clone: recvd_bytes, scraps).
OkdFifo ==
    phase \in {"demux", "queued"} /\ "scraps" \notin slips =>
        okd.bytes = SubSeq(kept, Len(kept) - Len(okd.bytes) + 1, Len(kept))

LEMMA EndsAtSub ==
  ASSUME NEW w \in Seq(Byte), NEW s \in Seq(Byte), NEW p \in Nat, p <= Len(s), EndsAt(w, s, p)
  PROVE  w = SubSeq(s, p - Len(w) + 1, p)
<1>1. PICK n \in Nat, l \in Nat : n = Len(w) /\ l = Len(s)
  OBVIOUS
<1>2. n <= p /\ p <= l /\ \A i \in 1 .. n : w[i] = s[p - n + i]
  BY <1>1 DEF EndsAt
<1> DEFINE v == SubSeq(s, p - n + 1, p)
<1>3. /\ v \in Seq(Byte) /\ Len(v) = n
      /\ \A i \in 1 .. n : v[i] = s[(p - n + 1) + i - 1]
  BY <1>1, <1>2
<1> HIDE DEF v
<1>4. \A i \in 1 .. n : (p - n + 1) + i - 1 = p - n + i
  OBVIOUS
<1>5. w = v
  BY <1>1, <1>2, <1>3, <1>4, SeqEq
<1> QED
  BY <1>1, <1>5 DEF v

\* okd neither loses nor repeats a byte, for every stream and every way to cut it: what
\* it decides on, and hands on, is what has come since the last request.
THEOREM OkdFifoThm == Spec => []OkdFifo
<1>1. ASSUME IndInv PROVE OkdFifo
  <2>1. /\ kept \in Seq(Byte) /\ Len(kept) \in Nat /\ Len(kept) <= Len(kept)
        /\ okd.bytes \in Seq(Byte)
    BY <1>1 DEF IndInv, StreamOK
  <2>2. ASSUME phase \in {"demux", "queued"}, "scraps" \notin slips
        PROVE  EndsAt(okd.bytes, kept, Len(kept))
    BY <1>1, <2>2 DEF IndInv, StreamOK
  <2> QED
    BY <2>1, <2>2, EndsAtSub DEF OkdFifo
<1> QED
  BY <1>1, AlwaysInv, PTL

----------------------------------------------------------------------------
(***************************************************************************)
(* The order in which the parsers read                                     *)
(***************************************************************************)

\* Between requests nobody holds a part of the window, and a reply goes out only
\* after the parser is done.
QuietOK ==
    /\ who = "none" => a.cp \in Nat /\ a.cp = a.base
    /\ phase = "parse" /\ res # "none" => who = "none"
    /\ phase = "reply" => who = "none"

OrderInv == IndInv /\ QuietOK

LEMMA InitOrder == Init => OrderInv
<1>1. Init => QuietOK
  BY DEF Init, QuietOK, NewAbuf
<1> QED
  BY <1>1, InitInv DEF OrderInv

LEMMA LikeQuiet ==
  ASSUME QuietOK, Like(a, a'), UNCHANGED <<who, res>>,
         \/ phase' = phase \/ phase' \notin {"parse", "reply"}
         \/ phase = "parse" /\ res # "none" /\ phase' = "reply"
  PROVE  QuietOK'
  BY DEF Like, QuietOK

LEMMA DemuxPhase == ASSUME NEW w, NEW n, Demux(w, n) PROVE phase' \in {"demux", "queued", "closed"}
  BY DEF Demux

LEMMA NextQuiet == OrderInv /\ [Next]_vars => QuietOK'
<1> SUFFICES ASSUME IndInv, QuietOK, [Next]_vars PROVE QuietOK'
  BY DEF OrderInv
<1>0. Like(a, a)
  BY LikeBuf DEF IndInv, ReaderOK
<1>1. CASE Arrive
  <2>1. ASSUME NEW n \in 1 .. Rest, DemuxInput(n) PROVE QuietOK'
    <3>1. UNCHANGED pvars /\ phase' \in {"demux", "queued", "closed"}
      BY <2>1, DemuxPhase DEF DemuxInput
    <3> QED
      BY <1>0, <3>1, LikeQuiet DEF pvars
  <2>2. ASSUME NEW n \in 1 .. Rest, SvcInput(n) PROVE QuietOK'
    <3>1. a'.base = a.base /\ a'.cp = a.cp
      BY <2>2, SvcInputReader
    <3> QED
      BY <2>2, <3>1 DEF SvcInput, QuietOK
  <2> QED
    BY <1>1, <2>1, <2>2 DEF Arrive
<1>2. CASE DemuxEof \/ DemuxTimeout
  <2>1. UNCHANGED pvars /\ (phase' = phase \/ phase' \notin {"parse", "reply"})
    BY <1>2 DEF DemuxEof, DemuxTimeout
  <2> QED
    BY <1>0, <2>1, LikeQuiet DEF pvars
<1>3. CASE Dispatch
  <2>1. CASE okd.timedout
    <3>1. UNCHANGED pvars /\ phase' = "closed"
      BY <1>3, <2>1 DEF Dispatch
    <3> QED
      BY <1>0, <3>1, LikeQuiet DEF pvars
  <2>2. CASE ~okd.timedout
    BY <1>3, <2>2 DEF Dispatch, QuietOK
  <2> QED
    BY <2>1, <2>2
<1>4. CASE SvcFull
  BY <1>0, <1>4, LikeQuiet DEF SvcFull
<1>5. CASE SvcEof
  BY <1>5, FailLike, LikeQuiet DEF SvcEof
<1>6. CASE Parse \/ SvcTimeout
  <2>1. Reader(a) /\ Shaped /\ phase' = phase /\ phase = "parse" /\ who # "none"
    BY <1>6, ParserShaped
  <2>2. (who' = "none" => a'.cp \in Nat /\ a'.cp = a'.base) /\ (res' # res => who' = "none")
    BY <2>1, ShapedReader
  <2> QED
    BY <2>1, <2>2 DEF QuietOK
<1>7. CASE Transmit
  <2>1. ASSUME NEW k, Send(k) PROVE QuietOK'
    BY <1>0, <2>1, LikeQuiet DEF Send
  <2>2. ASSUME NEW k, Output(k) PROVE QuietOK'
    <3>1. Like(a, a')
      BY <1>0, <2>2, FailLike DEF Output
    <3> QED
      BY <2>2, <3>1, LikeQuiet DEF Output
  <2> QED
    BY <1>7, <2>1, <2>2 DEF Transmit
<1>8. CASE Passback
  <2>1. UNCHANGED pvars
    BY <1>8 DEF Passback
  <2>2. phase' \in {"demux", "queued", "closed"}
    BY <1>8, DemuxPhase DEF Passback
  <2> QED
    BY <1>0, <2>1, <2>2, LikeQuiet DEF pvars
<1>9. CASE UNCHANGED vars
  BY <1>0, <1>9, LikeQuiet DEF vars, pvars
<1> QED
  BY <1>1, <1>2, <1>3, <1>4, <1>5, <1>6, <1>7, <1>8, <1>9 DEF Next

LEMMA AlwaysOrder == Spec => []OrderInv
<1>1. OrderInv /\ [Next]_vars => OrderInv'
  BY NextInv, NextQuiet DEF OrderInv
<1> QED
  BY <1>1, InitOrder, PTL DEF Spec

\* How many of the bytes kept are behind the connection: consumed by a parser of the
\* service or, while okd has the connection, all but those okd holds.
Consumed ==
    IF phase \in {"demux", "queued"} THEN Len(kept) - Len(okd.bytes) ELSE At(a, Len(kept))

\* What a step of a connection that goes on may consume: nothing or, while a parser
\* has it, the one byte that get returns.
InOrder ==
    phase # "closed" /\ phase' # "closed" /\ "scraps" \notin slips =>
      \/ Consumed' = Consumed
      \/ phase = "parse" /\ Consumed' = Consumed + 1 /\ a'.lch = kept[Consumed']

\* What is kept grows by what arrives, and loses bytes only when okd hands over more
\* than MaxRing of them: then those okd has read last, and none that it hands over.
Keeping ==
    \/ kept' = kept
    \/ \E n \in 1 .. Rest : pos' = pos + n /\ kept' = kept \o Piece(n)
    \/ /\ phase = "queued" /\ Len(okd.bytes) > MaxRing
       /\ kept' = SubSeq(kept, 1, Len(kept) - (Len(okd.bytes) - MaxRing))

\* A connection consumes its stream byte by byte, in order, across okd, the service
\* and back: only a parser consumes a byte, one at a time, and it is the byte that get
\* has just returned (lch).  None is skipped, read twice or made up where the window
\* ends, the ring wraps, an unget is pending or input comes in; okd hands the service
\* the bytes it has read, up to MaxRing of them (those beyond are lost), and gets back
\* exactly those no parser has consumed.
StreamOrder == [][InOrder /\ Keeping]_vars

\* A step of the service that leaves the ring and the window alone consumes nothing.
LEMMA LikeInOrder ==
  ASSUME Like(a, a'), kept' = kept, phase \in {"parse", "reply"}, phase' \in {"parse", "reply"}
  PROVE  InOrder
  BY DEF Like, InOrder, Consumed, At

LEMMA ParserInOrder == ASSUME IndInv, Parse \/ SvcTimeout PROVE InOrder
<1>1. Reader(a) /\ Shaped /\ kept' = kept /\ phase = "parse" /\ phase' = phase
  BY ParserShaped
<1>2. Follows(a, a')
  BY <1>1, ShapedReader
<1>3. Len(kept) \in Nat
  BY DEF IndInv, StreamOK
<1>4. phase = "parse" /\ "scraps" \notin slips => Holds(a.ring, kept, Len(kept))
  BY DEF IndInv, StreamOK
<1>5. Consumed = At(a, Len(kept)) /\ Consumed' = At(a', Len(kept))
  BY <1>1 DEF Consumed, At
<1> QED
  BY <1>1, <1>2, <1>3, <1>4, <1>5 DEF Follows, InOrder

\* The bytes of a piece are behind the window.
LEMMA InputInOrder == ASSUME IndInv, NEW n \in 1 .. Rest, SvcInput(n) PROVE InOrder
<1>1. /\ a'.base = a.base /\ a'.cp = a.cp /\ Resid(a'.ring) = Resid(a.ring) + n
  BY SvcInputReader
<1>2. /\ Len(kept') = Len(kept) + n /\ Len(kept) \in Nat /\ n \in Nat
      /\ phase \in {"parse", "reply"} /\ phase' = phase
  BY PieceOK, KeptGrows DEF SvcInput, IndInv
<1>3. PICK R \in Nat, p \in Nat, k \in Nat : R = Resid(a.ring) /\ p = Len(kept) /\ k = n
  <2>1. Resid(a.ring) \in Nat
    BY RingNumbers DEF IndInv, ReaderOK
  <2> QED
    BY <1>2, <2>1
<1>4. (p + k) - (R + k) = p - R
  OBVIOUS
<1>5. Consumed' = ((p + k) - (R + k)) + (a.cp - a.base) /\ Consumed = (p - R) + (a.cp - a.base)
  BY <1>1, <1>2, <1>3 DEF Consumed, At
<1> QED
  BY <1>4, <1>5 DEF InOrder

\* okd keeps all it reads of a piece.
LEMMA DemuxInOrder == ASSUME IndInv, NEW n \in 1 .. Rest, DemuxInput(n) PROVE InOrder
<1>1. /\ Piece(n) \in Seq(Byte) /\ Len(Piece(n)) = n /\ n \in Nat
  BY PieceOK DEF IndInv
<1>2. okd.bytes \in Seq(Byte)
  BY DEF IndInv, StreamOK
<1>3. okd.bytes \o Piece(n) \in Seq(Byte) /\ Len(okd.bytes \o Piece(n)) = Len(okd.bytes) + Len(Piece(n))
  BY <1>1, <1>2, ConcatOK
<1>4. /\ okd'.bytes = okd.bytes \o Piece(n) /\ phase' \in {"demux", "queued", "closed"}
  BY <1>3, DemuxOK DEF DemuxInput
<1>5. phase = "demux" /\ Len(kept') = Len(kept) + n /\ Len(kept) \in Nat
  BY KeptGrows DEF DemuxInput, IndInv
<1>6. PICK l \in Nat, p \in Nat, k \in Nat : l = Len(okd.bytes) /\ p = Len(kept) /\ k = n
  BY <1>1, <1>2, <1>5
<1>7. Len(okd'.bytes) = l + k /\ Len(kept') = p + k
  BY <1>1, <1>3, <1>4, <1>5, <1>6
<1>8. (p + k) - (l + k) = p - l
  OBVIOUS
<1>9. Consumed = p - l
  BY <1>5, <1>6 DEF Consumed
<1>10. phase' # "closed" => Consumed' = (p + k) - (l + k)
  BY <1>4, <1>7 DEF Consumed
<1> QED
  BY <1>8, <1>9, <1>10 DEF InOrder

\* The service's ring starts with the bytes okd hands over, none of them consumed.
LEMMA DispatchInOrder == ASSUME IndInv, Dispatch PROVE InOrder
<1> DEFINE L == LoadFromBuffer(NewRing(RingSize), okd.bytes)
           u == SubSeq(kept, 1, Len(kept) - Surplus(okd.bytes))
<1> SUFFICES ASSUME "scraps" \notin slips, ~okd.timedout PROVE InOrder
  BY DEF InOrder, Dispatch
<1>1. okd.bytes \in Seq(Byte) /\ phase = "queued" /\ EndsAt(okd.bytes, kept, Len(kept))
  BY DEF IndInv, StreamOK, Dispatch
<1>2. PICK l \in Nat, k \in Nat, n \in Nat :
         /\ l = Len(okd.bytes) /\ k = Lesser(Len(okd.bytes), MaxRing) /\ k <= l
         /\ n = Len(kept) /\ l <= n /\ Len(u) = n - (l - k)
  BY <1>1, SurplusOK DEF IndInv
<1>3. phase' = "parse" /\ a' = Mirror(NewAbuf(L, FALSE)) /\ kept' = u
  BY DEF Dispatch
<1>4. Resid(L) = k
  BY <1>1, <1>2, LoadFromBufferOK
<1> HIDE DEF L, u
<1>5. a'.ring = L /\ a'.base = 0 /\ a'.cp = 0
  BY <1>3 DEF NewAbuf, Mirror
<1>6. Consumed' = (n - (l - k)) - k + (0 - 0)
  BY <1>2, <1>3, <1>4, <1>5 DEF Consumed, At
<1>7. Consumed = n - l
  BY <1>1, <1>2 DEF Consumed
<1>8. (n - (l - k)) - k + (0 - 0) = n - l
  OBVIOUS
<1> QED
  BY <1>6, <1>7, <1>8 DEF InOrder

\* The scraps are as many as the ring holds, and all it holds is unread.
LEMMA PassbackInOrder == ASSUME OrderInv, Passback PROVE InOrder
<1> DEFINE w == LoadIntoXdr(a.ring)
<1>0. IndInv /\ QuietOK
  BY DEF OrderInv
<1>1. kept' = kept /\ phase = "reply"
  BY DEF Passback
<1>2. w \in Seq(Byte) /\ Len(w) = Resid(a.ring) /\ Resid(a.ring) \in Nat
  BY <1>0, LoadIntoXdrOK, RingNumbers DEF IndInv, ReaderOK
<1>3. CASE ~KeepAlive \/ ~x.open
  BY <1>3 DEF Passback, InOrder
<1>4. CASE ~(~KeepAlive \/ ~x.open)
  <2>1. okd'.bytes = w /\ phase' \in {"demux", "queued", "closed"}
    <3>1. CASE w = <<>>
      BY <1>4, <3>1 DEF Passback
    <3>2. CASE w # <<>>
      <4>1. Demux(w, okd.reqno + 1)
        BY <1>4, <3>2 DEF Passback
      <4> QED
        BY <1>0, <1>2, <4>1, DemuxOK
    <3> QED
      BY <3>1, <3>2
  <2> HIDE DEF w
  <2>2. a.cp = a.base /\ a.cp \in Nat
    BY <1>0, <1>1 DEF QuietOK
  <2>3. PICK R \in Nat, p \in Nat : R = Resid(a.ring) /\ p = Len(kept)
    BY <1>0, <1>2 DEF IndInv, StreamOK
  <2>4. Consumed = p - R + (a.cp - a.cp)
    BY <1>1, <2>2, <2>3 DEF Consumed, At
  <2>5. phase' # "closed" => Consumed' = p - R
    BY <1>1, <1>2, <2>1, <2>3 DEF Consumed
  <2>6. p - R + (a.cp - a.cp) = p - R
    BY <2>2
  <2> QED
    BY <2>4, <2>5, <2>6 DEF InOrder
<1> QED
  BY <1>3, <1>4

LEMMA NextInOrder == OrderInv /\ [Next]_vars => InOrder
<1> SUFFICES ASSUME OrderInv, IndInv, [Next]_vars PROVE InOrder
  BY DEF OrderInv
<1>0. Like(a, a)
  BY LikeBuf DEF IndInv, ReaderOK
<1>1. CASE Arrive
  BY <1>1, DemuxInOrder, InputInOrder DEF Arrive
<1>2. CASE DemuxEof \/ DemuxTimeout
  <2>1. /\ phase \in {"demux", "queued"} /\ (phase' = phase \/ phase' = "closed")
        /\ kept' = kept /\ okd'.bytes = okd.bytes
    BY <1>2 DEF DemuxEof, DemuxTimeout, IndInv, StreamOK
  <2> QED
    BY <2>1 DEF InOrder, Consumed
<1>3. CASE SvcFull
  BY <1>0, <1>3, LikeInOrder DEF SvcFull
<1>4. CASE SvcEof
  BY <1>4, FailLike, LikeInOrder DEF SvcEof
<1>5. CASE Transmit
  <2>1. ASSUME NEW k, Send(k) PROVE InOrder
    BY <1>0, <2>1, LikeInOrder DEF Send
  <2>2. ASSUME NEW k, Output(k) PROVE InOrder
    <3>1. Like(a, a')
      BY <1>0, <2>2, FailLike DEF Output
    <3> QED
      BY <2>2, <3>1, LikeInOrder DEF Output
  <2> QED
    BY <1>5, <2>1, <2>2 DEF Transmit
<1>6. CASE UNCHANGED vars
  BY <1>6 DEF vars, pvars, InOrder, Consumed, At
<1> QED
  BY <1>1, <1>2, <1>3, <1>4, <1>5, <1>6, ParserInOrder, DispatchInOrder, PassbackInOrder
     DEF Next

\* Nothing but input and a hand-over changes what is kept.
LEMMA NextKeeping == OrderInv /\ [Next]_vars => Keeping
<1> SUFFICES ASSUME OrderInv, IndInv, [Next]_vars PROVE Keeping
  BY DEF OrderInv
<1>1. CASE Arrive
  BY <1>1 DEF Arrive, DemuxInput, SvcInput, Keeping
<1>2. CASE Dispatch
  <2>1. CASE okd.timedout
    BY <1>2, <2>1 DEF Dispatch, Keeping
  <2>2. CASE ~okd.timedout
    <3>1. kept' = SubSeq(kept, 1, Len(kept) - Surplus(okd.bytes)) /\ phase = "queued"
      BY <1>2, <2>2 DEF Dispatch
    <3>2. CASE Len(okd.bytes) > MaxRing
      BY <3>1, <3>2 DEF Surplus, Keeping
    <3>3. CASE ~(Len(okd.bytes) > MaxRing)
      <4>1. kept \in Seq(Byte) /\ Len(kept) - 0 = Len(kept) /\ Surplus(okd.bytes) = 0
        BY <3>3 DEF Surplus, IndInv, StreamOK
      <4>2. kept' = SubSeq(kept, 1, Len(kept))
        BY <3>1, <4>1
      <4>3. kept' = kept
        BY <4>1, <4>2, WholeOK
      <4> QED
        BY <4>3 DEF Keeping
    <3> QED
      BY <3>2, <3>3
  <2> QED
    BY <2>1, <2>2
<1>3. CASE \/ DemuxEof \/ DemuxTimeout \/ SvcFull \/ SvcEof \/ SvcTimeout \/ Parse
          \/ Transmit \/ Passback \/ UNCHANGED vars
  BY <1>3 DEF DemuxEof, DemuxTimeout, SvcFull, SvcEof, SvcTimeout, Parse, Transmit, Send, Output,
     Passback, vars, Keeping
<1> QED
  BY <1>1, <1>2, <1>3 DEF Next

\* A connection consumes its stream byte by byte and in order, from okd to the service
\* and back, for every stream, every way to cut it into pieces and every size of the
\* ring (abuf_t::get, moredata and finish, suiolite, load_from_buffer, load_into_xdr).
THEOREM StreamOrderThm == Spec => StreamOrder
<1>1. OrderInv /\ [Next]_vars => [InOrder /\ Keeping]_vars
  BY NextInOrder, NextKeeping
<1> QED
  BY <1>1, AlwaysOrder, PTL DEF Spec, StreamOrder

----------------------------------------------------------------------------
(***************************************************************************)
(* The callbacks                                                           *)
(***************************************************************************)

\* A request whose callback is due has not had it, and a drained callback that is
\* still set has not been called.
OnceInv ==
    /\ okd = [f \in {"bytes", "reqno", "timedout", "ncb"} |-> okd[f]]
    /\ okd.reqno \in Nat /\ okd.ncb \in {0, 1}
    /\ phase = "demux" => okd.ncb = 0
    /\ tx = [f \in {"resid", "drained", "calls"} |-> tx[f]]
    /\ tx.calls \in {0, 1} /\ (tx.drained => tx.calls = 0)

LEMMA InitOnce == Init => OnceInv
  BY DEF Init, OnceInv, NewTx

\* sclone is reached for a new request, or for one that has had no result.
LEMMA DemuxOnce ==
  ASSUME OnceInv, NEW w, NEW n \in Nat, Demux(w, n), tx' = tx,
         n # okd.reqno \/ phase = "demux"
  PROVE  OnceInv'
<1>1. PICK v : v = Verdict(w)
  OBVIOUS
<1>2. PICK q \in {0, 1} : okd.ncb = q /\ (n = okd.reqno => q = 0)
  BY DEF OnceInv
<1>3. PICK k \in {0, 1} : k = (IF v = "NONE" THEN 0 ELSE 1)
  OBVIOUS
<1>4. /\ okd' = [okd EXCEPT !.bytes = w, !.reqno = n,
                             !.ncb = (IF okd.reqno = n THEN @ ELSE 0) + k]
      /\ (phase' = "demux" => v = "NONE")
  BY <1>1, <1>3 DEF Demux
<1>5. (IF okd.reqno = n THEN okd.ncb ELSE 0) + k = k
  BY <1>2
<1>6. /\ okd' = [f \in {"bytes", "reqno", "timedout", "ncb"} |-> okd'[f]]
      /\ okd'.reqno = n /\ okd'.ncb = k
  BY <1>4, <1>5 DEF OnceInv
<1> QED
  BY <1>3, <1>4, <1>6 DEF OnceInv

LEMMA DrainedOnce ==
  ASSUME OnceInv
  PROVE  /\ DrainedBy(tx) = [f \in {"resid", "drained", "calls"} |-> DrainedBy(tx)[f]]
         /\ DrainedBy(tx).calls \in {0, 1}
         /\ DrainedBy(tx).drained => DrainedBy(tx).calls = 0
<1>1. CASE tx.drained
  <2>1. tx.calls = 0
    BY <1>1 DEF OnceInv
  <2>2. DrainedBy(tx) = [tx EXCEPT !.drained = FALSE, !.calls = @ + 1]
    BY <1>1 DEF DrainedBy
  <2>3. DrainedBy(tx) = [tx EXCEPT !.drained = FALSE, !.calls = 1]
    BY <2>1, <2>2
  <2> QED
    BY <2>3 DEF OnceInv
<1>2. CASE ~tx.drained
  <2>1. DrainedBy(tx) = tx
    BY <1>2 DEF DrainedBy
  <2> QED
    BY <2>1 DEF OnceInv
<1> QED
  BY <1>1, <1>2

LEMMA NextOnce == OnceInv /\ [Next]_vars => OnceInv'
<1> SUFFICES ASSUME OnceInv, [Next]_vars PROVE OnceInv'
  OBVIOUS
<1>1. ASSUME NEW n, DemuxInput(n) PROVE OnceInv'
  BY <1>1, DemuxOnce DEF DemuxInput, OnceInv
<1>2. CASE DemuxEof
  BY <1>2 DEF DemuxEof, OnceInv
<1>3. CASE DemuxTimeout
  <2>1. tx' = tx
    BY <1>3 DEF DemuxTimeout
  <2>2. PICK q \in {0, 1} : okd.ncb = q /\ (phase = "demux" => q = 0)
    BY DEF OnceInv
  <2>3. PICK q1 : /\ okd' = [okd EXCEPT !.timedout = TRUE, !.ncb = q1]
                  /\ q1 = q \/ (phase = "demux" /\ q1 = q + 1)
    BY <1>3, <2>2 DEF DemuxTimeout
  <2>4. q1 \in {0, 1}
    BY <2>2, <2>3
  <2>5. phase' # "demux"
    BY <1>3 DEF DemuxTimeout
  <2> QED
    BY <2>1, <2>3, <2>4, <2>5 DEF OnceInv
<1>4. CASE Dispatch
  BY <1>4 DEF Dispatch, OnceInv
<1>5. CASE SvcFull \/ SvcTimeout \/ Parse \/ UNCHANGED vars
  BY <1>5 DEF SvcFull, SvcTimeout, Parse, vars, OnceInv
<1>6. ASSUME NEW n, SvcInput(n) PROVE OnceInv'
  BY <1>6 DEF SvcInput, OnceInv
<1>7. ASSUME Fail, UNCHANGED <<okd, phase>> PROVE OnceInv'
  BY <1>7, DrainedOnce DEF Fail, OnceInv
<1>8. CASE SvcEof
  BY <1>7, <1>8 DEF SvcEof
<1>9. ASSUME NEW k, Send(k) PROVE OnceInv'
  BY <1>9 DEF Send, NewTx, OnceInv
<1>10. ASSUME NEW k, Output(k) PROVE OnceInv'
  <2>1. UNCHANGED <<okd, phase>>
    BY <1>10 DEF Output
  <2>2. CASE k = -1
    BY <1>7, <1>10, <2>1, <2>2 DEF Output
  <2>3. CASE k # -1 /\ k = tx.resid
    <3>1. tx' = [DrainedBy(tx) EXCEPT !.resid = 0]
      BY <1>10, <2>3 DEF Output
    <3> QED
      BY <2>1, <3>1, DrainedOnce DEF OnceInv
  <2>4. CASE k # -1 /\ k # tx.resid
    <3>1. tx' = [tx EXCEPT !.resid = @ - k]
      BY <1>10, <2>4 DEF Output
    <3> QED
      BY <2>1, <3>1 DEF OnceInv
  <2> QED
    BY <2>2, <2>3, <2>4
<1>11. CASE Passback
  <2>1. tx' = tx /\ okd.reqno + 1 \in Nat /\ okd.reqno + 1 # okd.reqno
    <3>1. PICK r \in Nat : r = okd.reqno
      BY DEF OnceInv
    <3>2. r + 1 \in Nat /\ r + 1 # r
      OBVIOUS
    <3>3. tx' = tx
      BY <1>11 DEF Passback
    <3> QED
      BY <3>1, <3>2, <3>3
  <2>2. ASSUME NEW w, Demux(w, okd.reqno + 1) PROVE OnceInv'
    BY <2>1, <2>2, DemuxOnce
  <2>3. CASE ~KeepAlive \/ ~x.open
    BY <1>11, <2>1, <2>3 DEF Passback, OnceInv
  <2>4. CASE okd' = [bytes |-> <<>>, reqno |-> okd.reqno + 1, timedout |-> FALSE, ncb |-> 0]
    BY <2>1, <2>4 DEF OnceInv
  <2> QED
    BY <1>11, <2>2, <2>3, <2>4 DEF Passback
<1> QED
  BY <1>1, <1>2, <1>3, <1>4, <1>5, <1>6, <1>8, <1>9, <1>10, <1>11 DEF Next, Arrive, Transmit

\* okd calls back at most once for a request (ahttpcon_clone: sclone, fail2, timeouts),
\* and the drained callback of a reply is called at most once (sendv, output, fail).
THEOREM CallbackOnceThm == Spec => []CallbackOnce
<1>1. OnceInv => CallbackOnce
  BY DEF OnceInv, CallbackOnce
<1> QED
  BY <1>1, InitOnce, NextOnce, PTL DEF Spec
=============================================================================
