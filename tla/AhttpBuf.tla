------------------------------ MODULE AhttpBuf ------------------------------
(***************************************************************************)
(* The input side of an HTTP connection in libahttp: the ring buffer       *)
(* suiolite that readv fills, and the character reader abuf_t (over the    *)
(* source abuf_con_t) through which every parser takes its bytes.          *)
(*                                                                         *)
(* Both are records on which pure operators work; the modules that use     *)
(* them keep one record per connection.  A byte is a one-letter string     *)
(* (several letters where one byte stands for a word).  The pointers buf,  *)
(* rp, dep[0], dep[1], bep of the code are the offsets 0, rp, dep0, dep1,  *)
(* cap; the abuf's _basep, _cp, _endp are base, cp, base + len.            *)
(***************************************************************************)
EXTENDS Integers, Sequences

CONSTANT MaxRing     \* SUIOLITE_MAX_BUFLEN

EOFCHAR  == "EOF"       \* ABUF_EOFCHAR
WAITCHAR == "WAIT"      \* ABUF_WAITCHAR
JUNK     == "junk"      \* a byte of the scraps that nobody has written

----------------------------------------------------------------------------
(* suiolite *)

NewRing(cap) ==
    [cap |-> cap, cells |-> [i \in 0 .. cap - 1 |-> JUNK],
     rp |-> 0, dep0 |-> 0, dep1 |-> 0]

Resid(r)    == (r.dep1 - r.rp) + r.dep0
Capacity(r) == r.cap - Resid(r)
Full(r)     == Resid(r) = r.cap

\* The bytes that wait in the ring, oldest first.
Contents(r) ==
    [i \in 1 .. r.dep1 - r.rp |-> r.cells[r.rp + i - 1]]
        \o [i \in 1 .. r.dep0 |-> r.cells[i - 1]]

\* load_iov, readv and account_for_new_bytes: region 2 (dep1 to bep) is filled
\* first, then region 1 (dep0 to rp).
Put(r, bytes) ==
    LET n1 == IF Len(bytes) < r.cap - r.dep1 THEN Len(bytes) ELSE r.cap - r.dep1
    IN  [r EXCEPT
          !.cells = [i \in DOMAIN r.cells |->
                       IF i \in r.dep1 .. r.dep1 + n1 - 1
                         THEN bytes[i - r.dep1 + 1]
                       ELSE IF i \in r.dep0 .. r.dep0 + (Len(bytes) - n1) - 1
                         THEN bytes[n1 + i - r.dep0 + 1]
                       ELSE r.cells[i]],
          !.dep1 = @ + n1,
          !.dep0 = @ + (Len(bytes) - n1)]

\* load_from_buffer: the ring grows when the bytes do not fit (it is empty then), but
\* not beyond MaxRing: it takes what it has room for and returns how much that is.
Lesser(m, n) == IF m < n THEN m ELSE n

LoadFromBuffer(r, bytes) ==
    LET ring == IF Len(bytes) > Capacity(r) THEN NewRing(Lesser(Len(bytes) + 10, MaxRing)) ELSE r
    IN  Put(ring, SubSeq(bytes, 1, Lesser(Len(bytes), Capacity(ring))))

\* rembytes: when everything up to bep is removed the ring changes configuration.
\* Nobody reads a removed byte: it becomes junk.
Scrub(r, n) ==
    [i \in DOMAIN r.cells |->
       IF i \in r.rp .. r.rp + n - 1 \/ i < r.rp + n - r.cap THEN JUNK ELSE r.cells[i]]

\* Mutant: region 1 is not emptied when it becomes region 2.
RemBytes_Twice(r, n) ==
    IF n >= r.cap - r.rp
      THEN [r EXCEPT !.rp = n - (r.cap - r.rp), !.dep1 = r.dep0, !.cells = Scrub(r, n)]
      ELSE [r EXCEPT !.rp = @ + n, !.cells = Scrub(r, n)]

RemBytes(r, n) ==
    IF n >= r.cap - r.rp
      THEN [r EXCEPT !.rp = n - (r.cap - r.rp), !.dep1 = r.dep0, !.dep0 = 0,
                     !.cells = Scrub(r, n)]
      ELSE [r EXCEPT !.rp = @ + n, !.cells = Scrub(r, n)]

\* load_into_xdr: every round copies to the start of the output, so of two
\* regions the second is copied over the first.
LoadIntoXdr(r) ==
    LET first  == [i \in 1 .. r.dep1 - r.rp |-> r.cells[r.rp + i - 1]]
        second == [i \in 1 .. r.dep0 |-> r.cells[i - 1]]
    IN  [i \in 1 .. Resid(r) |->
           IF i <= Len(second) THEN second[i]
           ELSE IF i <= Len(first) THEN first[i]
           ELSE JUNK]

----------------------------------------------------------------------------
(* abuf_t: src is the ring (abuf_con_t), eof the flag of abuf_con_t *)

NewAbuf(ring, ateof) ==
    [ring |-> ring, eof |-> ateof,
     base |-> 0, cp |-> 0, len |-> 0, erc |-> "OK", bc |-> FALSE, lch |-> JUNK,
     spcs |-> 0, lim |-> -1, ccnt |-> 0, mirror |-> FALSE, mir |-> <<>>]

\* moredata: give back the window that was read, take the next one.
MoreData(a) ==
    LET r == IF a.len > 0 THEN RemBytes(a.ring, a.len) ELSE a.ring
        n == IF a.eof THEN 0 ELSE r.dep1 - r.rp
    IN  [a EXCEPT !.ring = r, !.base = r.rp, !.cp = r.rp, !.len = n,
                  !.erc = IF a.eof THEN "EOF" ELSE IF n > 0 THEN "OK" ELSE "WAIT"]

\* ABUF_T_GET_GOT_CHAR.
GotChar(a) ==
    LET ch == a.ring.cells[a.cp]
    IN  [a EXCEPT !.cp = @ + 1, !.ccnt = @ + 1, !.lch = ch,
                  !.mir = IF a.mirror THEN Append(@, ch) ELSE @]

HasChar(a) == a.cp < a.base + a.len

\* get: the reader after the call, and what the call returns.
AfterGet(a) ==
    IF a.bc THEN [a EXCEPT !.bc = FALSE]
    ELSE IF a.lim = a.ccnt THEN a
    ELSE IF HasChar(a) THEN GotChar(a)
    ELSE LET more == IF a.erc = "OK" THEN MoreData(a) ELSE a
         IN  IF more.erc = "OK" /\ HasChar(more)
               THEN GotChar(more)
               ELSE [more EXCEPT !.lch = IF more.erc = "WAIT" THEN WAITCHAR ELSE EOFCHAR]

Got(a, after) == IF ~a.bc /\ a.lim = a.ccnt THEN EOFCHAR ELSE after.lch

\* unget: a WAIT is not put back.
Unget(a) == IF a.lch = WAITCHAR THEN a ELSE [a EXCEPT !.bc = TRUE]

\* skip_hws, one character: OK, ERR, WAIT, or AGAIN after a blank.
HwsStatus(a, ch, mn) ==
    IF ch \in {"sp", "ht"} THEN "AGAIN"
    ELSE IF ch = WAITCHAR THEN "WAIT"
    ELSE IF a.spcs < mn THEN "ERR" ELSE "OK"

HwsAfter(a, ch) ==
    IF ch \in {"sp", "ht"} THEN [a EXCEPT !.spcs = @ + 1]
    ELSE IF ch = WAITCHAR THEN a
    ELSE Unget([a EXCEPT !.spcs = 0])

\* setlim, mirror, end_mirror (trailing CR and LF go), can_read, reset.
SetLim(a, n)   == [a EXCEPT !.lim = n, !.ccnt = 0]
Mirror(a)      == [a EXCEPT !.mirror = TRUE, !.mir = <<>>]
CanRead(a)     == [a EXCEPT !.erc = "OK"]
ResetAbuf(a)   == [a EXCEPT !.spcs = 0, !.mirror = FALSE]
EndMirror(a)   == [a EXCEPT !.mirror = FALSE, !.mir = <<>>]

\* end_mirror2: the boundary goes, and a CR LF before it.
Mirrored2(a, sublen) ==
    LET s == SubSeq(a.mir, 1, Len(a.mir) - sublen)
        n == Len(s)
    IN  IF n >= 2 /\ SubSeq(s, n - 1, n) = <<"cr", "lf">> THEN SubSeq(s, 1, n - 2) ELSE s

\* finish: what has been read of the window is removed from the ring; the rest
\* stays for the next reader.
Finish(a) ==
    LET n == a.cp - a.base
    IN  [a EXCEPT !.ring = IF n > 0 THEN RemBytes(@, n) ELSE @,
                  !.len = @ - n, !.base = a.cp]
=============================================================================
