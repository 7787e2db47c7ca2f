----------------------------- MODULE HttpCycle -----------------------------
(***************************************************************************)
(* The life of one HTTP connection across okd and a service: okd reads     *)
(* bytes until it can tell which service they are for (ahttpcon_clone,     *)
(* okd_t::sclone), sends the descriptor and the bytes read to the service, *)
(* whose ahttpcon reads the rest and feeds the parsers of HttpBody; the    *)
(* reply is written (sendv, output); a connection that is kept alive goes  *)
(* back to okd with the bytes the service has read too many (scraps).      *)
(*                                                                         *)
(* The peer's bytes arrive in pieces of any size, the peer may go away and *)
(* the timers of okd and of the parser may fire at any moment in which the *)
(* event loop runs.  Two history variables: slips has the places, by name, *)
(* at which a piece has ended where the code loses what it knew; kept has  *)
(* the bytes received less those that did not fit into the ring when the   *)
(* service took the connection over.                                       *)
(***************************************************************************)
EXTENDS HttpBody

CONSTANTS
    Scenarios,  \* [bytes, want, opt, all, limit]: a stream, what its requests may be
                \* taken for, the set-up
    RingSize,   \* SUIOLITE_DEF_BUFLEN
    MaxLine,    \* AHTTP_MAXLINE
    ReplyLen    \* bytes of a reply

\* A stream is a sequence of bytes.
Byte == {JUNK} \cup UNION {{s.bytes[i] : i \in DOMAIN s.bytes} : s \in Scenarios}
ASSUME StreamAssumption == \A s \in Scenarios : s.bytes \in Seq(Byte)
ASSUME RingAssumption == RingSize \in Nat \ {0} /\ MaxRing \in Nat /\ RingSize <= MaxRing

VARIABLES
    scn, pos,   \* the scenario; how many of its bytes have been read
    phase,      \* "demux", "queued", "parse", "reply", "closed"
    okd,        \* the ahttpcon_clone: [bytes, reqno, timedout, ncb]
    tx,         \* the reply: [resid, drained, calls]
    out,        \* the requests the service has seen, in order
    late,       \* a timer fired or the peer went away before the end
    slips, kept

vars == <<pvars, scn, pos, phase, okd, tx, out, late, slips, kept>>

Rest      == Len(scn.bytes) - pos
Piece(n)  == SubSeq(scn.bytes, pos + 1, pos + n)
NewTx     == [resid |-> 0, drained |-> FALSE, calls |-> 0]
NewCon    == [open |-> TRUE, sel |-> FALSE, eof |-> FALSE, over |-> FALSE, recvd |-> 0]

----------------------------------------------------------------------------
(* okd: the demultiplexer *)

First(s, P(_)) ==
    LET hits == {i \in DOMAIN s : P(i)}
    IN  IF hits = {} THEN 0 ELSE CHOOSE i \in hits : \A j \in hits : i <= j

\* parse_reqline: method, blanks, target.
ReqLine(s) ==
    LET sp1   == First(s, LAMBDA i : s[i] = "sp")
        bad   == First(s, LAMBDA i : s[i] \notin {"G", "P", "X"})
        start == First(s, LAMBDA i : sp1 > 0 /\ i > sp1 /\ s[i] # "sp")
        stop  == First(s, LAMBDA i : start > 0 /\ i >= start
                                       /\ s[i] \in {"sp", "?", "cr", "lf"})
    IN  IF bad > 0 /\ bad # sp1 THEN "BAD_REQUEST"
        ELSE IF stop > 0 THEN "OK"
        ELSE IF Len(s) > MaxLine THEN "URI_TOO_BIG" ELSE "NONE"

\* delimit and delimit_headers.  The first always has a result, if without a
\* request line, which sclone takes for a timeout; the second waits for the
\* empty line.
Verdict(s) ==
    LET eol   == First(s, LAMBDA i : s[i] = "lf")
        blank == First(s, LAMBDA i : s[i] \in Ends /\ (i = 1 \/ s[i - 1] = "lf"))
        r     == IF scn.all THEN IF eol = 0 THEN "NONE" ELSE ReqLine(SubSeq(s, 1, eol))
                 ELSE ReqLine(s)
    IN  IF ~scn.all THEN IF r = "NONE" THEN "TIMEOUT" ELSE r
        ELSE IF r = "OK" /\ blank = 0 THEN "NONE" ELSE r

\* recvd_bytes and sclone: the callback is called once, with a result or an error.
Demux(bytes, reqno) ==
    LET v == Verdict(bytes)
    IN  /\ okd' = [okd EXCEPT !.bytes = bytes, !.reqno = reqno,
                              !.ncb = (IF okd.reqno = reqno THEN @ ELSE 0)
                                        + (IF v = "NONE" THEN 0 ELSE 1)]
        /\ phase' = IF v = "NONE" THEN "demux" ELSE IF v = "OK" THEN "queued" ELSE "closed"
        /\ out' = IF v \in {"NONE", "OK"} THEN out ELSE Append(out, [st |-> v])

DemuxInput(n) ==
    /\ phase = "demux" /\ n <= MaxLine
    /\ pos' = pos + n
    /\ Demux(okd.bytes \o Piece(n), okd.reqno)
    /\ slips' = IF ~scn.all /\ ReqLine(okd.bytes \o Piece(n)) = "NONE"
                  THEN slips \cup {"request line"} ELSE slips
    /\ kept' = kept \o Piece(n)
    /\ UNCHANGED <<pvars, scn, tx, late>>

\* input with n = 0: fail, fail2 and issue_ccb; the error page cannot be sent.
DemuxEof ==
    /\ phase = "demux"
    /\ phase' = "closed"
    /\ late' = (late \/ Rest > 0)
    /\ okd' = [okd EXCEPT !.ncb = @ + 1]
    /\ UNCHANGED <<pvars, scn, pos, tx, out, slips, kept>>

\* ahttp_tab_t::run: a connection kept alive without a byte is closed, any other
\* gets an error, unless its callback has been called; then it is only marked.
DemuxTimeout ==
    /\ phase \in {"demux", "queued"} /\ ~okd.timedout
    /\ late' = TRUE
    /\ phase' = IF phase = "demux" THEN "closed" ELSE phase
    /\ LET told == phase = "demux" /\ (okd.reqno = 0 \/ okd.bytes # <<>>)
       IN  /\ okd' = [okd EXCEPT !.timedout = TRUE, !.ncb = IF told THEN @ + 1 ELSE @]
           /\ out' = IF told THEN Append(out, [st |-> "TIMEOUT"]) ELSE out
    /\ UNCHANGED <<pvars, scn, pos, tx, slips, kept>>

\* okch_t::send_con_to_service and oksrvc_t::handle_new_con2: the service's
\* connection starts with the bytes okd has read, as far as the largest ring has room
\* for them (set_keepalive_data does not look at what load_from_buffer returns); a
\* connection that timed out in the meantime is not forwarded.
Surplus(bytes) == IF Len(bytes) > MaxRing THEN Len(bytes) - MaxRing ELSE 0

Dispatch ==
    /\ phase = "queued"
    /\ IF okd.timedout
         THEN phase' = "closed" /\ UNCHANGED <<pvars, slips, kept>>
         ELSE /\ phase' = "parse"
              /\ x' = [NewCon EXCEPT !.sel = TRUE]
              /\ a' = Mirror(NewAbuf(LoadFromBuffer(NewRing(RingSize), okd.bytes), FALSE))
              /\ who' = "hdr" /\ run' = TRUE
              /\ h' = NewHdr
              /\ c' = [url |-> NewCgi("KEY"), cookie |-> NewCgi("CKEY"), post |-> NewCgi("KEY")]
              /\ m' = NewMpfd(<<>>) /\ d' = NewDisp
              /\ res' = "none"
              /\ opt' = scn.opt
              /\ slips' = IF Surplus(okd.bytes) > 0 THEN slips \cup {"room"} ELSE slips
              /\ kept' = SubSeq(kept, 1, Len(kept) - Surplus(okd.bytes))
    /\ okd' = [okd EXCEPT !.bytes = <<>>]
    /\ UNCHANGED <<scn, pos, tx, out, late>>

----------------------------------------------------------------------------
(* The service's connection *)

Idle == ~run /\ m.st # "SPIN"

\* The read callback runs the parser; a header parser that is still at its first
\* word starts the mirror again.
Wake(b) ==
    IF who = "none" THEN b
    ELSE IF who = "hdr" /\ h.st = "START" THEN Mirror(CanRead(b)) ELSE CanRead(b)

\* input: a full ring is no longer watched; more than recv_limit is an end.
SvcInput(n) ==
    /\ phase \in {"parse", "reply"} /\ Idle /\ x.open /\ x.sel
    /\ n <= Capacity(a.ring)
    /\ LET over == scn.limit > 0 /\ x.recvd + n > scn.limit
           b    == [a EXCEPT !.ring = Put(@, Piece(n)),
                             !.eof = @ \/ (over /\ who # "none")]
       IN  /\ a' = Wake(b)
           /\ x' = [x EXCEPT !.recvd = @ + n, !.eof = @ \/ over, !.over = @ \/ over,
                             !.sel = @ /\ ~over]
    /\ run' = (who # "none")
    /\ pos' = pos + n
    /\ kept' = kept \o Piece(n)
    /\ UNCHANGED <<who, h, c, m, d, res, opt, scn, phase, okd, tx, out, late, slips>>

SvcFull ==
    /\ phase \in {"parse", "reply"} /\ Idle /\ x.open /\ x.sel /\ Full(a.ring)
    /\ x' = [x EXCEPT !.sel = FALSE]
    /\ UNCHANGED <<a, who, run, h, c, m, d, res, opt,
                   scn, pos, phase, okd, tx, out, late, slips, kept>>

\* Mutant: the callback is called without being cleared.
DrainedBy_Kept(t) == IF t.drained THEN [t EXCEPT !.calls = @ + 1] ELSE t

\* call_drained_cb: the callback is cleared, then called.
DrainedBy(t) == IF t.drained THEN [t EXCEPT !.drained = FALSE, !.calls = @ + 1] ELSE t

\* fail: the read callback gets 0; without one, a pending drained callback is called.
Fail ==
    /\ x' = [x EXCEPT !.open = FALSE, !.sel = FALSE, !.eof = TRUE]
    /\ IF who # "none"
         THEN a' = Wake([a EXCEPT !.eof = TRUE]) /\ run' = TRUE /\ tx' = tx
         ELSE tx' = DrainedBy(tx) /\ UNCHANGED <<a, run>>

SvcEof ==
    /\ phase \in {"parse", "reply"} /\ Idle /\ x.open /\ x.sel /\ ~Full(a.ring)
    /\ late' = (late \/ Rest > 0)
    /\ Fail
    /\ UNCHANGED <<who, h, c, m, d, res, opt, scn, pos, phase, okd, out, slips, kept>>

\* Mutant: the timer is gone once the headers are there.
SvcTimeout_Headers ==
    /\ phase = "parse" /\ Idle /\ res = "none" /\ ~h.fixed
    /\ late' = TRUE
    /\ FinishReq("TIMEOUT", a)
    /\ UNCHANGED <<h, c, m, d, opt, scn, pos, phase, okd, tx, out, slips, kept>>

\* clnt_timeout of the parser.  _pipeline_eof_ok, by which an end or a timeout between
\* two requests is no error, is set by okclnt3_t alone: HdrStatus has no such case.
SvcTimeout ==
    /\ phase = "parse" /\ Idle /\ res = "none"
    /\ late' = TRUE
    /\ FinishReq("TIMEOUT", a)
    /\ UNCHANGED <<h, c, m, d, opt, scn, pos, phase, okd, tx, out, slips, kept>>

\* Where a piece may not end: the parser waits, and takes its next bytes for
\* something else than what they continue.
NextEnds == Rest > 0 /\ scn.bytes[pos + 1] \in Ends

WaitSlip ==
    CASE who' = "hdr" /\ h'.st = "OPTPARAM" /\ h'.pcp # <<>> /\ NextEnds -> {"version"}
      [] who' = "hdr" /\ h'.st = "KEY" /\ h'.pcp # <<>> /\ NextEnds -> {"key"}
      [] who' = "post" /\ c'["post"].inhex
           /\ a'.lim - a'.ccnt < 2 - c'["post"].hexi -> {"escape"}
      [] who' = "mpfd" /\ m'.st = "SPC" /\ a.spcs > 0 -> {"blank"}
      [] who' = "mpfd" /\ m'.st = "KEY" /\ m'.pcp # <<>> /\ NextEnds -> {"key"}
      [] who' = "mpfd" /\ m.ndash = 1 -> {"dashes"}
      [] OTHER -> {}

\* The filename of an attachment is read together with its key, and a blank before
\* it refuses the request, unless a piece ends between the two.
Slip ==
    IF who = "cdp" /\ d.st = "SEP1" /\ (d'.st = "FILENAME_VAL" \/ (d'.st = "FILENAME_KEY" /\ a.spcs = 0))
      THEN {"attachment"}
    ELSE IF run' \/ who' = "none" THEN {} ELSE WaitSlip

Parse ==
    /\ phase = "parse" /\ run /\ ParseStep
    /\ slips' = slips \cup Slip
    /\ UNCHANGED <<scn, pos, phase, okd, tx, out, late, kept>>

----------------------------------------------------------------------------
(* The reply *)

\* What the service has been told of the request.
Outcome ==
    IF res # "OK" THEN [st |-> res]
    ELSE [st |-> res, target |-> h.target, vers |-> h.vers, hdrs |-> h.tab,
          url |-> c["url"].tab, cookie |-> c["cookie"].tab,
          post |-> c["post"].tab, mpfd |-> m.tab, files |-> m.files,
          raw |-> IF opt.raw THEN m.pcp ELSE <<>>]

\* sendv: k bytes go out at once; on a closed connection, or when the write fails
\* (k = -1), the callback is called at once.
Send(k) ==
    /\ phase = "parse" /\ res # "none"
    /\ out' = Append(out, Outcome)
    /\ phase' = "reply"
    /\ x' = IF k = -1 THEN [x EXCEPT !.open = FALSE, !.sel = FALSE] ELSE x
    /\ tx' = IF ~x.open \/ k \in {-1, ReplyLen}
               THEN [NewTx EXCEPT !.calls = 1]
               ELSE [NewTx EXCEPT !.resid = ReplyLen - k, !.drained = TRUE]
    /\ UNCHANGED <<a, who, run, h, c, m, d, res, opt, scn, pos, okd, late, slips, kept>>

\* output, when the descriptor can be written to: k bytes, or an error.
Output(k) ==
    /\ phase = "reply" /\ x.open /\ tx.resid > 0
    /\ IF k = -1
         THEN Fail
         ELSE /\ k <= tx.resid
              /\ tx' = IF k = tx.resid THEN [DrainedBy(tx) EXCEPT !.resid = 0]
                       ELSE [tx EXCEPT !.resid = @ - k]
              /\ UNCHANGED <<x, a, run>>
    /\ UNCHANGED <<who, h, c, m, d, res, opt, scn, pos, phase, okd, out, late, slips, kept>>

\* Once the reply has drained the connection goes back to okd, with its scraps,
\* or is closed.  okd looks at the scraps at once, if there are any; they come from a
\* ring, so they fit into one.
Wrapped(r) == r.dep1 > r.rp /\ r.dep0 > 0

Passback ==
    /\ phase = "reply" /\ tx.calls > 0
    /\ IF ~KeepAlive \/ ~x.open
         THEN phase' = "closed" /\ UNCHANGED <<okd, out, slips>>
         ELSE \E scraps \in {LoadIntoXdr(a.ring)} :
                /\ slips' = slips
                     \cup (IF Wrapped(a.ring) THEN {"scraps"} ELSE {})
                     \cup (IF ~scn.all /\ scraps # <<>> /\ ReqLine(scraps) = "NONE"
                             THEN {"request line"} ELSE {})
                /\ IF scraps = <<>>
                     THEN /\ phase' = "demux" /\ out' = out
                          /\ okd' = [bytes |-> <<>>, reqno |-> okd.reqno + 1,
                                     timedout |-> FALSE, ncb |-> 0]
                     ELSE Demux(scraps, okd.reqno + 1)
    /\ UNCHANGED <<pvars, scn, pos, tx, late, kept>>

Init ==
    /\ scn \in Scenarios /\ pos = 0 /\ phase = "demux"
    /\ okd = [bytes |-> <<>>, reqno |-> 0, timedout |-> FALSE, ncb |-> 0]
    /\ tx = NewTx /\ out = <<>> /\ late = FALSE /\ slips = {} /\ kept = <<>>
    /\ x = NewCon /\ a = NewAbuf(NewRing(RingSize), FALSE) /\ who = "none" /\ run = FALSE
    /\ h = NewHdr /\ m = NewMpfd(<<>>) /\ d = NewDisp /\ res = "none" /\ opt = scn.opt
    /\ c = [url |-> NewCgi("KEY"), cookie |-> NewCgi("CKEY"), post |-> NewCgi("KEY")]

Arrive == \E n \in 1 .. Rest : DemuxInput(n) \/ SvcInput(n)
Transmit == \E k \in -1 .. ReplyLen : Send(k) \/ Output(k)

Next ==
    \/ Arrive \/ DemuxEof \/ DemuxTimeout \/ Dispatch
    \/ SvcFull \/ SvcEof \/ SvcTimeout \/ Parse \/ Transmit \/ Passback

Spec == Init /\ [][Next]_vars

\* Timers fire, the event loop runs on, okd gets round to its queue, and a
\* peer reads what it is sent or goes away.
FairSpec ==
    /\ Spec
    /\ WF_vars(Parse) /\ WF_vars(SvcTimeout) /\ WF_vars(DemuxTimeout) /\ WF_vars(Dispatch)
    /\ WF_vars(Passback) /\ WF_vars(\E k \in {-1} \cup 1 .. ReplyLen : Send(k) \/ Output(k))

----------------------------------------------------------------------------
(* Properties *)

\* However the bytes are cut into pieces, and wherever okd stops reading and the
\* service goes on, the service is told what the requests say, in their order,
\* and nothing else: the parsers lose no state between two pieces except at the
\* places named in slips, and no byte is lost but for the two reasons named there.
AsSent ==
    ~late /\ slips = {} =>
        /\ Len(out) <= Len(scn.want)
        /\ \A k \in DOMAIN out : out[k] \in scn.want[k]

\* The ring always holds the last bytes kept, in order: readv into its two regions,
\* the window that moredata takes, and rembytes at either end agree on where it
\* starts, also when it wraps and when okd's bytes made it grow.  Kept are all the
\* bytes received, unless okd has read more than the largest ring takes: then those
\* beyond its room are lost, and no others.  The scraps of a ring that wraps are
\* the other loss.
RingFifo ==
    /\ phase \in {"parse", "reply"} /\ "scraps" \notin slips =>
         Contents(a.ring) = SubSeq(kept, Len(kept) - Resid(a.ring) + 1, Len(kept))
    /\ "room" \notin slips => kept = SubSeq(scn.bytes, 1, pos)

\* okd calls back at most once for a request and the reply's drained callback is
\* called at most once, whatever input, output, an end of file and the timers do.
CallbackOnce == okd.ncb <= 1 /\ tx.calls <= 1

\* Every connection is closed in the end, unless a multipart body with an epilogue
\* keeps its parser in a loop.
Finishes == <>(phase = "closed" \/ m.st = "SPIN")
=============================================================================
