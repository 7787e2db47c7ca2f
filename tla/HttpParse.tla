----------------------------- MODULE HttpParse -----------------------------
(***************************************************************************)
(* The asynchronous HTTP parsers of libahttp: http_inhdr_t (request line   *)
(* and headers), cgi_t (query string, cookies, url-encoded body),          *)
(* cgi_mpfd_t with contdisp_parser_t (multipart bodies) and the raw body   *)
(* reader, all on one abuf, and http_parser_cgi_t that runs one after the  *)
(* other.                                                                  *)
(*                                                                         *)
(* parse_guts of a parser runs until the abuf has no more bytes; then it   *)
(* returns and is called again, from the top of its switch, when bytes     *)
(* arrive.  Here run says that parse_guts is on the stack and every action *)
(* of a parser takes one character.  A loop inside a case of the switch    *)
(* has a state of its own (the case's name with a 2); when it runs out of  *)
(* bytes the state goes back to the case's head, as the code's does.       *)
(*                                                                         *)
(* Words are shortened: G and P are methods, "l" is content-length, "k"    *)
(* connection, "c" cookie, "t" content-type, a value "mX" is multipart     *)
(* with boundary X, "f" is form-data, "g" attachment, nq is name=", Fq is  *)
(* filename=".                                                             *)
(***************************************************************************)
EXTENDS AhttpBuf, TLC

CONSTANTS
    Scratch,    \* bytes of the header parsers' scratch buffer
    CgiScratch, \* bytes a cgi_t may grow its scratch buffer to
    HexVal,     \* the value of each hexadecimal digit
    NumVal,     \* the number each numeric header value denotes
    ReqLimit    \* ok_reqsize_limit

ASSUME SizesAssumption == Scratch \in Nat \ {0} /\ CgiScratch \in Nat \ {0} /\ ReqLimit \in Nat

VARIABLES
    x,      \* the ahttpcon: [open, sel, eof, over, recvd]
    a,      \* the abuf and the ring below it
    who,    \* the parser whose callback the abuf's source holds, or "none"
    run,    \* its parse_guts is on the stack
    h,      \* http_inhdr_t
    c,      \* the cgi_t of the url, the cookies and the body
    m,      \* cgi_mpfd_t
    d,      \* contdisp_parser_t
    res,    \* the status given to the callback of http_parser_cgi_t, or "none"
    opt     \* how the service set up its parser: [union, raw, mpfd]

pvars == <<x, a, who, run, h, c, m, d, res, opt>>

Blanks == {"sp", "ht"}
Ends   == {"cr", "lf"}

NewHdr ==
    [st |-> "START", pcp |-> <<>>, needLF |-> FALSE, mthd |-> <<>>, target |-> <<>>,
     vers |-> <<>>, key |-> <<>>, val |-> <<>>, noins |-> FALSE, line1 |-> <<>>,
     tab |-> << >>, fixed |-> FALSE]

NewCgi(ckey) ==
    [pstate |-> ckey, pcp |-> <<>>, key |-> <<>>, inhex |-> FALSE, hexi |-> 0,
     hexh |-> 0, hexl |-> <<>>, drv |-> TRUE, reent |-> FALSE, tab |-> << >>]

NewMpfd(bound) ==
    [st |-> "START", pcp |-> <<>>, needLF |-> FALSE, kt |-> "OTHER", toStart |-> FALSE,
     bounds |-> <<<<"-", "-">> \o bound>>, cbm |-> 0, q |-> 0, ended |-> FALSE,
     nxt |-> "KEY", ckey |-> <<>>, typ |-> <<>>, attach |-> FALSE,
     filename |-> <<>>, ndash |-> 0, tab |-> << >>, files |-> << >>]

NewDisp ==
    [st |-> "START", pcp |-> <<>>, needLF |-> FALSE, fm |-> 0, typscr |-> <<>>,
     fscr |-> <<>>, typ |-> "NONE", name |-> <<>>, filename |-> <<>>]

----------------------------------------------------------------------------
(* pairtab_t *)

\* insert (key, val): vals is <<>> for a NULL value.  An empty or NULL key is
\* ignored, and so is a NULL value for a key that is there.
Insert(tab, key, vals) ==
    IF key = <<>> THEN tab
    ELSE IF key \in DOMAIN tab THEN [tab EXCEPT ![key] = @ \o vals]
    ELSE (key :> vals) @@ tab

\* lookup: the first value.
Lookup(tab, key) ==
    IF key \in DOMAIN tab /\ tab[key] # <<>> THEN tab[key][1] ELSE <<>>

----------------------------------------------------------------------------
(* http_hdr_t: what one more character does to a scan *)

\* delimit_word, delimit_key, delimit_val and delimit.
Delimit(pcp, ch, stops, errs) ==
    IF ch = WAITCHAR THEN "WAIT"
    ELSE IF ch \in stops THEN "OK"
    ELSE IF ch = EOFCHAR THEN "EOF"
    ELSE IF ch \in errs THEN "ERR"
    ELSE IF Len(pcp) + 1 = Scratch THEN "OVERFLOW"
    ELSE "AGAIN"

WordStops(pcp, qms) ==
    Blanks \cup Ends \cup (IF qms THEN {"?"} ELSE {})
           \cup (IF pcp = <<>> THEN {} ELSE {EOFCHAR})

\* gobble_crlf, and what it does to CRLF_need_LF.
Crlf(needLF, ch) ==
    IF ch = "lf" THEN "OK"
    ELSE IF ch = EOFCHAR THEN "EOF"
    ELSE IF ch = WAITCHAR THEN "WAIT"
    ELSE IF needLF THEN "ERR"
    ELSE IF ch = "cr" THEN "AGAIN" ELSE "NOMATCH"

NeedLF(needLF, ch) ==
    IF ch = "cr" THEN ~needLF ELSE needLF /\ ch \in {EOFCHAR, WAITCHAR}

\* A character that is neither CR nor LF is put back.
CrlfUnget(g, ch) == IF ch \in Ends \cup {EOFCHAR, WAITCHAR} THEN g ELSE Unget(g)

\* require_crlf.
Required(r) == IF r = "NOMATCH" THEN "ERR" ELSE r

\* eol, on the peeked character.
Eol(ch) == IF ch = WAITCHAR THEN "WAIT" ELSE IF ch \in Ends THEN "OK" ELSE "NOMATCH"

----------------------------------------------------------------------------
(* async_parser_t *)

\* One character of the running parser w: G(ch, g) with g the abuf after get.
Reads(w, G(_, _)) ==
    /\ run /\ who = w
    /\ \E g \in {AfterGet(a)} : G(Got(a, g), g)

\* rembytes on a full ring calls spacecb: the descriptor is watched again.
SpaceCb(g) ==
    x' = [x EXCEPT !.sel = @ \/ (x.open /\ Full(a.ring) /\ ~Full(g.ring))]

Goes(g) == a' = g /\ SpaceCb(g)

\* parse and resume: abuf_con_t::init gives the source the callback of w, and
\* setrcb calls it at once when there are bytes or no more can come.
Begin(w, g) ==
    /\ Goes(CanRead([g EXCEPT !.eof = @ \/ ~x.open]))
    /\ who' = w
    /\ run' = (~x.open \/ Resid(g.ring) > 0)

\* http_parser_base_t::finish: the timer is removed, the abuf is stopped and the
\* callback gets the status.
FinishReq(status, g) ==
    /\ Goes(Finish(g))
    /\ who' = "none" /\ run' = FALSE /\ res' = status

----------------------------------------------------------------------------
(* http_inhdr_t::parse_guts *)

\* The end of parse_guts: what a status other than OK and WAIT comes to.
HdrStatus(r) ==
    IF r = "OVERFLOW" \/ (r = "EOF" /\ x.over) THEN "TOO_BIG"
    ELSE "BAD_REQUEST"

\* A scan of the header parser returned r: it goes on (more), reaches the next
\* state (ok), waits in the state head, or the request is refused.
HdrReturns(r, ok, more, head, g) ==
    \/ r = "OK" /\ h' = ok /\ Goes(g) /\ UNCHANGED <<who, run, res>>
    \/ r = "AGAIN" /\ h' = more /\ Goes(g) /\ UNCHANGED <<who, run, res>>
    \/ r = "WAIT" /\ h' = [more EXCEPT !.st = head] /\ Goes(g) /\ run' = FALSE
                  /\ UNCHANGED <<who, res>>
    \/ r \in {"EOF", "ERR", "OVERFLOW"} /\ h' = h /\ FinishReq(HdrStatus(r), g)

\* Mutant: the scan starts again after a wait.
Stored_Again(s, ch) ==
    IF ch = WAITCHAR THEN [s EXCEPT !.pcp = <<>>]
    ELSE IF ch = EOFCHAR THEN s ELSE [s EXCEPT !.pcp = Append(@, ch)]

Stored(s, ch) ==
    IF ch \in {WAITCHAR, EOFCHAR} THEN s ELSE [s EXCEPT !.pcp = Append(@, ch)]

\* The request line's words: method, target, version.
HdrWord(from, head, qms, Done(_)) ==
    /\ h.st = from
    /\ Reads("hdr", LAMBDA ch, g :
         LET r == Delimit(h.pcp, ch, WordStops(h.pcp, qms), {})
         IN  HdrReturns(r, Done([h EXCEPT !.pcp = <<>>]), Stored(h, ch), head,
                        IF r = "OK" THEN Unget(g) ELSE g))
    /\ UNCHANGED <<c, m, d, opt>>

HdrMethod == HdrWord("START", "START", FALSE,
                     LAMBDA s : [s EXCEPT !.mthd = h.pcp, !.st = "SPC1"])
HdrTarget == HdrWord("TARGET", "TARGET", TRUE,
                     LAMBDA s : [s EXCEPT !.target = h.pcp, !.st = "URIDAT"])
HdrVersion == HdrWord("OPTPARAM2", "OPTPARAM", FALSE,
                      LAMBDA s : [s EXCEPT !.vers = h.pcp, !.st = "EOL1"])

\* SPC1, SPC2 and SPC3: blanks, of which the first two need one.
HdrBlanks ==
    /\ h.st \in {"SPC1", "SPC22", "SPC3"}
    /\ Reads("hdr", LAMBDA ch, g :
         HdrReturns(HwsStatus(g, ch, IF h.st = "SPC3" THEN 0 ELSE 1),
                    [h EXCEPT !.st = IF @ = "SPC1" THEN "TARGET"
                                     ELSE IF @ = "SPC22" THEN "OPTPARAM" ELSE "VALUE"],
                    h, IF h.st = "SPC22" THEN "SPC2" ELSE h.st, HwsAfter(g, ch)))
    /\ UNCHANGED <<c, m, d, opt>>

\* URIDAT: a '?' hands the line over to the url's cgi parser.
HdrUriDat ==
    /\ h.st = "URIDAT"
    /\ Reads("hdr", LAMBDA ch, g :
         \/ ch = "?" /\ Begin("url", g) /\ UNCHANGED <<h, res>>
         \/ ch # "?" /\ HdrReturns(IF ch \in {WAITCHAR, EOFCHAR} THEN ch ELSE "OK",
                                   [h EXCEPT !.st = "SPC2"], h, "URIDAT", Unget(g)))
    /\ UNCHANGED <<c, m, d, opt>>

\* SPC2 and OPTPARAM look for an end of line first.
HdrEol ==
    /\ h.st \in {"SPC2", "OPTPARAM"}
    /\ Reads("hdr", LAMBDA ch, g :
         LET r == Eol(ch)
         IN  HdrReturns(IF r = "NOMATCH" THEN "AGAIN" ELSE r,
                        [h EXCEPT !.st = IF @ = "SPC2" THEN "OPTPARAM" ELSE "EOL1"],
                        [h EXCEPT !.st = IF @ = "SPC2" THEN "SPC22" ELSE "OPTPARAM2"],
                        h.st, Unget(g)))
    /\ UNCHANGED <<c, m, d, opt>>

\* end_mirror: the mirrored line without its end.
Line1(s) ==
    LET keep == {i \in 0 .. Len(s) : i = 0 \/ s[i] \notin Ends}
    IN  SubSeq(s, 1, CHOOSE i \in keep : \A j \in keep : j <= i)

\* EOL1: the mirror of the first line ends each time the state is entered.
HdrLine1 ==
    /\ run /\ who = "hdr" /\ h.st = "EOL1"
    /\ h' = [h EXCEPT !.line1 = Line1(a.mir), !.st = "EOL12"]
    /\ a' = EndMirror(a)
    /\ UNCHANGED <<x, who, run, c, m, d, res, opt>>

\* EOL1 and EOL2B: a line end is required.
HdrLineEnd ==
    /\ h.st \in {"EOL12", "EOL2B"}
    /\ Reads("hdr", LAMBDA ch, g :
         LET s == [h EXCEPT !.needLF = NeedLF(@, ch)]
         IN  HdrReturns(Required(Crlf(h.needLF, ch)), [s EXCEPT !.st = "KEY"], s,
                        IF h.st = "EOL12" THEN "EOL1" ELSE "EOL2B", CrlfUnget(g, ch)))
    /\ UNCHANGED <<c, m, d, opt>>

\* fixup, once the headers are complete: content-length, and whether the
\* connection is kept.
ContLen == IF Lookup(h.tab, <<"l">>) = <<>> THEN -1 ELSE NumVal[Lookup(h.tab, <<"l">>)[1]]
KeepAlive == h.fixed /\ Lookup(h.tab, <<"k">>) = <<"a">>

\* prepare_post_parse gives the body's length to the abuf; want_raw_body,
\* multipart and url-encoded bodies each have their parser.
BodyLen == IF ContLen < 0 THEN ReqLimit - 1 ELSE ContLen
MultiPart == Lookup(h.tab, <<"t">>) # <<>> /\ Lookup(h.tab, <<"t">>)[1] = "m"

\* http_parser_cgi_t::v_parse_cb1, once the headers are there.
BodyStart(g) ==
    \/ h.mthd = <<"G">> /\ FinishReq("OK", g) /\ UNCHANGED <<c, m>>
    \/ h.mthd \notin {<<"G">>, <<"P">>} /\ FinishReq("NOT_ALLOWED", g) /\ UNCHANGED <<c, m>>
    \/ /\ h.mthd = <<"P">>
       /\ IF ContLen > ReqLimit
            THEN FinishReq("NOT_ALLOWED", g) /\ UNCHANGED <<c, m>>
          ELSE IF opt.raw
            THEN Begin("raw", SetLim(g, BodyLen)) /\ UNCHANGED <<c, m, res>>
          ELSE IF ~MultiPart
            THEN /\ Begin("post", SetLim(g, BodyLen))
                 /\ c' = [c EXCEPT !["post"] =
                            IF opt.union
                              THEN [NewCgi("KEY") EXCEPT !.tab = c["url"].tab,
                                                         !.pcp = c["url"].pcp,
                                                         !.key = c["url"].key]
                              ELSE @]
                 /\ UNCHANGED <<m, res>>
          ELSE IF ~opt.mpfd
            THEN FinishReq("NOT_ALLOWED", g) /\ UNCHANGED <<c, m>>
            ELSE /\ Begin("mpfd", SetLim(g, BodyLen))
                 /\ m' = NewMpfd(Tail(Lookup(h.tab, <<"t">>)))
                 /\ UNCHANGED <<c, res>>

\* KEY: an empty line ends the headers; anything else is a key.
HdrKeyLine ==
    /\ h.st = "KEY"
    /\ Reads("hdr", LAMBDA ch, g :
         LET r == Crlf(h.needLF, ch)
             s == [h EXCEPT !.needLF = NeedLF(@, ch)]
         IN  \/ r = "OK" /\ h' = [s EXCEPT !.fixed = TRUE] /\ BodyStart(g)
             \/ /\ r # "OK"
                /\ HdrReturns(IF r = "NOMATCH" THEN "AGAIN" ELSE r, s,
                              [s EXCEPT !.st = IF r = "NOMATCH" THEN "KEY2" ELSE "KEY"],
                              "KEY", CrlfUnget(g, ch))
                /\ UNCHANGED <<c, m>>)
    /\ UNCHANGED <<d, opt>>

HdrKey ==
    /\ h.st = "KEY2"
    /\ Reads("hdr", LAMBDA ch, g :
         HdrReturns(Delimit(h.pcp, ch, {":"}, Blanks \cup Ends),
                    [h EXCEPT !.key = h.pcp, !.pcp = <<>>, !.st = "SPC3"],
                    Stored(h, ch), "KEY", g))
    /\ UNCHANGED <<c, m, d, opt>>

\* VALUE: the cookie header has its own parser.
HdrCookie ==
    /\ run /\ who = "hdr" /\ h.st = "VALUE" /\ h.key = <<"c">>
    /\ h' = [h EXCEPT !.noins = TRUE]
    /\ Begin("cookie", a)
    /\ UNCHANGED <<c, m, d, res, opt>>

HdrValue ==
    /\ h.st = "VALUE" /\ h.key # <<"c">>
    /\ Reads("hdr", LAMBDA ch, g :
         LET r == Delimit(h.pcp, ch, Ends, {})
         IN  HdrReturns(r, [h EXCEPT !.val = h.pcp, !.pcp = <<>>, !.st = "EOL2A"],
                        Stored(h, ch), "VALUE", IF r = "OK" THEN Unget(g) ELSE g))
    /\ UNCHANGED <<c, m, d, opt>>

\* EOL2A: the pair is inserted, unless it was a cookie; a NULL key is an error.
HdrInsert ==
    /\ run /\ who = "hdr" /\ h.st = "EOL2A"
    /\ h' = [h EXCEPT !.noins = FALSE, !.key = <<>>, !.val = <<>>, !.st = "EOL2B",
                      !.tab = IF h.noins THEN @ ELSE Insert(@, h.key, <<h.val>>)]
    /\ UNCHANGED <<x, a, who, run, c, m, d, res, opt>>

HdrStep ==
    \/ HdrMethod \/ HdrTarget \/ HdrVersion \/ HdrBlanks \/ HdrUriDat \/ HdrEol
    \/ HdrLine1 \/ HdrLineEnd \/ HdrKeyLine \/ HdrKey \/ HdrCookie \/ HdrValue
    \/ HdrInsert
=============================================================================
