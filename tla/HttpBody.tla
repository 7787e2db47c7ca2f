------------------------------ MODULE HttpBody ------------------------------
(***************************************************************************)
(* The parsers that http_inhdr_t and http_parser_cgi_t hand the connection *)
(* over to: cgi_t for the query string, the cookies and a url-encoded      *)
(* body, cgi_mpfd_t and contdisp_parser_t for a multipart body,            *)
(* async_raw_post_parser_t for a raw one.                                  *)
(***************************************************************************)
EXTENDS HttpParse

----------------------------------------------------------------------------
(* cgi_t *)

KeyState(q)    == q.pstate \in {"KEY", "CKEY"}
CookieState(q) == q.pstate \in {"CKEY", "CVAL"}
StateTrans(s)  == CASE s = "KEY" -> "VAL" [] s = "VAL" -> "KEY"
                    [] s = "CKEY" -> "CVAL" [] OTHER -> "CKEY"

\* parse_key_or_val, one character: what it means to the parser w in state q.
CgiChar(w, q, ch) ==
    IF ch \in {EOFCHAR, WAITCHAR} THEN ch
    ELSE IF <<ch, q.pstate>> \in {<<"&", "KEY">>, <<";", "CKEY">>} THEN "SEPARATOR"
    ELSE IF <<ch, q.pstate>> \in {<<"&", "VAL">>, <<";", "CVAL">>, <<"=", "KEY">>, <<"=", "CKEY">>}
      THEN "OK"
    ELSE IF (w = "url" /\ ch \in Blanks \cup Ends) \/ (CookieState(q) /\ ch = "lf") THEN "EOF"
    ELSE IF ch = "cr" /\ CookieState(q) THEN "SKIP"
    ELSE IF ch = "%" THEN "HEX"
    ELSE "STORE"

\* A blank or a LF that ends the parse is put back; a CR is not.
CgiUnget(g, tok, ch) ==
    IF tok = "EOF" /\ ch \notin {EOFCHAR, "cr"} THEN Unget(g) ELSE g

\* process_parsed_key_or_val: s holds the word, or is empty for a NULL word.
CgiProcess(q, tok, s) ==
    CASE tok = "SEPARATOR" ->
           [q EXCEPT !.tab = Insert(@, IF s = <<>> THEN <<>> ELSE s[1], <<>>)]
      [] tok = "OK" /\ KeyState(q) ->
           [q EXCEPT !.key = IF s = <<>> THEN <<>> ELSE s[1], !.pstate = StateTrans(@)]
      [] tok = "OK" /\ ~KeyState(q) ->
           [q EXCEPT !.tab = Insert(@, q.key, s), !.key = <<>>, !.pstate = StateTrans(@)]
      [] OTHER ->
           [q EXCEPT !.tab = IF KeyState(q)
                               THEN Insert(@, IF s = <<>> THEN <<>> ELSE s[1], <<>>)
                               ELSE Insert(@, q.key, s)]

\* finish_parse of a cgi_t: the header parser goes on after the url or the
\* cookies (ext_parse_cb), the request is complete after the body.
CgiFinished(w, g) ==
    \/ w = "post" /\ FinishReq("OK", g) /\ UNCHANGED h
    \/ /\ w # "post"
       /\ h' = [h EXCEPT !.st = IF w = "url" THEN "SPC2" ELSE "EOL2A"]
       /\ Begin("hdr", g) /\ UNCHANGED res

CgiSet(w, q) == c' = [c EXCEPT ![w] = q]

\* A word longer than the scratch buffer may grow to is dropped.
CgiOverflow(w) ==
    /\ run /\ who = w /\ ~c[w].inhex /\ Len(c[w].pcp) >= CgiScratch
    /\ CgiSet(w, [c[w] EXCEPT !.pcp = <<>>, !.drv = TRUE])
    /\ UNCHANGED <<x, a, who, run, h, m, d, res, opt>>

\* parse_still_waiting: blanks before the name of a cookie.
SkipsBlanks(q) == q.drv /\ q.pstate = "CKEY" /\ q.pcp = <<>>

CgiBlanks(w) ==
    /\ SkipsBlanks(c[w])
    /\ Reads(w, LAMBDA ch, g :
         /\ Goes(HwsAfter(g, ch))
         /\ run' = (ch # WAITCHAR)
         /\ CgiSet(w, [c[w] EXCEPT !.drv = ch \in Blanks \cup {WAITCHAR}]))
    /\ UNCHANGED <<who, h, m, d, res, opt>>

CgiRead(w) ==
    /\ ~SkipsBlanks(c[w]) /\ ~c[w].inhex /\ Len(c[w].pcp) < CgiScratch
    /\ Reads(w, LAMBDA ch, g :
         LET q == [c[w] EXCEPT !.drv = FALSE]
             t == CgiChar(w, q, ch)
         IN  \/ /\ t \in {"STORE", "SKIP", "HEX"}
                /\ CgiSet(w, [q EXCEPT !.inhex = t = "HEX",
                                       !.pcp = IF t = "STORE"
                                                 THEN Append(@, IF ch = "+" THEN "sp" ELSE ch)
                                                 ELSE @])
                /\ Goes(g) /\ UNCHANGED <<who, run, h, res>>
             \/ /\ t = "WAIT"
                /\ CgiSet(w, [q EXCEPT !.drv = TRUE])
                /\ Goes(g) /\ run' = FALSE /\ UNCHANGED <<who, h, res>>
             \/ /\ t \in {"OK", "SEPARATOR"}
                /\ CgiSet(w, [CgiProcess(q, t, <<q.pcp>>) EXCEPT !.pcp = <<>>, !.drv = TRUE])
                /\ Goes(g) /\ UNCHANGED <<who, run, h, res>>
             \/ /\ t = "EOF"
                /\ CgiSet(w, [CgiProcess(q, t, <<q.pcp>>) EXCEPT !.pcp = <<>>, !.drv = TRUE])
                /\ CgiFinished(w, CgiUnget(g, t, ch)))
    /\ UNCHANGED <<m, d, opt>>

\* parse_hexchar: a broken escape leaves '%' and the last digit read.
HexEnd(q, s) ==
    [q EXCEPT !.pcp = @ \o s, !.inhex = FALSE, !.reent = FALSE,
              !.hexi = 0, !.hexh = 0, !.hexl = <<>>]

\* An escape that was interrupted by a wait (reent) and is cut off by the end of
\* the input returns before the word is made: its value is NULL.
CgiHex(w) ==
    /\ c[w].inhex
    /\ Reads(w, LAMBDA ch, g :
         LET q == c[w]
         IN  \/ /\ ch = WAITCHAR
                /\ CgiSet(w, [q EXCEPT !.reent = TRUE, !.drv = TRUE])
                /\ Goes(g) /\ run' = FALSE /\ UNCHANGED <<who, h, res>>
             \/ /\ ch = EOFCHAR
                /\ CgiSet(w, [CgiProcess(q, "EOF", IF q.reent THEN <<>> ELSE <<q.pcp>>)
                                EXCEPT !.pcp = IF q.reent THEN @ ELSE <<>>, !.drv = TRUE])
                /\ CgiFinished(w, g)
             \/ /\ ch \notin {WAITCHAR, EOFCHAR} \cup DOMAIN HexVal
                /\ CgiSet(w, HexEnd(q, <<"%">> \o IF Len(q.pcp) + 2 < CgiScratch
                                                    THEN q.hexl ELSE <<>>))
                /\ Goes(Unget(g)) /\ UNCHANGED <<who, run, h, res>>
             \/ /\ ch \in DOMAIN HexVal
                /\ CgiSet(w, IF q.hexi = 0
                               THEN [q EXCEPT !.hexi = 1, !.hexh = HexVal[ch], !.hexl = <<ch>>]
                               ELSE HexEnd(q, <<ToString(16 * q.hexh + HexVal[ch])>>))
                /\ Goes(g) /\ UNCHANGED <<who, run, h, res>>)
    /\ UNCHANGED <<m, d, opt>>

CgiStep == \E w \in {"url", "cookie", "post"} :
    CgiOverflow(w) \/ CgiBlanks(w) \/ CgiRead(w) \/ CgiHex(w)

----------------------------------------------------------------------------
(* async_raw_post_parser_t: dump takes bytes until the length or the end *)

RawStep ==
    /\ Reads("raw", LAMBDA ch, g :
         \/ ch = WAITCHAR /\ Goes(g) /\ run' = FALSE /\ UNCHANGED <<who, res, m>>
         \/ ch = EOFCHAR /\ FinishReq("OK", g) /\ UNCHANGED m
         \/ /\ ch \notin {WAITCHAR, EOFCHAR}
            /\ m' = [m EXCEPT !.pcp = Append(@, ch)]
            /\ Goes(g) /\ UNCHANGED <<who, run, res>>)
    /\ UNCHANGED <<h, c, d, opt>>

----------------------------------------------------------------------------
(* kmp_matcher_t: after match (ch), the longest prefix of the pattern that  *)
(* ends the text read so far                                                *)

KmpNext(pat, q, ch) ==
    LET text == SubSeq(pat, 1, q) \o <<ch>>
        fits == {k \in 0 .. Len(text) : k <= Len(pat) /\
                   SubSeq(pat, 1, k) = SubSeq(text, Len(text) - k + 1, Len(text))}
    IN  CHOOSE k \in fits : \A j \in fits : j <= k

----------------------------------------------------------------------------
(* cgi_mpfd_t::parse_guts *)

\* A scan of the multipart parser returned r.  On OVERFLOW and NOMATCH parse_guts
\* just returns: the next bytes call it again.
MpfdReturns(r, ok, more, head, g) ==
    \/ r = "OK" /\ m' = ok /\ Goes(g) /\ UNCHANGED <<who, run, res>>
    \/ r = "AGAIN" /\ m' = more /\ Goes(g) /\ UNCHANGED <<who, run, res>>
    \/ r \in {"WAIT", "OVERFLOW"} /\ m' = [more EXCEPT !.st = head] /\ Goes(g)
                                  /\ run' = FALSE /\ UNCHANGED <<who, res>>
    \/ r = "ERR" /\ m' = m /\ FinishReq("BAD_REQUEST", g)
    \/ r = "EOF" /\ m' = m
         /\ FinishReq(IF m.st = "EOF" THEN "OK" ELSE "UNEXPECTED_EOF", g)

\* START and SEARCH: look for the innermost boundary.  A new search resets the
\* matcher and, in SEARCH, starts the mirror that keeps the part's data.
NewSearch == m.cbm # Len(m.bounds) \/ m.ended

MpfdSearchStart ==
    /\ run /\ who = "mpfd" /\ m.st \in {"START", "SEARCH"} /\ m.bounds # <<>> /\ NewSearch
    /\ m' = [m EXCEPT !.ended = FALSE, !.cbm = Len(m.bounds), !.q = 0]
    /\ a' = IF m.st = "SEARCH" THEN Mirror(a) ELSE a
    /\ UNCHANGED <<x, who, run, h, c, d, res, opt>>

\* The part that a boundary ends.
PartDone(dat) ==
    IF m.ckey = <<>> THEN m
    ELSE IF m.attach
      THEN [m EXCEPT !.files = Insert(@, m.ckey, <<<<m.filename, dat>>>>), !.ckey = <<>>]
      ELSE [m EXCEPT !.tab = Insert(@, m.ckey, <<dat>>), !.ckey = <<>>]

MpfdSearch ==
    /\ m.st \in {"START", "SEARCH"} /\ m.bounds # <<>> /\ ~NewSearch
    /\ Reads("mpfd", LAMBDA ch, g :
         LET pat == m.bounds[Len(m.bounds)]
             q   == KmpNext(pat, m.q, ch)
         IN  IF ch = WAITCHAR THEN MpfdReturns("WAIT", m, m, m.st, g)
             ELSE IF ch = EOFCHAR THEN MpfdReturns("EOF", m, m, m.st, g)
             ELSE IF q < Len(pat)
               THEN MpfdReturns("AGAIN", m, [m EXCEPT !.q = q], m.st, g)
             ELSE IF m.st = "START"
               THEN MpfdReturns("OK", [m EXCEPT !.ended = TRUE, !.st = "EOL0"], m, m.st, g)
               ELSE MpfdReturns("OK",
                      [PartDone(Mirrored2(g, Len(pat))) EXCEPT !.ended = TRUE, !.st = "SEARCH2"],
                      m, m.st, EndMirror(g)))
    /\ UNCHANGED <<h, c, d, opt>>

\* No boundary is left: only white space may follow.
MpfdLast ==
    /\ run /\ who = "mpfd" /\ m.st \in {"START", "SEARCH"} /\ m.bounds = <<>>
    /\ IF m.st = "SEARCH"
         THEN m' = [m EXCEPT !.st = "EOF"] /\ UNCHANGED <<x, a, who, run, res>>
         ELSE m' = m /\ FinishReq("BAD_REQUEST", a)
    /\ UNCHANGED <<h, c, d, opt>>

\* EOL0, EOL1A, SEARCH3: a line end is required.
MpfdLineEnd ==
    /\ m.st \in {"EOL0", "EOL1A", "SEARCH3"}
    /\ Reads("mpfd", LAMBDA ch, g :
         LET s == [m EXCEPT !.needLF = NeedLF(@, ch)]
         IN  MpfdReturns(Required(Crlf(m.needLF, ch)),
                         [s EXCEPT !.st = CASE m.st = "EOL0" -> "KEY"
                                            [] m.st = "EOL1A" -> "EOL1B"
                                            [] OTHER -> m.nxt],
                         s, m.st, CrlfUnget(g, ch)))
    /\ UNCHANGED <<h, c, d, opt>>

\* KEY: an empty line ends the part's headers.
MpfdKeyLine ==
    /\ m.st = "KEY"
    /\ Reads("mpfd", LAMBDA ch, g :
         LET r == Crlf(m.needLF, ch)
             s == [m EXCEPT !.needLF = NeedLF(@, ch)]
         IN  MpfdReturns(IF r = "NOMATCH" THEN "AGAIN" ELSE r,
                         [s EXCEPT !.st = IF m.toStart THEN "START" ELSE "SEARCH",
                                   !.toStart = FALSE],
                         [s EXCEPT !.st = IF r = "NOMATCH" THEN "KEY2" ELSE "KEY"],
                         "KEY", CrlfUnget(g, ch)))
    /\ UNCHANGED <<h, c, d, opt>>

KeyType(k) == CASE k = <<"d">> -> "DISPOSITION" [] k = <<"t">> -> "TYPE" [] OTHER -> "OTHER"

MpfdKey ==
    /\ m.st = "KEY2"
    /\ Reads("mpfd", LAMBDA ch, g :
         MpfdReturns(Delimit(m.pcp, ch, {":"}, Blanks \cup Ends),
                     [m EXCEPT !.kt = KeyType(m.pcp), !.pcp = <<>>, !.st = "SPC"],
                     Stored(m, ch), "KEY", g))
    /\ UNCHANGED <<h, c, d, opt>>

\* SPC: each time skip_hws returns, the disposition parser is reset, and with it
\* the abuf's count of blanks.
MpfdBlanks ==
    /\ m.st = "SPC"
    /\ Reads("mpfd", LAMBDA ch, g :
         LET r == HwsStatus(g, ch, 1)
         IN  /\ MpfdReturns(r, [m EXCEPT !.st = "VALUE"], m, "SPC",
                            IF r = "AGAIN" THEN HwsAfter(g, ch)
                                           ELSE ResetAbuf(HwsAfter(g, ch)))
             /\ d' = IF r = "AGAIN" THEN d
                     ELSE [NewDisp EXCEPT !.typscr = d.typscr, !.fscr = d.fscr])
    /\ UNCHANGED <<h, c, opt>>

MpfdDisposition ==
    /\ run /\ who = "mpfd" /\ m.st = "VALUE" /\ m.kt = "DISPOSITION"
    /\ Begin("cdp", a)
    /\ UNCHANGED <<h, c, m, d, res, opt>>

MpfdValue ==
    /\ m.st = "VALUE" /\ m.kt # "DISPOSITION"
    /\ Reads("mpfd", LAMBDA ch, g :
         LET r == Delimit(m.pcp, ch, Ends, {})
             s == [m EXCEPT !.pcp = <<>>, !.st = "EOL1A"]
             multi == m.pcp # <<>> /\ m.pcp[1] = "m"
         IN  MpfdReturns(r,
               IF m.kt # "TYPE" THEN s
               ELSE IF ~multi THEN [s EXCEPT !.typ = m.pcp]
               ELSE [s EXCEPT !.typ = m.pcp, !.toStart = TRUE,
                              !.bounds = Append(@, <<"-", "-">> \o Tail(m.pcp))],
               Stored(m, ch), "VALUE", IF r = "OK" THEN Unget(g) ELSE g))
    /\ UNCHANGED <<h, c, d, opt>>

\* EOL1B: what the disposition says of the part.
MpfdPart ==
    /\ run /\ who = "mpfd" /\ m.st = "EOL1B"
    /\ IF m.kt = "DISPOSITION" /\ d.typ = "NONE"
         THEN m' = m /\ FinishReq("BAD_REQUEST", a)
         ELSE /\ m' = IF m.kt # "DISPOSITION" THEN [m EXCEPT !.st = "KEY"]
                      ELSE [m EXCEPT !.st = "KEY", !.filename = d.filename,
                                     !.attach = d.typ = "ATTACH" \/ d.filename # <<>>,
                                     !.ckey = IF d.typ = "FORMDAT" THEN d.name ELSE @]
              /\ UNCHANGED <<x, a, who, run, res>>
    /\ UNCHANGED <<h, c, d, opt>>

\* SEARCH2, parse_2dash: two dashes after a boundary close it.  The count of
\* dashes is local to the call.
MpfdDashes ==
    /\ m.st = "SEARCH2"
    /\ Reads("mpfd", LAMBDA ch, g :
         IF ch = WAITCHAR THEN MpfdReturns("WAIT", m, [m EXCEPT !.ndash = 0], "SEARCH2", g)
         ELSE IF ch = EOFCHAR THEN MpfdReturns("EOF", m, m, "SEARCH2", g)
         ELSE IF ch = "-" /\ m.ndash = 0
           THEN MpfdReturns("AGAIN", m, [m EXCEPT !.ndash = 1], "SEARCH2", g)
         ELSE IF ch = "-"
           THEN MpfdReturns("OK", [m EXCEPT !.ndash = 0, !.st = "SEARCH3", !.nxt = "SEARCH",
                                     !.cbm = 0, !.bounds = SubSeq(@, 1, Len(@) - 1)],
                            m, "SEARCH2", g)
           ELSE MpfdReturns("OK", [m EXCEPT !.ndash = 0, !.st = "SEARCH3", !.nxt = "KEY"],
                            m, "SEARCH2", Unget(g)))
    /\ UNCHANGED <<h, c, d, opt>>

\* EOF, skip_ws: a character that is not white space leaves the last state
\* behind, and the loop of parse_guts then never ends (SPIN).
MpfdEnd ==
    /\ m.st = "EOF"
    /\ Reads("mpfd", LAMBDA ch, g :
         LET r == IF ch \in {WAITCHAR, EOFCHAR} THEN ch
                  ELSE IF ch \in Blanks \cup Ends THEN "AGAIN" ELSE "OK"
         IN  MpfdReturns(r, [m EXCEPT !.st = "SPIN"], m, "EOF", IF r = "OK" THEN Unget(g) ELSE g))
    /\ UNCHANGED <<h, c, d, opt>>

MpfdStep ==
    \/ MpfdSearchStart \/ MpfdSearch \/ MpfdLast \/ MpfdLineEnd \/ MpfdKeyLine
    \/ MpfdKey \/ MpfdBlanks \/ MpfdDisposition \/ MpfdValue \/ MpfdPart
    \/ MpfdDashes \/ MpfdEnd

----------------------------------------------------------------------------
(* contdisp_parser_t::parse_guts *)

\* finish_parse: the multipart parser goes on, or refuses the request.
DispReturns(r, ok, more, head, g) ==
    \/ r = "OK" /\ d' = ok /\ Goes(g) /\ UNCHANGED <<who, run, res, m>>
    \/ r = "AGAIN" /\ d' = more /\ Goes(g) /\ UNCHANGED <<who, run, res, m>>
    \/ r \in {"WAIT", "OVERFLOW"} /\ d' = [more EXCEPT !.st = head] /\ Goes(g)
                                  /\ run' = FALSE /\ UNCHANGED <<who, res, m>>
    \/ r \in {"ERR", "EOF"} /\ d' = d /\ UNCHANGED m /\ FinishReq("BAD_REQUEST", g)
    \/ r = "DONE" /\ d' = ok /\ m' = [m EXCEPT !.st = "EOL1A"] /\ Begin("mpfd", g)
                  /\ UNCHANGED res

\* START and NAME_VAL: up to the stop character, which is taken.
DispWord ==
    /\ d.st \in {"START", "NAME_VAL"}
    /\ Reads("cdp", LAMBDA ch, g :
         LET r == Delimit(d.pcp, ch, {IF d.st = "START" THEN ";" ELSE "q"}, Ends)
         IN  DispReturns(r,
               IF d.st = "START"
                 THEN [d EXCEPT !.typscr = d.pcp, !.pcp = <<>>, !.st = "SEP1"]
                 ELSE [d EXCEPT !.name = d.pcp, !.pcp = <<>>, !.st = "SEP2A"],
               Stored(d, ch), d.st, IF r = "ERR" THEN Unget(g) ELSE g))
    /\ UNCHANGED <<h, c, opt>>

\* SEP1: the type is decided each time skip_hws returns; an attachment moves the
\* state on to the filename's key, and past it unless the scan has to wait.
DispSep1 ==
    /\ d.st = "SEP1"
    /\ Reads("cdp", LAMBDA ch, g :
         LET r == HwsStatus(g, ch, 1)
             att == d.typscr = <<"g">>
             typ == CASE d.typscr = <<"f">> -> "FORMDAT" [] att -> "ATTACH" [] OTHER -> "NONE"
         IN  DispReturns(r,
               [d EXCEPT !.typ = typ, !.st = IF att THEN "FILENAME_VAL" ELSE "NAME_KEY"],
               IF r = "AGAIN" THEN d ELSE [d EXCEPT !.typ = typ],
               IF att THEN "FILENAME_KEY" ELSE "SEP1", HwsAfter(g, ch)))
    /\ UNCHANGED <<h, c, opt>>

\* force_match: NAME_KEY and FILENAME_KEY; a wait remembers the place.
DispMatch ==
    /\ d.st \in {"NAME_KEY", "FILENAME_KEY"}
    /\ Reads("cdp", LAMBDA ch, g :
         LET s == <<IF d.st = "NAME_KEY" THEN "n" ELSE "F", "q">>
             r == IF ch = WAITCHAR THEN "WAIT"
                  ELSE IF ch # s[d.fm + 1] THEN "ERR"
                  ELSE IF d.fm = 1 THEN "OK" ELSE "AGAIN"
         IN  DispReturns(r,
               [d EXCEPT !.fm = 0, !.st = IF @ = "NAME_KEY" THEN "NAME_VAL" ELSE "FILENAME_VAL"],
               IF r = "AGAIN" THEN [d EXCEPT !.fm = 1] ELSE d, d.st, g))
    /\ UNCHANGED <<h, c, opt>>

\* SEP2A: the line ends, or a ';' and the filename follow (SEP2B, SEP2C).
DispSep2 ==
    /\ d.st \in {"SEP2A", "SEP2B", "SEP2C"}
    /\ Reads("cdp", LAMBDA ch, g :
         \/ d.st = "SEP2A" /\ DispReturns(CASE Eol(ch) = "OK" -> "DONE"
                                            [] Eol(ch) = "WAIT" -> "WAIT" [] OTHER -> "OK",
                                          [d EXCEPT !.st = IF Eol(ch) = "OK" THEN @ ELSE "SEP2B"],
                                          d, "SEP2A", Unget(g))
         \/ d.st = "SEP2B" /\ DispReturns(CASE ch = ";" -> "OK" [] ch \in {WAITCHAR, EOFCHAR} -> ch
                                            [] OTHER -> "ERR",
                                          [d EXCEPT !.st = "SEP2C"], d, "SEP2B",
                                          IF ch = ";" THEN g ELSE Unget(g))
         \/ d.st = "SEP2C" /\ DispReturns(HwsStatus(g, ch, 0), [d EXCEPT !.st = "FILENAME_KEY"],
                                          d, "SEP2C", HwsAfter(g, ch)))
    /\ UNCHANGED <<h, c, opt>>

\* FILENAME_VAL: up to the CR, without its last character.  A bare LF ends the
\* value too, but then the name is that of the line scanned before.
DispFilename ==
    /\ d.st = "FILENAME_VAL"
    /\ Reads("cdp", LAMBDA ch, g :
         LET r == Delimit(d.pcp, ch, Ends, {})
             s == IF ch = "cr" THEN d.pcp ELSE d.fscr
         IN  DispReturns(IF r = "OK" THEN "DONE" ELSE r,
               [d EXCEPT !.fscr = s, !.filename = SubSeq(s, 1, Len(s) - 1),
                         !.pcp = IF ch = "cr" THEN <<>> ELSE @],
               Stored(d, ch), "FILENAME_VAL", IF r = "OK" THEN Unget(g) ELSE g))
    /\ UNCHANGED <<h, c, opt>>

DispStep == DispWord \/ DispSep1 \/ DispMatch \/ DispSep2 \/ DispFilename

ParseStep == HdrStep \/ CgiStep \/ RawStep \/ MpfdStep \/ DispStep
=============================================================================
