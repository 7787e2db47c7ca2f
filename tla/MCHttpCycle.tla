---------------------------- MODULE MCHttpCycle ----------------------------
(***************************************************************************)
(* One connection of each kind, cut into pieces in every way: a query      *)
(* string and a second request behind it, cookies, url-encoded, raw and    *)
(* multipart bodies, and requests that are refused.                        *)
(***************************************************************************)
EXTENDS HttpCycle

CR == <<"cr", "lf">>
LF == <<"lf">>
NoOpt == [union |-> FALSE, raw |-> FALSE, mpfd |-> FALSE]

\* What a request says when it says nothing but its target and version.
Plain(vers) ==
    [st |-> "OK", target |-> <<"u">>, vers |-> vers, hdrs |-> << >>, url |-> << >>,
     cookie |-> << >>, post |-> << >>, mpfd |-> << >>, files |-> << >>, raw |-> <<>>]

Refused(st) == <<[st |-> st]>>

One(bytes, want, o, all) ==
    [bytes |-> bytes, want |-> [k \in DOMAIN want |-> {want[k]}], opt |-> o, all |-> all, limit |-> 0]

Start(method) == <<method, "sp", "u", "sp", "v">>
Header(key, val, eol) == <<key, ":", "sp">> \o val \o eol
Post(headers, body) == Start("P") \o LF \o headers \o LF \o body
Said(headers) == [Plain(<<"v">>) EXCEPT !.hdrs = headers]

\* GET /u?b=w&e v, kept alive, and a GET behind it.
Query(all) ==
    One(<<"G", "sp", "u", "?", "b", "=", "w", "&", "e", "sp", "v">> \o CR
          \o Header("k", <<"a">>, CR) \o CR \o <<"G", "sp", "u">> \o CR \o CR,
        <<[Said(<<"k">> :> <<<<"a">>>>)
             EXCEPT !.url = <<"b">> :> <<<<"w">>>> @@ <<"e">> :> <<>>],
          Plain(<<>>)>>, NoOpt, all)

\* Two cookies, the second after a blank.
Cookies ==
    One(Start("G") \o CR \o Header("c", <<"b", "=", "w", ";", "sp", "e", "=", "y">>, CR) \o CR,
        <<[Plain(<<"v">>)
             EXCEPT !.cookie = <<"b">> :> <<<<"w">>>> @@ <<"e">> :> <<<<"y">>>>]>>,
        NoOpt, TRUE)

\* A url-encoded body that ends inside an escape, and one with a bad escape.
Escapes ==
    One(Post(Header("l", <<"8">>, LF), <<"b", "=", "%", "4", "1", "+", "%", "4">>),
        <<[Said(<<"l">> :> <<<<"8">>>>) EXCEPT !.post = <<"b">> :> <<<<"65", "sp">>>>]>>,
        NoOpt, TRUE)

BadEscape ==
    One(Post(Header("l", <<"5">>, LF), <<"%", "4", "z", "&", "e">>),
        <<[Said(<<"l">> :> <<<<"5">>>>)
             EXCEPT !.post = <<"%", "4", "z">> :> <<>> @@ <<"e">> :> <<>>]>>,
        NoOpt, TRUE)

\* A word longer than the scratch buffer is dropped.
LongWord ==
    One(Post(Header("l", <<"8">>, LF), <<"b", "b", "b", "b", "b", "=", "w", "w">>),
        <<[Said(<<"l">> :> <<<<"8">>>>) EXCEPT !.post = <<"b">> :> <<<<"w", "w">>>>]>>,
        NoOpt, TRUE)

\* The body's pairs join those of the url.
Union ==
    One(<<"P", "sp", "u", "?", "b", "sp", "v">> \o LF \o Header("l", <<"3">>, LF) \o LF
          \o <<"e", "=", "y">>,
        <<[Said(<<"l">> :> <<<<"3">>>>)
             EXCEPT !.url = <<"b">> :> <<>>,
                    !.post = <<"b">> :> <<>> @@ <<"e">> :> <<<<"y">>>>]>>,
        [NoOpt EXCEPT !.union = TRUE], TRUE)

Raw ==
    One(Post(Header("l", <<"3">>, LF), <<"=", "%", "y">>),
        <<[Said(<<"l">> :> <<<<"3">>>>) EXCEPT !.raw = <<"=", "%", "y">>]>>,
        [NoOpt EXCEPT !.raw = TRUE], TRUE)

\* Multipart bodies: a field, a file, parts within a part, an epilogue.
MultiOpt == [NoOpt EXCEPT !.mpfd = TRUE]
TypeHdr  == Header("t", <<"m", "z">>, LF)
SaidType == Said(<<"t">> :> <<<<"m", "z">>>>)
Bound    == <<"-", "-", "z">>

Field ==
    One(Post(TypeHdr,
          Bound \o CR \o Header("d", <<"f", ";", "sp", "n", "q", "b", "q">>, LF) \o LF
          \o <<"-">> \o CR \o Bound \o <<"-", "-">> \o LF),
        <<[SaidType EXCEPT !.mpfd = <<"b">> :> <<<<"-">>>>]>>, MultiOpt, TRUE)

File ==
    One(Post(TypeHdr,
          Bound \o LF \o Header("d", <<"f", ";", "sp", "n", "q", "b", "q", ";", "F", "q", "y", "q">>, CR)
          \o LF \o Bound \o LF \o LF \o Bound \o <<"-", "-">> \o LF),
        <<[SaidType EXCEPT !.files = <<"b">> :> <<<<<<"y">>, <<>>>>>>]>>, MultiOpt, TRUE)

Nested ==
    One(Post(TypeHdr,
          Bound \o LF \o Header("t", <<"m", "y">>, LF) \o LF \o <<"-", "-", "y">> \o LF
          \o Header("d", <<"f", ";", "sp", "n", "q", "b", "q">>, LF) \o LF
          \o <<"x", "-", "-", "y", "-", "-">> \o LF \o Bound \o <<"-", "-">> \o LF),
        <<[SaidType EXCEPT !.mpfd = <<"b">> :> <<<<"x">>>>]>>, MultiOpt, TRUE)

\* An attachment is named by its form's field, which it has not got here.
Attached ==
    One(Post(TypeHdr, Bound \o LF \o Header("d", <<"g", ";", "sp", "F", "q", "e", "q">>, CR)
          \o LF \o Bound \o <<"-", "-">> \o LF),
        <<SaidType>>, MultiOpt, TRUE)

Epilogue ==
    One(Post(TypeHdr, Bound \o LF \o LF \o Bound \o <<"-", "-">> \o LF \o <<"y">>),
        <<SaidType>>, MultiOpt, TRUE)

BadPart ==
    One(Post(TypeHdr, Bound \o LF \o Header("d", <<"f", "cr">>, LF)),
        Refused("BAD_REQUEST"), MultiOpt, TRUE)

ShortBody ==
    One(Post(TypeHdr \o Header("l", <<"3">>, LF), Bound), Refused("UNEXPECTED_EOF"),
        MultiOpt, TRUE)

NoParts == One(Post(TypeHdr, Bound), Refused("NOT_ALLOWED"), NoOpt, TRUE)

BadMethod == One(Start("X") \o LF \o LF, Refused("NOT_ALLOWED"), NoOpt, TRUE)
BadLine   == One(<<"u", "sp">>, Refused("BAD_REQUEST"), NoOpt, FALSE)
BadKey    == One(Start("G") \o LF \o <<"b", "sp">> \o LF \o LF, Refused("BAD_REQUEST"), NoOpt, TRUE)
LongKey   == One(Start("G") \o LF \o <<"b", "b", "b", "b", "b">> \o LF \o LF,
                 Refused("TOO_BIG"), NoOpt, TRUE)
LongUri   == One(<<"G", "sp", "u", "u", "u", "u", "u", "u">>, Refused("URI_TOO_BIG"), NoOpt, FALSE)
LongBody  == One(Post(Header("l", <<"9">>, LF), <<>>), Refused("NOT_ALLOWED"), NoOpt, TRUE)

\* More bytes than the service's connection may take, unless okd takes them.
OverLimit ==
    [One(Start("G") \o LF \o Header("b", <<"y">>, LF) \o LF, <<>>, NoOpt, FALSE)
       EXCEPT !.limit = 4,
              !.want = <<{Said(<<"b">> :> <<<<"y">>>>), [st |-> "TOO_BIG"]}>>]

MCScenarios ==
    {Query(TRUE), Query(FALSE), Cookies, Escapes, BadEscape, LongWord, Union, Raw,
     Field, File, Nested, Attached, Epilogue, BadPart, ShortBody, NoParts, BadMethod, BadLine,
     BadKey, LongKey, LongUri, LongBody, OverLimit}

MCHexVal == ("4" :> 4) @@ ("1" :> 1)
MCNumVal == ("3" :> 3) @@ ("5" :> 5) @@ ("8" :> 8) @@ ("9" :> 99)
=============================================================================
