--------------------------- MODULE RequestParser ---------------------------
(***************************************************************************)
(* The request parser of 2-term/3.3 (phr_parse_request() of                *)
(* picohttpparser.c) on what one read() of a connection returned.          *)
(*                                                                         *)
(* A character is its class, the only thing the parser looks at; the       *)
(* version literal is a parameter.  A function of the parser returns the   *)
(* position after what it has read, Failed or Partial.  Positions count    *)
(* from 0.  The strings handed back (method, path, names, values) are      *)
(* left out.                                                               *)
(***************************************************************************)
EXTENDS Integers, Sequences, SequencesExt, FiniteSetsExt

CONSTANTS
    VERSION,        \* the literal, "HTTP/1." in the source: no blanks in it
    MAX_HEADERS,    \* 100 in the source
    Beginnings,     \* bound: how the reads looked at begin ...
    MORE            \* ... and how many characters follow

Chars == {"1",      \* a digit, which is also a token character
          "a",      \* another token character
          "/",      \* printable, or above 0x7f, and not a token character
          ":", "SP", "HT", "CR", "LF",
          "CTL"}    \* DEL or another control character
TokenChars == {"1", "a"}
Blanks == {"SP", "HT"}
Controls == {"HT", "CR", "LF", "CTL"}

ASSUME ParserAssumption ==
    /\ VERSION \in Seq(Chars \ (Controls \cup {"SP"}))
    /\ MAX_HEADERS \in Nat
    /\ Beginnings \subseteq Seq(Chars)
    /\ MORE \in Nat

Failed == -1
Partial == -2

(* What lies behind the characters received is no character at all.        *)
CharAt(buf, x) == IF x < Len(buf) THEN buf[x + 1] ELSE "BEYOND"

(* The first position from x on with a character of S, or the end.         *)
Scan(buf, x, S) == Min({y \in x .. Len(buf) : y = Len(buf) \/ CharAt(buf, y) \in S})

Then(r, F(_)) == IF r < 0 THEN r ELSE F(r)

(* CHECK_EOF().                                                            *)
CheckEof(buf, x) == IF x = Len(buf) THEN Partial ELSE x

(* EXPECT_CHAR('\012').                                                    *)
ExpectLf(buf, x) ==
    Then(CheckEof(buf, x), LAMBDA y : IF CharAt(buf, y) = "LF" THEN y + 1 ELSE Failed)

(* The end of a line, CR LF or LF, at a position that has been checked.    *)
LineEnd(buf, x) ==
    CASE CharAt(buf, x) = "CR" -> ExpectLf(buf, x + 1)
      [] CharAt(buf, x) = "LF" -> x + 1
      [] OTHER -> Failed

(* parse_token(): up to next_char, over token characters only.             *)
ParseToken(buf, x, next_char) ==
    Then(CheckEof(buf, Scan(buf, x, (Chars \ TokenChars) \cup {next_char})),
         LAMBDA y : IF CharAt(buf, y) = next_char THEN y ELSE Failed)

(* ADVANCE_TOKEN(): up to a space, over anything but control characters.   *)
AdvanceToken(buf, x) ==
    Then(CheckEof(buf, Scan(buf, x, Controls \cup {"SP"})),
         LAMBDA y : IF CharAt(buf, y) = "SP" THEN y ELSE Failed)

(* The loops of parse_request() and parse_headers() over blanks.           *)
Skip(buf, x, S) == CheckEof(buf, Scan(buf, x, Chars \ S))

(* get_token_to_eol(): over anything but control characters; HT is fine.   *)
GetTokenToEol(buf, x) ==
    Then(CheckEof(buf, Scan(buf, x, Controls \ {"HT"})), LAMBDA y : LineEnd(buf, y))

ParseHttpVersion_OneChar(buf, x) ==
    LET d == x + Len(VERSION)
    IN  IF Len(buf) - x < Len(VERSION) + 1 THEN Partial
        ELSE IF SubSeq(buf, x + 1, d) = VERSION /\ CharAt(buf, d) = "1" THEN d + 1 ELSE Failed

(* parse_http_version(): the literal, a digit and one character more, so   *)
(* that its caller may look at that one without a check.                   *)
ParseHttpVersion(buf, x) ==
    LET d == x + Len(VERSION)
    IN  IF Len(buf) - x < Len(VERSION) + 2 THEN Partial
        ELSE IF SubSeq(buf, x + 1, d) = VERSION /\ CharAt(buf, d) = "1" THEN d + 1 ELSE Failed

HeaderName_AnyBlank(buf, x, n) ==
    IF CharAt(buf, x) \in Blanks THEN x
    ELSE Then(ParseToken(buf, x, ":"),
              LAMBDA y : IF y = x THEN Failed ELSE Skip(buf, y + 1, Blanks))

(* The name of header n and the blanks after its colon.  A line that       *)
(* begins with a blank continues the value of the header before it.        *)
HeaderName(buf, x, n) ==
    IF n # 0 /\ CharAt(buf, x) \in Blanks THEN x
    ELSE Then(ParseToken(buf, x, ":"),
              LAMBDA y : IF y = x THEN Failed ELSE Skip(buf, y + 1, Blanks))

(* A header and its line end.                                              *)
HeaderLine(buf, x, n) == Then(HeaderName(buf, x, n), LAMBDA y : GetTokenToEol(buf, y))

(* parse_headers() from each position, with room for so many headers.      *)
ParseHeaders(buf) ==
    LET from[room \in 0 .. MAX_HEADERS] == [x \in 0 .. Len(buf) |->
            IF x = Len(buf) THEN Partial
            ELSE IF CharAt(buf, x) \in {"CR", "LF"} THEN LineEnd(buf, x)
            ELSE IF room = 0 THEN Failed
            ELSE Then(HeaderLine(buf, x, MAX_HEADERS - room), LAMBDA y : from[room - 1][y])]
    IN  from

(* phr_parse_request(), with last_len = 0, and parse_request().            *)
PhrParseRequest(buf) ==
    LET method == Then(CheckEof(buf, 0),
                       LAMBDA x : IF CharAt(buf, x) \in {"CR", "LF"} THEN LineEnd(buf, x) ELSE x)
        methodEnd == Then(method, LAMBDA x : ParseToken(buf, x, "SP"))
        path == Then(methodEnd, LAMBDA x : Skip(buf, x + 1, {"SP"}))
        pathEnd == Then(path, LAMBDA x : AdvanceToken(buf, x))
        version == Then(pathEnd, LAMBDA x : Skip(buf, x + 1, {"SP"}))
        versionEnd == Then(version,
                           LAMBDA x : IF methodEnd = method \/ pathEnd = path THEN Failed
                                      ELSE ParseHttpVersion(buf, x))
        headers == Then(versionEnd, LAMBDA x : LineEnd(buf, x))
    IN  Then(headers, LAMBDA x : ParseHeaders(buf)[MAX_HEADERS][x])

(* The parser looks at a read before more than a request has arrived.      *)
ASSUME BeginningsAssumption ==
    \A s \in Beginnings : PhrParseRequest(s) \in {Failed, Partial, Len(s)}

-----------------------------------------------------------------------------
VARIABLES
    beginning,  \* how it begins; never changes
    received,   \* what read() returned
    pret        \* what phr_parse_request() returns for it

parserVars == <<beginning, received, pret>>

ParserInit ==
    /\ beginning \in Beginnings
    /\ received = beginning
    /\ pret = PhrParseRequest(received)

(* The read() returns one character more.  What follows an answer that is  *)
(* not Partial is left to the property Settled.                            *)
Receive(c) ==
    /\ pret = Partial
    /\ Len(received) < Len(beginning) + MORE
    /\ received' = Append(received, c)
    /\ pret' = PhrParseRequest(received')
    /\ UNCHANGED beginning

ParserNext == \E c \in Chars : Receive(c)

ParserSpec == ParserInit /\ [][ParserNext]_parserVars

-----------------------------------------------------------------------------
(* An answer is final: once the parser has said that a request is malformed *)
(* or complete, no character that arrives later changes its mind.  This    *)
(* fails as soon as one of its unchecked reads looks at something that has *)
(* not arrived.                                                            *)
Settled ==
    pret # Partial => \A c \in Chars : PhrParseRequest(Append(received, c)) = pret

(* What is accepted, line by line.                                         *)
Over(s, S) == Range(s) \subseteq S
Graphic == Chars \ Controls
Text == Graphic \cup {"HT"}
LineEnds(s) == {x \in 1 .. Len(s) : s[x] = "LF"}
LastLf(s, x) == Max({0} \cup {y \in LineEnds(s) : y < x})
Line(s, x) ==
    LET l == SubSeq(s, LastLf(s, x) + 1, x - 1)
    IN  IF l # <<>> /\ Last(l) = "CR" THEN Front(l) ELSE l
IsRequestLine(l) ==
    \E a, b, c, d \in 1 .. Len(l) :
        /\ 1 < a /\ a < b /\ b < c /\ c < d
        /\ Over(SubSeq(l, 1, a - 1), TokenChars)
        /\ Over(SubSeq(l, a, b - 1), {"SP"})
        /\ Over(SubSeq(l, b, c - 1), Graphic \ {"SP"})
        /\ Over(SubSeq(l, c, d - 1), {"SP"})
        /\ SubSeq(l, d, Len(l)) = VERSION \o <<"1">>

IsHeader(l, first) ==
    /\ Over(l, Text)
    /\ \/ ~ first /\ l[1] \in Blanks
       \/ \E a \in 2 .. Len(l) : Over(SubSeq(l, 1, a - 1), TokenChars) /\ l[a] = ":"

(* An empty line may come first; then there is the request line, then the  *)
(* headers, then an empty line.                                            *)
IsRequest(s) ==
    LET first == Min(LineEnds(s))
        start == IF Line(s, first) = <<>> THEN first ELSE 0
        ends == {x \in LineEnds(s) : x > start}
        request == Min(ends)
        headers == ends \ {request, Len(s)}
    IN  /\ LineEnds(s) # {} /\ Len(s) \in ends /\ Len(s) # request
        /\ IsRequestLine(Line(s, request))
        /\ \A x \in headers : Line(s, x) # <<>> /\ IsHeader(Line(s, x), LastLf(s, x) = request)
        /\ Cardinality(headers) <= MAX_HEADERS
        /\ Line(s, Len(s)) = <<>>

(* The parser, which never goes back and sees a prefix at a time, accepts  *)
(* exactly the requests, to their last character.                          *)
AcceptsRequests ==
    /\ pret \in {Failed, Partial, Len(received)}
    /\ pret = Len(received) <=> IsRequest(received)
=============================================================================
