------------------------ MODULE RequestParserProofs ------------------------
(***************************************************************************)
(* The request parser of 2-term/3.3 never looks at what has not arrived:   *)
(* an answer other than Partial stays, whatever follows.  And what it      *)
(* accepts is exactly a request, line by line.  For characters received in *)
(* any number, any literal without blanks and any MAX_HEADERS.             *)
(***************************************************************************)
EXTENDS RequestParser, LeastNumber, FiniteSetTheorems, TLAPS

Received == Seq(Chars)

(* More has been received in ext than in buf.                              *)
Extends(ext, buf) ==
    /\ Len(buf) <= Len(ext)
    /\ \A k \in 1 .. Len(buf) : ext[k] = buf[k]

(* r is an answer or a position in lo .. hi, and s agrees unless r is      *)
(* Partial.                                                                *)
Firm(r, s, lo, hi) == r \in {Failed, Partial} \cup (lo .. hi) /\ (r # Partial => s = r)

LEMMA CharKept ==
    ASSUME NEW buf \in Received, NEW ext \in Received, Extends(ext, buf),
           NEW x \in Nat, x < Len(buf)
    PROVE  CharAt(buf, x) \in Chars /\ CharAt(ext, x) = CharAt(buf, x)
<1>1. x + 1 \in 1 .. Len(buf) /\ Len(buf) \in Nat /\ Len(ext) \in Nat
  BY DEF Received
<1>2. buf[x + 1] \in Chars
  BY <1>1 DEF Received
<1> QED BY <1>1, <1>2 DEF CharAt, Extends

LEMMA ScanIs ==
    ASSUME NEW buf \in Received, NEW x \in 0 .. Len(buf), NEW S
    PROVE  /\ Scan(buf, x, S) \in x .. Len(buf)
           /\ Scan(buf, x, S) # Len(buf) => CharAt(buf, Scan(buf, x, S)) \in S
           /\ \A y \in x .. Scan(buf, x, S) - 1 : CharAt(buf, y) \notin S
<1> DEFINE T == {y \in x .. Len(buf) : y = Len(buf) \/ CharAt(buf, y) \in S}
<1>1. Len(buf) \in Nat
  BY DEF Received
<1>2. Len(buf) \in T /\ T \in SUBSET Nat
  BY <1>1
<1>3. Scan(buf, x, S) = CHOOSE m \in T : \A n \in T : m <= n
  BY DEF Scan, Min
<1> HIDE DEF T
<1>4. \E m \in T : \A n \in T : m <= n
  BY <1>2, Least
<1>5. Scan(buf, x, S) \in T /\ \A n \in T : Scan(buf, x, S) <= n
  BY <1>3, <1>4
<1> QED BY <1>1, <1>2, <1>5 DEF T

LEMMA ScanKept ==
    ASSUME NEW buf \in Received, NEW ext \in Received, Extends(ext, buf),
           NEW x \in 0 .. Len(buf), NEW S
    PROVE  /\ Firm(CheckEof(buf, Scan(buf, x, S)), CheckEof(ext, Scan(ext, x, S)),
                   x, Len(buf) - 1)
           /\ CheckEof(buf, Scan(buf, x, S)) # Failed
<1> DEFINE y == Scan(buf, x, S)
           z == Scan(ext, x, S)
<1>1. Len(buf) \in Nat /\ Len(ext) \in Nat /\ Len(buf) <= Len(ext) /\ x \in 0 .. Len(ext)
  BY DEF Received, Extends
<1>2. /\ y \in x .. Len(buf) /\ (y # Len(buf) => CharAt(buf, y) \in S)
      /\ \A n \in x .. y - 1 : CharAt(buf, n) \notin S
  BY ScanIs
<1>3. /\ z \in x .. Len(ext) /\ (z # Len(ext) => CharAt(ext, z) \in S)
      /\ \A n \in x .. z - 1 : CharAt(ext, n) \notin S
  BY <1>1, ScanIs
<1> HIDE DEF y, z
<1>4. ASSUME y # Len(buf) PROVE z = y
  <2>1. y < Len(buf) /\ CharAt(ext, y) = CharAt(buf, y)
    BY <1>1, <1>2, <1>4, CharKept
  <2>2. ~ y < z
    BY <1>1, <1>2, <1>3, <1>4, <2>1
  <2>3. ASSUME z < y PROVE FALSE
    <3>1. z < Len(buf) /\ z \in Nat /\ z \in x .. y - 1
      BY <1>1, <1>2, <1>3, <2>3
    <3>2. CharAt(ext, z) = CharAt(buf, z)
      BY <3>1, CharKept
    <3> QED BY <1>1, <1>2, <1>3, <3>1, <3>2
  <2> QED BY <1>1, <1>2, <1>3, <2>2, <2>3
<1> QED BY <1>1, <1>2, <1>4 DEF Firm, CheckEof, Failed, Partial, y, z

-----------------------------------------------------------------------------
(* The parts of the parser, one after the other.                           *)
LEMMA TokenKept ==
    ASSUME NEW buf \in Received, NEW ext \in Received, Extends(ext, buf),
           NEW x \in 0 .. Len(buf), NEW c
    PROVE  Firm(ParseToken(buf, x, c), ParseToken(ext, x, c), x, Len(buf) - 1)
<1> DEFINE r == CheckEof(buf, Scan(buf, x, (Chars \ TokenChars) \cup {c}))
           s == CheckEof(ext, Scan(ext, x, (Chars \ TokenChars) \cup {c}))
<1>1. Firm(r, s, x, Len(buf) - 1) /\ r # Failed
  BY ScanKept
<1>2. /\ ParseToken(buf, x, c) = IF r < 0 THEN r ELSE IF CharAt(buf, r) = c THEN r ELSE Failed
      /\ ParseToken(ext, x, c) = IF s < 0 THEN s ELSE IF CharAt(ext, s) = c THEN s ELSE Failed
  BY DEF ParseToken, Then
<1>3. Len(buf) \in Nat
  BY DEF Received
<1> HIDE DEF r, s
<1>4. r >= 0 => CharAt(ext, r) = CharAt(buf, r)
  BY <1>1, <1>3, CharKept DEF Firm, Failed, Partial
<1> QED BY <1>1, <1>2, <1>3, <1>4 DEF Firm, Failed, Partial

LEMMA AdvanceKept ==
    ASSUME NEW buf \in Received, NEW ext \in Received, Extends(ext, buf),
           NEW x \in 0 .. Len(buf)
    PROVE  Firm(AdvanceToken(buf, x), AdvanceToken(ext, x), x, Len(buf) - 1)
<1> DEFINE r == CheckEof(buf, Scan(buf, x, Controls \cup {"SP"}))
           s == CheckEof(ext, Scan(ext, x, Controls \cup {"SP"}))
<1>1. Firm(r, s, x, Len(buf) - 1) /\ r # Failed
  BY ScanKept
<1>2. /\ AdvanceToken(buf, x) = IF r < 0 THEN r ELSE IF CharAt(buf, r) = "SP" THEN r ELSE Failed
      /\ AdvanceToken(ext, x) = IF s < 0 THEN s ELSE IF CharAt(ext, s) = "SP" THEN s ELSE Failed
  BY DEF AdvanceToken, Then
<1>3. Len(buf) \in Nat
  BY DEF Received
<1> HIDE DEF r, s
<1>4. r >= 0 => CharAt(ext, r) = CharAt(buf, r)
  BY <1>1, <1>3, CharKept DEF Firm, Failed, Partial
<1> QED BY <1>1, <1>2, <1>3, <1>4 DEF Firm, Failed, Partial

LEMMA SkipKept ==
    ASSUME NEW buf \in Received, NEW ext \in Received, Extends(ext, buf),
           NEW x \in 0 .. Len(buf), NEW S
    PROVE  Firm(Skip(buf, x, S), Skip(ext, x, S), x, Len(buf) - 1)
BY ScanKept DEF Skip

(* The character at x has arrived; the one after a CR is checked.          *)
LEMMA LineEndKept ==
    ASSUME NEW buf \in Received, NEW ext \in Received, Extends(ext, buf),
           NEW x \in 0 .. Len(buf) - 1
    PROVE  Firm(LineEnd(buf, x), LineEnd(ext, x), x, Len(buf))
<1>1. Len(buf) \in Nat /\ Len(ext) \in Nat /\ Len(buf) <= Len(ext) /\ x \in Nat
  BY DEF Received, Extends
<1>2. CharAt(ext, x) = CharAt(buf, x)
  BY <1>1, CharKept
<1>3. Firm(ExpectLf(buf, x + 1), ExpectLf(ext, x + 1), x, Len(buf))
  <2>1. CASE x + 1 = Len(buf)
    BY <1>1, <2>1 DEF Firm, ExpectLf, CheckEof, Then, Partial
  <2>2. CASE x + 1 # Len(buf)
    <3>1. CharAt(ext, x + 1) = CharAt(buf, x + 1) /\ x + 1 # Len(ext)
      BY <1>1, <2>2, CharKept
    <3> QED BY <1>1, <2>2, <3>1 DEF Firm, ExpectLf, CheckEof, Then, Partial, Failed
  <2> QED BY <2>1, <2>2
<1>4. CASE CharAt(buf, x) = "CR"
  BY <1>2, <1>3, <1>4 DEF LineEnd
<1>5. CASE CharAt(buf, x) # "CR"
  BY <1>1, <1>2, <1>5 DEF LineEnd, Firm, Partial, Failed
<1> QED BY <1>4, <1>5

LEMMA ToEolKept ==
    ASSUME NEW buf \in Received, NEW ext \in Received, Extends(ext, buf),
           NEW x \in 0 .. Len(buf)
    PROVE  Firm(GetTokenToEol(buf, x), GetTokenToEol(ext, x), x, Len(buf))
<1> DEFINE r == CheckEof(buf, Scan(buf, x, Controls \ {"HT"}))
           s == CheckEof(ext, Scan(ext, x, Controls \ {"HT"}))
<1>1. Firm(r, s, x, Len(buf) - 1) /\ r # Failed
  BY ScanKept
<1>2. /\ GetTokenToEol(buf, x) = IF r < 0 THEN r ELSE LineEnd(buf, r)
      /\ GetTokenToEol(ext, x) = IF s < 0 THEN s ELSE LineEnd(ext, s)
  BY DEF GetTokenToEol, Then
<1>3. Len(buf) \in Nat
  BY DEF Received
<1> HIDE DEF r, s
<1>4. CASE r = Partial
  BY <1>2, <1>4 DEF Firm, Partial
<1>5. CASE r # Partial
  <2>1. r \in x .. Len(buf) - 1 /\ r \in 0 .. Len(buf) - 1 /\ s = r
    BY <1>1, <1>3, <1>5 DEF Firm
  <2>2. Firm(LineEnd(buf, r), LineEnd(ext, r), r, Len(buf))
    BY <2>1, LineEndKept
  <2> QED BY <1>2, <1>3, <2>1, <2>2 DEF Firm
<1> QED BY <1>4, <1>5

(* The literal, the digit and the unchecked character after it.            *)
LEMMA VersionKept ==
    ASSUME NEW buf \in Received, NEW ext \in Received, Extends(ext, buf),
           NEW x \in 0 .. Len(buf)
    PROVE  Firm(ParseHttpVersion(buf, x), ParseHttpVersion(ext, x), x, Len(buf) - 1)
<1> DEFINE d == x + Len(VERSION)
<1>1. /\ Len(buf) \in Nat /\ Len(ext) \in Nat /\ Len(buf) <= Len(ext) /\ x \in Nat
      /\ Len(VERSION) \in Nat
  BY ParserAssumption DEF Received, Extends
<1>2. CASE Len(buf) - x < Len(VERSION) + 2
  BY <1>2 DEF ParseHttpVersion, Firm
<1>3. CASE ~ Len(buf) - x < Len(VERSION) + 2
  <2>1. ~ Len(ext) - x < Len(VERSION) + 2 /\ d \in Nat /\ d + 1 < Len(buf)
    BY <1>1, <1>3
  <2>2. CharAt(ext, d) = CharAt(buf, d)
    BY <1>1, <2>1, CharKept
  <2>3. SubSeq(ext, x + 1, d) = SubSeq(buf, x + 1, d)
    <3>1. /\ SubSeq(ext, x + 1, d) = [k \in 1 .. d - x |-> ext[x + k]]
          /\ SubSeq(buf, x + 1, d) = [k \in 1 .. d - x |-> buf[x + k]]
      BY <1>1, <2>1 DEF Received
    <3>2. \A k \in 1 .. d - x : ext[x + k] = buf[x + k]
      BY <1>1, <2>1 DEF Extends
    <3> QED BY <3>1, <3>2
  <2>4. ParseHttpVersion(ext, x) = ParseHttpVersion(buf, x)
    BY <1>3, <2>1, <2>2, <2>3 DEF ParseHttpVersion
  <2>5. ParseHttpVersion(buf, x) \in {Failed, d + 1}
    BY <1>3 DEF ParseHttpVersion
  <2> QED BY <1>1, <2>1, <2>4, <2>5 DEF Firm
<1> QED BY <1>2, <1>3

LEMMA HeaderNameKept ==
    ASSUME NEW buf \in Received, NEW ext \in Received, Extends(ext, buf),
           NEW x \in 0 .. Len(buf) - 1, NEW n
    PROVE  Firm(HeaderName(buf, x, n), HeaderName(ext, x, n), x, Len(buf) - 1)
<1> DEFINE r == ParseToken(buf, x, ":")
           s == ParseToken(ext, x, ":")
<1>1. Len(buf) \in Nat /\ x \in Nat /\ x \in 0 .. Len(buf) /\ x < Len(buf)
  BY DEF Received
<1>2. CharAt(ext, x) = CharAt(buf, x)
  BY <1>1, CharKept
<1>3. CASE n # 0 /\ CharAt(buf, x) \in Blanks
  BY <1>1, <1>2, <1>3 DEF HeaderName, Firm
<1>4. CASE ~ (n # 0 /\ CharAt(buf, x) \in Blanks)
  <2>1. Firm(r, s, x, Len(buf) - 1)
    BY <1>1, TokenKept
  <2>2. /\ HeaderName(buf, x, n) = IF r < 0 THEN r ELSE IF r = x THEN Failed
                                                     ELSE Skip(buf, r + 1, Blanks)
        /\ HeaderName(ext, x, n) = IF s < 0 THEN s ELSE IF s = x THEN Failed
                                                     ELSE Skip(ext, s + 1, Blanks)
    BY <1>2, <1>4 DEF HeaderName, Then
  <2> HIDE DEF r, s
  <2>3. CASE r \in {Failed, Partial} \/ r = x
    BY <1>1, <2>1, <2>2, <2>3 DEF Firm, Failed, Partial
  <2>4. CASE r \notin {Failed, Partial} /\ r # x
    <3>1. r \in x .. Len(buf) - 1 /\ s = r /\ r + 1 \in 0 .. Len(buf)
      BY <1>1, <2>1, <2>4 DEF Firm
    <3>2. Firm(Skip(buf, r + 1, Blanks), Skip(ext, r + 1, Blanks), r + 1, Len(buf) - 1)
      BY <3>1, SkipKept
    <3> QED BY <1>1, <2>2, <2>4, <3>1, <3>2 DEF Firm
  <2> QED BY <2>3, <2>4
<1> QED BY <1>3, <1>4

LEMMA HeaderKept ==
    ASSUME NEW buf \in Received, NEW ext \in Received, Extends(ext, buf),
           NEW x \in 0 .. Len(buf) - 1, NEW n
    PROVE  Firm(HeaderLine(buf, x, n), HeaderLine(ext, x, n), x, Len(buf))
<1> DEFINE r == HeaderName(buf, x, n)
           s == HeaderName(ext, x, n)
<1>1. Len(buf) \in Nat /\ x \in Nat
  BY DEF Received
<1>2. Firm(r, s, x, Len(buf) - 1)
  BY HeaderNameKept
<1>3. /\ HeaderLine(buf, x, n) = IF r < 0 THEN r ELSE GetTokenToEol(buf, r)
      /\ HeaderLine(ext, x, n) = IF s < 0 THEN s ELSE GetTokenToEol(ext, s)
  BY DEF HeaderLine, Then
<1> HIDE DEF r, s
<1>4. CASE r \in {Failed, Partial}
  BY <1>2, <1>3, <1>4 DEF Firm, Failed, Partial
<1>5. CASE r \notin {Failed, Partial}
  <2>1. r \in x .. Len(buf) - 1 /\ r \in 0 .. Len(buf) /\ s = r
    BY <1>1, <1>2, <1>5 DEF Firm
  <2>2. Firm(GetTokenToEol(buf, r), GetTokenToEol(ext, r), r, Len(buf))
    BY <2>1, ToEolKept
  <2> QED BY <1>1, <1>3, <2>1, <2>2 DEF Firm
<1> QED BY <1>4, <1>5

-----------------------------------------------------------------------------
(* One iteration of parse_headers(), given what the next one returns.      *)
Iteration(buf, rest, room) ==
    [x \in 0 .. Len(buf) |->
        IF x = Len(buf) THEN Partial
        ELSE IF CharAt(buf, x) \in {"CR", "LF"} THEN LineEnd(buf, x)
        ELSE IF room = 0 THEN Failed
        ELSE Then(HeaderLine(buf, x, MAX_HEADERS - room), LAMBDA y : rest[y])]

LEMMA LastIteration ==
    ASSUME NEW buf, NEW f, NEW g PROVE Iteration(buf, f, 0) = Iteration(buf, g, 0)
BY DEF Iteration

(* A function with this recursion exists: the least number of headers for  *)
(* which there were none would be one more than a number for which there   *)
(* is one.                                                                 *)
LEMMA HeadersExist ==
    ASSUME NEW buf
    PROVE  \E f : f = [room \in 0 .. MAX_HEADERS |-> Iteration(buf, f[room - 1], room)]
<1> DEFINE Exists(m) == \E f : f = [room \in 0 .. m |-> Iteration(buf, f[room - 1], room)]
           Missing == {m \in Nat : ~ Exists(m)}
<1>1. ASSUME Missing # {} PROVE FALSE
  <2>1. Missing \in SUBSET Nat
    OBVIOUS
  <2> HIDE DEF Missing
  <2>2. PICK m \in Missing : \A n \in Missing : m <= n
    BY <1>1, <2>1, Least
  <2>3. m \in Nat /\ ~ Exists(m)
    BY DEF Missing
  <2>4. CASE m = 0
    <3> DEFINE h == [room \in 0 .. 0 |-> Iteration(buf, 0, 0)]
    <3>1. \A room \in 0 .. 0 : h[room] = Iteration(buf, h[room - 1], room)
      <4>1. Iteration(buf, h[0 - 1], 0) = Iteration(buf, 0, 0)
        BY LastIteration
      <4> QED BY <4>1
    <3>2. h = [room \in 0 .. 0 |-> Iteration(buf, h[room - 1], room)]
      BY <3>1
    <3> QED BY <2>3, <2>4, <3>2
  <2>5. CASE m # 0
    <3>1. m - 1 \in Nat /\ m - 1 \notin Missing
      BY <2>2, <2>3, <2>5
    <3>2. PICK g : g = [room \in 0 .. m - 1 |-> Iteration(buf, g[room - 1], room)]
      BY <3>1 DEF Missing
    <3> DEFINE h == [room \in 0 .. m |-> IF room = m THEN Iteration(buf, g[m - 1], m) ELSE g[room]]
    <3>3. ASSUME NEW room \in 0 .. m PROVE h[room] = Iteration(buf, h[room - 1], room)
      <4>1. CASE room = 0
        <5>1. h[0] = Iteration(buf, g[0 - 1], 0)
          BY <2>3, <2>5, <3>2
        <5> QED BY <4>1, <5>1, LastIteration
      <4>2. CASE room # 0 /\ room # m
        <5>1. h[room] = g[room] /\ h[room - 1] = g[room - 1] /\ room \in 0 .. m - 1
          BY <2>3, <4>2
        <5>2. g[room] = Iteration(buf, g[room - 1], room)
          BY <3>2, <5>1
        <5> QED BY <5>1, <5>2
      <4>3. CASE room = m
        <5>1. h[m] = Iteration(buf, g[m - 1], m) /\ h[m - 1] = g[m - 1]
          BY <2>3, <2>5
        <5> QED BY <4>3, <5>1
      <4> QED BY <4>1, <4>2, <4>3
    <3>4. h = [room \in 0 .. m |-> Iteration(buf, h[room - 1], room)]
      BY <3>3
    <3> QED BY <2>3, <3>4
  <2> QED BY <2>4, <2>5
<1>2. MAX_HEADERS \in Nat
  BY ParserAssumption
<1> QED BY <1>1, <1>2

LEMMA HeadersAre ==
    ASSUME NEW buf, NEW room \in 0 .. MAX_HEADERS
    PROVE  ParseHeaders(buf)[room] = Iteration(buf, ParseHeaders(buf)[room - 1], room)
<1>1. ParseHeaders(buf) =
        CHOOSE f : f = [k \in 0 .. MAX_HEADERS |-> Iteration(buf, f[k - 1], k)]
  BY DEF ParseHeaders, Iteration
<1>2. ParseHeaders(buf) =
        [k \in 0 .. MAX_HEADERS |-> Iteration(buf, ParseHeaders(buf)[k - 1], k)]
  BY <1>1, HeadersExist
<1> QED BY <1>2

(* The headers from any position on, by induction on the number of them    *)
(* that there is room for.                                                 *)
LEMMA HeadersKept ==
    ASSUME NEW buf \in Received, NEW ext \in Received, Extends(ext, buf)
    PROVE  \A room \in 0 .. MAX_HEADERS, x \in 0 .. Len(buf) :
              Firm(ParseHeaders(buf)[room][x], ParseHeaders(ext)[room][x], x, Len(buf))
<1> DEFINE P(room) == \A x \in 0 .. Len(buf) :
                Firm(ParseHeaders(buf)[room][x], ParseHeaders(ext)[room][x], x, Len(buf))
           Wrong == {room \in 0 .. MAX_HEADERS : ~ P(room)}
<1>0. Len(buf) \in Nat /\ Len(ext) \in Nat /\ Len(buf) <= Len(ext) /\ MAX_HEADERS \in Nat
  BY ParserAssumption DEF Received, Extends
<1>1. ASSUME NEW room \in 0 .. MAX_HEADERS, room # 0 => P(room - 1) PROVE P(room)
  <2> SUFFICES ASSUME NEW x \in 0 .. Len(buf)
               PROVE  Firm(ParseHeaders(buf)[room][x], ParseHeaders(ext)[room][x], x, Len(buf))
    OBVIOUS
  <2> DEFINE rb == ParseHeaders(buf)[room - 1]
             re == ParseHeaders(ext)[room - 1]
             r == HeaderLine(buf, x, MAX_HEADERS - room)
             s == HeaderLine(ext, x, MAX_HEADERS - room)
  <2>1. ParseHeaders(buf)[room][x] =
            IF x = Len(buf) THEN Partial
            ELSE IF CharAt(buf, x) \in {"CR", "LF"} THEN LineEnd(buf, x)
            ELSE IF room = 0 THEN Failed
            ELSE IF r < 0 THEN r ELSE rb[r]
    <3>1. ParseHeaders(buf)[room] = Iteration(buf, rb, room)
      BY HeadersAre
    <3> HIDE DEF rb
    <3> QED BY <3>1 DEF Iteration, Then
  <2>2. ParseHeaders(ext)[room][x] =
            IF x = Len(ext) THEN Partial
            ELSE IF CharAt(ext, x) \in {"CR", "LF"} THEN LineEnd(ext, x)
            ELSE IF room = 0 THEN Failed
            ELSE IF s < 0 THEN s ELSE re[s]
    <3>1. x \in 0 .. Len(ext)
      BY <1>0
    <3>2. ParseHeaders(ext)[room] = Iteration(ext, re, room)
      BY HeadersAre
    <3> HIDE DEF re
    <3> QED BY <3>1, <3>2 DEF Iteration, Then
  <2>3. \A y \in 0 .. Len(buf) : room # 0 => Firm(rb[y], re[y], y, Len(buf))
    BY <1>1
  <2>4. CASE x = Len(buf)
    BY <2>1, <2>4 DEF Firm
  <2>5. CASE x # Len(buf)
    <3>1. x \in 0 .. Len(buf) - 1 /\ x # Len(ext) /\ x < Len(buf) /\ x \in Nat
      BY <1>0, <2>5
    <3>2. CharAt(ext, x) = CharAt(buf, x)
      BY <3>1, CharKept
    <3>3. CASE CharAt(buf, x) \in {"CR", "LF"}
      BY <2>1, <2>2, <3>1, <3>2, <3>3, LineEndKept
    <3>4. CASE CharAt(buf, x) \notin {"CR", "LF"} /\ room = 0
      BY <2>1, <2>2, <3>1, <3>2, <3>4 DEF Firm
    <3>5. CASE CharAt(buf, x) \notin {"CR", "LF"} /\ room # 0
      <4>1. /\ ParseHeaders(buf)[room][x] = IF r < 0 THEN r ELSE rb[r]
            /\ ParseHeaders(ext)[room][x] = IF s < 0 THEN s ELSE re[s]
        BY <2>1, <2>2, <3>1, <3>2, <3>5
      <4>2. Firm(r, s, x, Len(buf))
        BY <3>1, HeaderKept
      <4> HIDE DEF r, s, rb, re
      <4>3. CASE r \in {Failed, Partial}
        BY <4>1, <4>2, <4>3 DEF Firm, Failed, Partial
      <4>4. CASE r \notin {Failed, Partial}
        <5>1. r \in x .. Len(buf) /\ r \in 0 .. Len(buf) /\ s = r
          BY <1>0, <4>2, <4>4 DEF Firm
        <5>2. Firm(rb[r], re[r], r, Len(buf))
          BY <2>3, <3>5, <5>1
        <5> QED BY <1>0, <4>1, <5>1, <5>2 DEF Firm
      <4> QED BY <4>3, <4>4
    <3> QED BY <3>3, <3>4, <3>5
  <2> QED BY <2>4, <2>5
<1> HIDE DEF P
<1>2. ASSUME Wrong # {} PROVE FALSE
  <2>1. Wrong \in SUBSET Nat
    BY <1>0
  <2> HIDE DEF Wrong
  <2>2. PICK m \in Wrong : \A n \in Wrong : m <= n
    BY <1>2, <2>1, Least
  <2>3. m \in 0 .. MAX_HEADERS /\ ~ P(m)
    BY DEF Wrong
  <2>4. m # 0 => P(m - 1)
    <3> SUFFICES ASSUME m # 0 PROVE P(m - 1)
      OBVIOUS
    <3>1. m - 1 \in 0 .. MAX_HEADERS /\ m - 1 \notin Wrong
      BY <1>0, <2>2, <2>3
    <3> QED BY <3>1 DEF Wrong
  <2> QED BY <1>1, <2>3, <2>4
<1>3. \A room \in 0 .. MAX_HEADERS : P(room)
  BY <1>2
<1> QED BY <1>3 DEF P

-----------------------------------------------------------------------------
(* The steps of phr_parse_request(), by name.                              *)
Method(buf) ==
    Then(CheckEof(buf, 0),
         LAMBDA x : IF CharAt(buf, x) \in {"CR", "LF"} THEN LineEnd(buf, x) ELSE x)
MethodEnd(buf) == Then(Method(buf), LAMBDA x : ParseToken(buf, x, "SP"))
Path(buf) == Then(MethodEnd(buf), LAMBDA x : Skip(buf, x + 1, {"SP"}))
PathEnd(buf) == Then(Path(buf), LAMBDA x : AdvanceToken(buf, x))
Version(buf) == Then(PathEnd(buf), LAMBDA x : Skip(buf, x + 1, {"SP"}))
VersionEnd(buf) ==
    Then(Version(buf), LAMBDA x : IF MethodEnd(buf) = Method(buf) \/ PathEnd(buf) = Path(buf)
                                  THEN Failed ELSE ParseHttpVersion(buf, x))
Headers(buf) == Then(VersionEnd(buf), LAMBDA x : LineEnd(buf, x))

LEMMA Steps ==
    ASSUME NEW buf
    PROVE  PhrParseRequest(buf) =
              Then(Headers(buf), LAMBDA x : ParseHeaders(buf)[MAX_HEADERS][x])
BY DEF PhrParseRequest, Headers, VersionEnd, Version, PathEnd, Path, MethodEnd, Method

(* Firm answers compose: the second step begins where the first one ended. *)
LEMMA Compose ==
    ASSUME NEW r, NEW s, NEW mid \in Int, NEW hi \in Int, Firm(r, s, 0, mid), NEW p, NEW q,
           p = IF r < 0 THEN r ELSE p, q = IF s < 0 THEN s ELSE q,
           r \in 0 .. mid /\ s = r => \E lo \in Nat : Firm(p, q, lo, hi)
    PROVE  Firm(p, q, 0, hi)
BY DEF Firm, Failed, Partial

LEMMA RequestLineKept ==
    ASSUME NEW buf \in Received, NEW ext \in Received, Extends(ext, buf)
    PROVE  /\ Firm(Method(buf), Method(ext), 0, Len(buf))
           /\ Firm(MethodEnd(buf), MethodEnd(ext), 0, Len(buf) - 1)
           /\ Firm(Path(buf), Path(ext), 0, Len(buf) - 1)
           /\ Firm(PathEnd(buf), PathEnd(ext), 0, Len(buf) - 1)
           /\ Firm(Version(buf), Version(ext), 0, Len(buf) - 1)
<1>0. Len(buf) \in Nat /\ Len(ext) \in Nat /\ Len(buf) <= Len(ext)
  BY DEF Received, Extends
<1>1. Firm(Method(buf), Method(ext), 0, Len(buf))
  <2>1. CASE Len(buf) = 0
    BY <2>1 DEF Method, CheckEof, Then, Firm, Partial
  <2>2. CASE Len(buf) # 0
    <3>1. 0 \in 0 .. Len(buf) - 1 /\ 0 < Len(buf) /\ 0 # Len(ext)
      BY <1>0, <2>2
    <3>2. CharAt(ext, 0) = CharAt(buf, 0) /\ Firm(LineEnd(buf, 0), LineEnd(ext, 0), 0, Len(buf))
      BY <3>1, CharKept, LineEndKept
    <3>3. /\ Method(buf) = IF CharAt(buf, 0) \in {"CR", "LF"} THEN LineEnd(buf, 0) ELSE 0
          /\ Method(ext) = IF CharAt(ext, 0) \in {"CR", "LF"} THEN LineEnd(ext, 0) ELSE 0
      BY <2>2, <3>1 DEF Method, CheckEof, Then
    <3> QED BY <1>0, <3>2, <3>3 DEF Firm
  <2> QED BY <2>1, <2>2
<1>2. Firm(MethodEnd(buf), MethodEnd(ext), 0, Len(buf) - 1)
  <2> DEFINE r == Method(buf)
             s == Method(ext)
  <2>1. /\ MethodEnd(buf) = IF r < 0 THEN r ELSE ParseToken(buf, r, "SP")
        /\ MethodEnd(ext) = IF s < 0 THEN s ELSE ParseToken(ext, s, "SP")
    BY DEF MethodEnd, Then
  <2>2. ASSUME r \in 0 .. Len(buf), s = r
        PROVE  Firm(MethodEnd(buf), MethodEnd(ext), r, Len(buf) - 1) /\ r \in Nat
    <3>1. Firm(ParseToken(buf, r, "SP"), ParseToken(ext, r, "SP"), r, Len(buf) - 1)
      BY <2>2, TokenKept
    <3> QED BY <2>1, <2>2, <3>1
  <2> HIDE DEF r, s
  <2> QED BY <1>0, <1>1, <2>1, <2>2, Compose DEF r, s
<1>3. Firm(Path(buf), Path(ext), 0, Len(buf) - 1)
  <2> DEFINE r == MethodEnd(buf)
             s == MethodEnd(ext)
  <2>1. /\ Path(buf) = IF r < 0 THEN r ELSE Skip(buf, r + 1, {"SP"})
        /\ Path(ext) = IF s < 0 THEN s ELSE Skip(ext, s + 1, {"SP"})
    BY DEF Path, Then
  <2>2. ASSUME r \in 0 .. Len(buf) - 1, s = r
        PROVE  Firm(Path(buf), Path(ext), r + 1, Len(buf) - 1) /\ r + 1 \in Nat
    <3>1. r + 1 \in 0 .. Len(buf)
      BY <1>0, <2>2
    <3>2. Firm(Skip(buf, r + 1, {"SP"}), Skip(ext, r + 1, {"SP"}), r + 1, Len(buf) - 1)
      BY <3>1, SkipKept
    <3> QED BY <2>1, <2>2, <3>2
  <2> HIDE DEF r, s
  <2> QED BY <1>0, <1>2, <2>1, <2>2, Compose DEF r, s
<1>4. Firm(PathEnd(buf), PathEnd(ext), 0, Len(buf) - 1)
  <2> DEFINE r == Path(buf)
             s == Path(ext)
  <2>1. /\ PathEnd(buf) = IF r < 0 THEN r ELSE AdvanceToken(buf, r)
        /\ PathEnd(ext) = IF s < 0 THEN s ELSE AdvanceToken(ext, s)
    BY DEF PathEnd, Then
  <2>2. ASSUME r \in 0 .. Len(buf) - 1, s = r
        PROVE  Firm(PathEnd(buf), PathEnd(ext), r, Len(buf) - 1) /\ r \in Nat
    <3>1. r \in 0 .. Len(buf)
      BY <1>0, <2>2
    <3>2. Firm(AdvanceToken(buf, r), AdvanceToken(ext, r), r, Len(buf) - 1)
      BY <3>1, AdvanceKept
    <3> QED BY <2>1, <2>2, <3>2
  <2> HIDE DEF r, s
  <2> QED BY <1>0, <1>3, <2>1, <2>2, Compose DEF r, s
<1>5. Firm(Version(buf), Version(ext), 0, Len(buf) - 1)
  <2> DEFINE r == PathEnd(buf)
             s == PathEnd(ext)
  <2>1. /\ Version(buf) = IF r < 0 THEN r ELSE Skip(buf, r + 1, {"SP"})
        /\ Version(ext) = IF s < 0 THEN s ELSE Skip(ext, s + 1, {"SP"})
    BY DEF Version, Then
  <2>2. ASSUME r \in 0 .. Len(buf) - 1, s = r
        PROVE  Firm(Version(buf), Version(ext), r + 1, Len(buf) - 1) /\ r + 1 \in Nat
    <3>1. r + 1 \in 0 .. Len(buf)
      BY <1>0, <2>2
    <3>2. Firm(Skip(buf, r + 1, {"SP"}), Skip(ext, r + 1, {"SP"}), r + 1, Len(buf) - 1)
      BY <3>1, SkipKept
    <3> QED BY <2>1, <2>2, <3>2
  <2> HIDE DEF r, s
  <2> QED BY <1>0, <1>4, <2>1, <2>2, Compose DEF r, s
<1> QED BY <1>1, <1>2, <1>3, <1>4, <1>5

(* An empty method or path is as empty when more has arrived.              *)
LEMMA VersionEndKept ==
    ASSUME NEW buf \in Received, NEW ext \in Received, Extends(ext, buf)
    PROVE  Firm(VersionEnd(buf), VersionEnd(ext), 0, Len(buf) - 1)
<1>0. Len(buf) \in Nat
  BY DEF Received
<1> DEFINE r == Version(buf)
           s == Version(ext)
           bad(x) == MethodEnd(x) = Method(x) \/ PathEnd(x) = Path(x)
<1>1. Firm(r, s, 0, Len(buf) - 1)
  BY RequestLineKept
<1>2. /\ VersionEnd(buf) = IF r < 0 THEN r ELSE IF bad(buf) THEN Failed ELSE ParseHttpVersion(buf, r)
      /\ VersionEnd(ext) = IF s < 0 THEN s ELSE IF bad(ext) THEN Failed ELSE ParseHttpVersion(ext, s)
  BY DEF VersionEnd, Then
<1>3. ASSUME r \in 0 .. Len(buf) - 1, s = r
      PROVE  Firm(VersionEnd(buf), VersionEnd(ext), r, Len(buf) - 1) /\ r \in Nat
  <2>1. ~ PathEnd(buf) < 0
    BY <1>0, <1>3 DEF Version, Then
  <2>2. ~ Path(buf) < 0
    BY <2>1 DEF PathEnd, Then
  <2>3. ~ MethodEnd(buf) < 0
    BY <2>2 DEF Path, Then
  <2>4. ~ Method(buf) < 0
    BY <2>3 DEF MethodEnd, Then
  <2>5. bad(ext) <=> bad(buf)
    BY <2>1, <2>2, <2>3, <2>4, RequestLineKept DEF Firm, Partial
  <2>6. r \in 0 .. Len(buf)
    BY <1>0, <1>3
  <2>7. Firm(ParseHttpVersion(buf, r), ParseHttpVersion(ext, r), r, Len(buf) - 1)
    BY <2>6, VersionKept
  <2> HIDE DEF bad, r, s
  <2>8. CASE bad(buf)
    BY <1>0, <1>2, <1>3, <2>5, <2>8 DEF Firm
  <2>9. CASE ~ bad(buf)
    BY <1>0, <1>2, <1>3, <2>5, <2>7, <2>9
  <2> QED BY <1>3, <2>8, <2>9
<1> HIDE DEF bad, r, s
<1> QED BY <1>0, <1>1, <1>2, <1>3, Compose

(* For characters received in any number: an answer of phr_parse_request() *)
(* other than -2 depends on nothing that has not arrived, so the rest of   *)
(* a connection's bytes cannot change it.                                  *)
THEOREM AnswerFinal ==
    ASSUME NEW buf \in Received, NEW ext \in Received, Extends(ext, buf),
           PhrParseRequest(buf) # Partial
    PROVE  PhrParseRequest(ext) = PhrParseRequest(buf)
<1>0. Len(buf) \in Nat /\ MAX_HEADERS \in 0 .. MAX_HEADERS
  BY ParserAssumption DEF Received
<1>1. Firm(Headers(buf), Headers(ext), 0, Len(buf))
  <2> DEFINE r == VersionEnd(buf)
             s == VersionEnd(ext)
  <2>1. /\ Headers(buf) = IF r < 0 THEN r ELSE LineEnd(buf, r)
        /\ Headers(ext) = IF s < 0 THEN s ELSE LineEnd(ext, s)
    BY DEF Headers, Then
  <2>2. ASSUME r \in 0 .. Len(buf) - 1, s = r
        PROVE  Firm(Headers(buf), Headers(ext), r, Len(buf)) /\ r \in Nat
    <3>1. Firm(LineEnd(buf, r), LineEnd(ext, r), r, Len(buf))
      BY <2>2, LineEndKept
    <3> QED BY <1>0, <2>1, <2>2, <3>1
  <2>3. Firm(r, s, 0, Len(buf) - 1)
    BY VersionEndKept
  <2> HIDE DEF r, s
  <2> QED BY <1>0, <2>1, <2>2, <2>3, Compose
<1>2. Firm(PhrParseRequest(buf), PhrParseRequest(ext), 0, Len(buf))
  <2> DEFINE r == Headers(buf)
             s == Headers(ext)
  <2>1. /\ PhrParseRequest(buf) = IF r < 0 THEN r ELSE ParseHeaders(buf)[MAX_HEADERS][r]
        /\ PhrParseRequest(ext) = IF s < 0 THEN s ELSE ParseHeaders(ext)[MAX_HEADERS][s]
    BY Steps DEF Then
  <2>2. ASSUME r \in 0 .. Len(buf), s = r
        PROVE  Firm(PhrParseRequest(buf), PhrParseRequest(ext), r, Len(buf)) /\ r \in Nat
    <3>1. Firm(ParseHeaders(buf)[MAX_HEADERS][r], ParseHeaders(ext)[MAX_HEADERS][r], r, Len(buf))
      BY <1>0, <2>2, HeadersKept
    <3> QED BY <1>0, <2>1, <2>2, <3>1
  <2> HIDE DEF r, s
  <2> QED BY <1>0, <1>1, <2>1, <2>2, Compose DEF r, s
<1> QED BY <1>2 DEF Firm

(* In every state: what has been received is text and the answer is the    *)
(* parser's for it, so no next character changes an answer that was given. *)
THEOREM AnswersSettled == ParserSpec => []Settled
<1> DEFINE Inv == received \in Received /\ pret = PhrParseRequest(received)
<1>1. ParserInit => Inv
  BY ParserAssumption DEF ParserInit, Received
<1>2. Inv /\ [ParserNext]_parserVars => Inv'
  <2>1. ASSUME Inv, NEW c \in Chars, Receive(c) PROVE Inv'
    BY <2>1 DEF Receive, Received
  <2>2. ASSUME Inv, UNCHANGED parserVars PROVE Inv'
    BY <2>2 DEF parserVars
  <2> QED BY <2>1, <2>2 DEF ParserNext
<1>3. Inv => Settled
  <2> SUFFICES ASSUME Inv, pret # Partial, NEW c \in Chars
               PROVE  PhrParseRequest(Append(received, c)) = pret
    BY DEF Settled
  <2>1. Append(received, c) \in Received /\ Extends(Append(received, c), received)
    BY DEF Received, Extends
  <2> QED BY <2>1, AnswerFinal
<1> QED BY <1>1, <1>2, <1>3, PTL DEF ParserSpec

-----------------------------------------------------------------------------
(* What the functions of the parser accept, as facts about positions.  The *)
(* characters from x to before e are in S.                                 *)
Stretch(buf, x, e, S) == \A k \in x .. e - 1 : CharAt(buf, k) \in S

(* What comes before the end of line that ends at y ends at e.             *)
Eol(buf, e, y) ==
    y \in LineEnds(buf) /\ (e = y - 1 \/ (e = y - 2 /\ CharAt(buf, e) = "CR"))

LEMMA CharIs ==
    ASSUME NEW buf \in Received, NEW x \in Nat
    PROVE  /\ Len(buf) \in Nat
           /\ x < Len(buf) => CharAt(buf, x) \in Chars /\ CharAt(buf, x) = buf[x + 1]
           /\ ~ x < Len(buf) => CharAt(buf, x) \notin Chars
<1>1. Len(buf) \in Nat
  BY DEF Received
<1>2. x < Len(buf) => buf[x + 1] \in Chars
  <2>1. x < Len(buf) => x + 1 \in 1 .. Len(buf)
    BY <1>1
  <2> QED BY <2>1 DEF Received
<1> QED BY <1>1, <1>2 DEF CharAt, Chars

LEMMA EndIs ==
    ASSUME NEW buf \in Received, NEW y
    PROVE  /\ y \in LineEnds(buf) <=> y \in 1 .. Len(buf) /\ CharAt(buf, y - 1) = "LF"
           /\ LineEnds(buf) \in SUBSET Nat
<1>1. Len(buf) \in Nat
  BY DEF Received
<1>2. ASSUME y \in 1 .. Len(buf) PROVE CharAt(buf, y - 1) = buf[y]
  <2>1. y - 1 \in Nat /\ y - 1 < Len(buf) /\ (y - 1) + 1 = y
    BY <1>1, <1>2
  <2> QED BY <2>1, CharIs
<1> QED BY <1>1, <1>2 DEF LineEnds

LEMMA LineEndIs ==
    ASSUME NEW buf \in Received, NEW x \in Nat, x < Len(buf)
    PROVE  /\ LineEnd(buf, x) \in {Failed, Partial} \cup Nat
           /\ \A y \in Nat : LineEnd(buf, x) = y <=> Eol(buf, x, y)
<1>1. Len(buf) \in Nat
  BY DEF Received
<1>2. \A y \in Nat : Eol(buf, x, y) <=>
          \/ y = x + 1 /\ CharAt(buf, x) = "LF"
          \/ y = x + 2 /\ CharAt(buf, x) = "CR" /\ x + 1 < Len(buf) /\ CharAt(buf, x + 1) = "LF"
  <2> TAKE y \in Nat
  <2>1. y \in LineEnds(buf) <=> y \in 1 .. Len(buf) /\ CharAt(buf, y - 1) = "LF"
    BY EndIs
  <2> QED BY <1>1, <2>1 DEF Eol
<1>3. ExpectLf(buf, x + 1) = IF x + 1 = Len(buf) THEN Partial
                             ELSE IF CharAt(buf, x + 1) = "LF" THEN x + 2 ELSE Failed
  <2>1. CASE x + 1 = Len(buf)
    BY <1>1, <2>1 DEF ExpectLf, Then, CheckEof, Partial
  <2>2. CASE x + 1 # Len(buf)
    BY <1>1, <2>2 DEF ExpectLf, Then, CheckEof, Failed
  <2> QED BY <2>1, <2>2
<1>4. LineEnd(buf, x) = IF CharAt(buf, x) = "CR" THEN ExpectLf(buf, x + 1)
                        ELSE IF CharAt(buf, x) = "LF" THEN x + 1 ELSE Failed
  BY DEF LineEnd
<1> QED BY <1>1, <1>2, <1>3, <1>4 DEF Failed, Partial

(* A scan that stops before the end.                                       *)
LEMMA ScanTo ==
    ASSUME NEW buf \in Received, NEW x \in 0 .. Len(buf), NEW S
    PROVE  /\ CheckEof(buf, Scan(buf, x, S)) \in {Partial} \cup (x .. Len(buf) - 1)
           /\ \A y \in Nat : CheckEof(buf, Scan(buf, x, S)) = y <=>
                 y \in x .. Len(buf) - 1 /\ CharAt(buf, y) \in S /\ Stretch(buf, x, y, Chars \ S)
<1> DEFINE z == Scan(buf, x, S)
<1>1. Len(buf) \in Nat
  BY DEF Received
<1>2. /\ z \in x .. Len(buf) /\ (z # Len(buf) => CharAt(buf, z) \in S)
      /\ \A n \in x .. z - 1 : CharAt(buf, n) \notin S
  BY ScanIs
<1> HIDE DEF z
<1>3. CheckEof(buf, z) = IF z = Len(buf) THEN Partial ELSE z
  BY DEF CheckEof
<1>4. ASSUME NEW y \in Nat, CheckEof(buf, z) = y
      PROVE  y \in x .. Len(buf) - 1 /\ CharAt(buf, y) \in S /\ Stretch(buf, x, y, Chars \ S)
  <2>1. z = y /\ z # Len(buf) /\ y \in x .. Len(buf) - 1
    BY <1>1, <1>2, <1>3, <1>4 DEF Partial
  <2>2. \A k \in x .. y - 1 : k \in Nat /\ k < Len(buf)
    BY <1>1, <2>1
  <2> QED BY <1>2, <2>1, <2>2, CharIs DEF Stretch
<1>5. ASSUME NEW y \in x .. Len(buf) - 1, CharAt(buf, y) \in S, Stretch(buf, x, y, Chars \ S)
      PROVE  CheckEof(buf, z) = y
  <2>1. ~ z < y
    BY <1>1, <1>2, <1>5 DEF Stretch
  <2>2. ~ y < z
    BY <1>1, <1>2, <1>5
  <2> QED BY <1>1, <1>2, <1>3, <2>1, <2>2
<1>6. CheckEof(buf, z) \in {Partial} \cup (x .. Len(buf) - 1)
  BY <1>1, <1>2, <1>3
<1> QED BY <1>4, <1>5, <1>6 DEF z

LEMMA TokenIs ==
    ASSUME NEW buf \in Received, NEW x \in 0 .. Len(buf), NEW c \in {":", "SP"}
    PROVE  /\ ParseToken(buf, x, c) \in {Failed, Partial} \cup Nat
           /\ \A y \in Nat : ParseToken(buf, x, c) = y <=>
                 y \in x .. Len(buf) - 1 /\ CharAt(buf, y) = c /\ Stretch(buf, x, y, TokenChars)
<1> DEFINE S == (Chars \ TokenChars) \cup {c}
           r == CheckEof(buf, Scan(buf, x, S))
<1>1. /\ r \in {Partial} \cup (x .. Len(buf) - 1)
      /\ \A y \in Nat : r = y <=>
            y \in x .. Len(buf) - 1 /\ CharAt(buf, y) \in S /\ Stretch(buf, x, y, Chars \ S)
  BY ScanTo
<1>2. Chars \ S = TokenChars /\ c \in S
  BY DEF Chars, TokenChars
<1>3. ParseToken(buf, x, c) = IF r < 0 THEN r ELSE IF CharAt(buf, r) = c THEN r ELSE Failed
  BY DEF ParseToken, Then
<1>4. Len(buf) \in Nat
  BY DEF Received
<1> HIDE DEF S, r
<1>5. ParseToken(buf, x, c) \in {Failed, Partial} \cup Nat
  BY <1>1, <1>3, <1>4
<1>6. ASSUME NEW y \in Nat, ParseToken(buf, x, c) = y
      PROVE  y \in x .. Len(buf) - 1 /\ CharAt(buf, y) = c /\ Stretch(buf, x, y, TokenChars)
  <2>1. r = y
    BY <1>1, <1>3, <1>6 DEF Failed, Partial
  <2>2. y \in x .. Len(buf) - 1 /\ Stretch(buf, x, y, Chars \ S)
    BY <1>1, <2>1
  <2>3. CharAt(buf, y) = c
    BY <1>3, <1>6, <2>1 DEF Failed
  <2> QED BY <1>2, <2>2, <2>3
<1>7. ASSUME NEW y \in x .. Len(buf) - 1, CharAt(buf, y) = c, Stretch(buf, x, y, TokenChars)
      PROVE  ParseToken(buf, x, c) = y
  <2>1. y \in Nat
    BY <1>4
  <2>2. r = y
    BY <1>1, <1>2, <1>7, <2>1
  <2> QED BY <1>3, <1>7, <2>1, <2>2
<1> QED BY <1>5, <1>6, <1>7

LEMMA AdvanceIs ==
    ASSUME NEW buf \in Received, NEW x \in 0 .. Len(buf)
    PROVE  /\ AdvanceToken(buf, x) \in {Failed, Partial} \cup Nat
           /\ \A y \in Nat : AdvanceToken(buf, x) = y <=>
                 /\ y \in x .. Len(buf) - 1 /\ CharAt(buf, y) = "SP"
                 /\ Stretch(buf, x, y, Graphic \ {"SP"})
<1> DEFINE S == Controls \cup {"SP"}
           r == CheckEof(buf, Scan(buf, x, S))
<1>1. /\ r \in {Partial} \cup (x .. Len(buf) - 1)
      /\ \A y \in Nat : r = y <=>
            y \in x .. Len(buf) - 1 /\ CharAt(buf, y) \in S /\ Stretch(buf, x, y, Chars \ S)
  BY ScanTo
<1>2. Chars \ S = Graphic \ {"SP"} /\ "SP" \in S
  BY DEF Graphic
<1>3. AdvanceToken(buf, x) = IF r < 0 THEN r ELSE IF CharAt(buf, r) = "SP" THEN r ELSE Failed
  BY DEF AdvanceToken, Then
<1>4. Len(buf) \in Nat
  BY DEF Received
<1> HIDE DEF S, r
<1>5. AdvanceToken(buf, x) \in {Failed, Partial} \cup Nat
  BY <1>1, <1>3, <1>4
<1>6. ASSUME NEW y \in Nat, AdvanceToken(buf, x) = y
      PROVE  y \in x .. Len(buf) - 1 /\ CharAt(buf, y) = "SP" /\ Stretch(buf, x, y, Graphic \ {"SP"})
  <2>1. r = y
    BY <1>1, <1>3, <1>6 DEF Failed, Partial
  <2>2. y \in x .. Len(buf) - 1 /\ Stretch(buf, x, y, Chars \ S)
    BY <1>1, <2>1
  <2>3. CharAt(buf, y) = "SP"
    BY <1>3, <1>6, <2>1 DEF Failed
  <2> QED BY <1>2, <2>2, <2>3
<1>7. ASSUME NEW y \in x .. Len(buf) - 1, CharAt(buf, y) = "SP", Stretch(buf, x, y, Graphic \ {"SP"})
      PROVE  AdvanceToken(buf, x) = y
  <2>1. y \in Nat
    BY <1>4
  <2>2. r = y
    BY <1>1, <1>2, <1>7, <2>1
  <2> QED BY <1>3, <1>7, <2>1, <2>2
<1> QED BY <1>5, <1>6, <1>7

LEMMA SkipIs ==
    ASSUME NEW buf \in Received, NEW x \in 0 .. Len(buf), NEW S \in SUBSET Chars
    PROVE  /\ Skip(buf, x, S) \in {Failed, Partial} \cup Nat
           /\ \A y \in Nat : Skip(buf, x, S) = y <=>
                 y \in x .. Len(buf) - 1 /\ CharAt(buf, y) \notin S /\ Stretch(buf, x, y, S)
<1> DEFINE r == CheckEof(buf, Scan(buf, x, Chars \ S))
<1>1. /\ r \in {Partial} \cup (x .. Len(buf) - 1)
      /\ \A y \in Nat : r = y <=>
            /\ y \in x .. Len(buf) - 1 /\ CharAt(buf, y) \in Chars \ S
            /\ Stretch(buf, x, y, Chars \ (Chars \ S))
  BY ScanTo
<1>2. Chars \ (Chars \ S) = S
  OBVIOUS
<1>3. Skip(buf, x, S) = r
  BY DEF Skip
<1>4. Len(buf) \in Nat /\ \A y \in x .. Len(buf) - 1 : CharAt(buf, y) \in Chars
  <2>1. Len(buf) \in Nat
    BY DEF Received
  <2>2. \A y \in x .. Len(buf) - 1 : y \in Nat /\ y < Len(buf)
    BY <2>1
  <2> QED BY <2>1, <2>2, CharIs
<1> HIDE DEF r
<1>5. r \in {Failed, Partial} \cup Nat
  BY <1>1, <1>4
<1>6. ASSUME NEW y \in Nat
      PROVE  r = y <=> y \in x .. Len(buf) - 1 /\ CharAt(buf, y) \notin S /\ Stretch(buf, x, y, S)
  BY <1>1, <1>2, <1>4
<1> QED BY <1>3, <1>5, <1>6

LEMMA ToEolIs ==
    ASSUME NEW buf \in Received, NEW x \in 0 .. Len(buf)
    PROVE  /\ GetTokenToEol(buf, x) \in {Failed, Partial} \cup Nat
           /\ \A y \in Nat : GetTokenToEol(buf, x) = y <=>
                 \E e \in x .. Len(buf) - 1 : Stretch(buf, x, e, Text) /\ Eol(buf, e, y)
<1> DEFINE S == Controls \ {"HT"}
           r == CheckEof(buf, Scan(buf, x, S))
<1>1. /\ r \in {Partial} \cup (x .. Len(buf) - 1)
      /\ \A y \in Nat : r = y <=>
            y \in x .. Len(buf) - 1 /\ CharAt(buf, y) \in S /\ Stretch(buf, x, y, Chars \ S)
  BY ScanTo
<1>2. Chars \ S = Text /\ "CR" \in S /\ "LF" \in S
  BY DEF Graphic, Text, Chars, Controls
<1>3. GetTokenToEol(buf, x) = IF r < 0 THEN r ELSE LineEnd(buf, r)
  BY DEF GetTokenToEol, Then
<1>4. Len(buf) \in Nat
  BY DEF Received
<1>5. ASSUME NEW e \in x .. Len(buf) - 1
      PROVE  /\ e \in Nat /\ LineEnd(buf, e) \in {Failed, Partial} \cup Nat
             /\ \A y \in Nat : LineEnd(buf, e) = y <=> Eol(buf, e, y)
             /\ \A y \in Nat : Eol(buf, e, y) => CharAt(buf, e) \in S
  <2>1. e \in Nat /\ e < Len(buf)
    BY <1>4
  <2>2. /\ LineEnd(buf, e) \in {Failed, Partial} \cup Nat
        /\ \A y \in Nat : LineEnd(buf, e) = y <=> Eol(buf, e, y)
    BY <2>1, LineEndIs
  <2>3. ASSUME NEW y \in Nat, Eol(buf, e, y) PROVE CharAt(buf, e) \in S
    BY <1>2, <2>1, <2>3, EndIs DEF Eol
  <2> QED BY <2>1, <2>2, <2>3
<1> HIDE DEF S, r
<1>6. CASE r = Partial
  <2>1. ASSUME NEW e \in x .. Len(buf) - 1, NEW y \in Nat, Stretch(buf, x, e, Text), Eol(buf, e, y)
        PROVE  FALSE
    <3>1. e \in Nat /\ CharAt(buf, e) \in S /\ Stretch(buf, x, e, Chars \ S)
      BY <1>2, <1>5, <2>1
    <3>2. r = e
      BY <1>1, <3>1
    <3> QED BY <1>6, <3>1, <3>2 DEF Partial
  <2> QED BY <1>3, <1>6, <2>1 DEF Partial
<1>7. CASE r # Partial
  <2>1. r \in x .. Len(buf) - 1 /\ r \in Nat /\ GetTokenToEol(buf, x) = LineEnd(buf, r)
    BY <1>1, <1>3, <1>4, <1>7
  <2>2. Stretch(buf, x, r, Text)
    BY <1>1, <1>2, <2>1
  <2>3. ASSUME NEW e \in x .. Len(buf) - 1, NEW y \in Nat, Stretch(buf, x, e, Text), Eol(buf, e, y)
        PROVE  e = r
    BY <1>1, <1>2, <1>5, <2>1, <2>3
  <2> QED BY <1>5, <2>1, <2>2, <2>3
<1> QED BY <1>1, <1>6, <1>7

-----------------------------------------------------------------------------
(* The lines.  The line that begins at x ends at y.                        *)
Follows(buf, x, y) ==
    /\ y \in LineEnds(buf) /\ x \in {0} \cup LineEnds(buf) /\ x < y
    /\ \A z \in LineEnds(buf) : ~ (x < z /\ z < y)

(* Its characters end at e: a CR before the LF is not one of them.         *)
Content(buf, x, e, y) ==
    /\ Eol(buf, e, y) /\ e \in x .. y - 1
    /\ e = y - 1 => ~ (x < e /\ CharAt(buf, e - 1) = "CR")

(* l is what the characters from x to before e are.                        *)
Holds(buf, x, e, l) ==
    l \in Received /\ Len(l) = e - x /\ \A k \in 1 .. e - x : l[k] = CharAt(buf, x + k - 1)

LEMMA EndsAre ==
    ASSUME NEW buf \in Received
    PROVE  /\ Len(buf) \in Nat /\ IsFiniteSet(LineEnds(buf))
           /\ \A y \in LineEnds(buf) : y \in Nat /\ 0 < y /\ y <= Len(buf)
           /\ \A y \in LineEnds(buf) : CharAt(buf, y - 1) = "LF"
           /\ \A y \in Nat : y < Len(buf) /\ CharAt(buf, y) = "LF" => y + 1 \in LineEnds(buf)
<1>1. Len(buf) \in Nat
  BY DEF Received
<1>2. IsFiniteSet(LineEnds(buf))
  <2>1. IsFiniteSet(1 .. Len(buf)) /\ LineEnds(buf) \in SUBSET (1 .. Len(buf))
    BY <1>1, FS_Interval DEF LineEnds
  <2> QED BY <2>1, FS_Subset
<1>3. \A y \in LineEnds(buf) : y \in Nat /\ 0 < y /\ y <= Len(buf) /\ CharAt(buf, y - 1) = "LF"
  BY <1>1, EndIs
<1>4. ASSUME NEW y \in Nat, y < Len(buf), CharAt(buf, y) = "LF" PROVE y + 1 \in LineEnds(buf)
  <2>1. y + 1 \in 1 .. Len(buf) /\ (y + 1) - 1 = y
    BY <1>1, <1>4
  <2> QED BY <1>4, <2>1, EndIs
<1> QED BY <1>1, <1>2, <1>3, <1>4

LEMMA LastLfIs ==
    ASSUME NEW buf \in Received, NEW y \in LineEnds(buf)
    PROVE  Follows(buf, LastLf(buf, y), y)
<1> DEFINE T == {0} \cup {z \in LineEnds(buf) : z < y}
           U == {y - z : z \in T}
<1>1. \A z \in T : z \in Nat /\ z < y
  BY EndsAre
<1>2. y \in Nat /\ 0 \in T
  BY EndsAre
<1>3. LastLf(buf, y) = CHOOSE m \in T : \A n \in T : m >= n
  BY DEF LastLf, Max
<1>4. U \in SUBSET Nat /\ U # {}
  BY <1>1, <1>2
<1> HIDE DEF T
<1>5. \E m \in T : \A n \in T : m >= n
  <2> HIDE DEF U
  <2>1. PICK u \in U : \A v \in U : u <= v
    BY <1>4, Least
  <2>2. PICK m \in T : u = y - m
    BY DEF U
  <2>3. \A n \in T : y - m <= y - n
    BY <2>1, <2>2 DEF U
  <2> QED BY <1>1, <1>2, <2>3
<1>6. LastLf(buf, y) \in T /\ \A n \in T : LastLf(buf, y) >= n
  BY <1>3, <1>5
<1>7. \A z \in LineEnds(buf) : ~ (LastLf(buf, y) < z /\ z < y)
  BY <1>6, <1>1, EndsAre DEF T
<1> QED BY <1>1, <1>6, <1>7 DEF Follows, T

(* There is one line before an end.                                        *)
LEMMA OneLine ==
    ASSUME NEW buf \in Received, NEW x, NEW y, NEW z, Follows(buf, x, y), Follows(buf, z, y)
    PROVE  x = z
BY EndsAre DEF Follows

LEMMA FollowsLast ==
    ASSUME NEW buf \in Received, NEW x, NEW y
    PROVE  Follows(buf, x, y) <=> y \in LineEnds(buf) /\ LastLf(buf, y) = x
BY LastLfIs, OneLine DEF Follows

(* The first end after x, if there is one.                                 *)
LEMMA NextEnd ==
    ASSUME NEW buf \in Received, NEW x \in {0} \cup LineEnds(buf),
           NEW w \in LineEnds(buf), x < w
    PROVE  \E y : Follows(buf, x, y) /\ y <= w /\ y = Min({z \in LineEnds(buf) : z > x})
<1> DEFINE T == {z \in LineEnds(buf) : z > x}
<1>1. T \in SUBSET Nat /\ w \in T /\ x \in Nat
  BY EndsAre
<1>2. Min(T) = CHOOSE m \in T : \A n \in T : m <= n
  BY DEF Min
<1> HIDE DEF T
<1>3. \E m \in T : \A n \in T : m <= n
  BY <1>1, Least
<1>4. PICK m \in T : m = Min(T) /\ \A n \in T : m <= n
  BY <1>2, <1>3
<1>5. Follows(buf, x, m)
  <2>1. m \in LineEnds(buf) /\ x < m
    BY <1>1 DEF T
  <2>2. ASSUME NEW z \in LineEnds(buf), x < z, z < m PROVE FALSE
    <3>1. z \in T
      BY <1>1, <2>2, EndsAre DEF T
    <3> QED BY <1>1, <1>4, <2>2, <3>1
  <2> QED BY <2>1, <2>2 DEF Follows
<1> QED BY <1>1, <1>4, <1>5 DEF T

(* Part of what has been received, by its characters.                      *)
LEMMA PartIs ==
    ASSUME NEW s \in Received, NEW i \in 1 .. Len(s) + 1, NEW j \in i - 1 .. Len(s)
    PROVE  /\ SubSeq(s, i, j) \in Received /\ Len(SubSeq(s, i, j)) = j - i + 1
           /\ \A k \in 1 .. j - i + 1 : SubSeq(s, i, j)[k] = s[i + k - 1]
<1>1. Len(s) \in Nat /\ s \in [1 .. Len(s) -> Chars]
  BY DEF Received
<1>2. SubSeq(s, i, j) = [k \in 1 .. j - i + 1 |-> s[i + k - 1]]
  BY <1>1 DEF Received
<1>3. \A k \in 1 .. j - i + 1 : i + k - 1 \in 1 .. Len(s)
  BY <1>1
<1>4. \A k \in 1 .. j - i + 1 : s[i + k - 1] \in Chars
  BY <1>1, <1>3
<1>5. j - i + 1 \in Nat
  BY <1>1
<1> QED BY <1>2, <1>4, <1>5 DEF Received

LEMMA OverIs ==
    ASSUME NEW s \in Received, NEW i \in 1 .. Len(s) + 1, NEW j \in i - 1 .. Len(s), NEW S
    PROVE  Over(SubSeq(s, i, j), S) <=> \A k \in i .. j : s[k] \in S
<1> DEFINE p == SubSeq(s, i, j)
<1>1. /\ p \in Received /\ Len(p) = j - i + 1 /\ Len(s) \in Nat
      /\ \A k \in 1 .. j - i + 1 : p[k] = s[i + k - 1]
  BY PartIs DEF Received
<1>2. DOMAIN p = 1 .. j - i + 1
  BY <1>1 DEF Received
<1> HIDE DEF p
<1>3. Over(p, S) <=> \A k \in 1 .. j - i + 1 : s[i + k - 1] \in S
  BY <1>1, <1>2 DEF Over, Range
<1>4. ASSUME \A k \in 1 .. j - i + 1 : s[i + k - 1] \in S, NEW k \in i .. j PROVE s[k] \in S
  <2>1. k - i + 1 \in 1 .. j - i + 1 /\ i + (k - i + 1) - 1 = k
    BY <1>1
  <2> QED BY <1>4, <2>1
<1>5. ASSUME \A k \in i .. j : s[k] \in S, NEW k \in 1 .. j - i + 1 PROVE s[i + k - 1] \in S
  <2>1. i + k - 1 \in i .. j
    BY <1>1
  <2> QED BY <1>5, <2>1
<1> QED BY <1>3, <1>4, <1>5 DEF p

(* Line() is the line's characters.                                        *)
LEMMA LineIs ==
    ASSUME NEW buf \in Received, NEW x, NEW y, Follows(buf, x, y)
    PROVE  \E e : Content(buf, x, e, y) /\ Holds(buf, x, e, Line(buf, y))
<1>1. /\ x \in Nat /\ y \in Nat /\ x < y /\ y <= Len(buf) /\ Len(buf) \in Nat
      /\ y \in LineEnds(buf) /\ LastLf(buf, y) = x
  BY EndsAre, FollowsLast DEF Follows
<1> DEFINE l == SubSeq(buf, x + 1, y - 1)
<1>2. /\ l \in Received /\ Len(l) = y - 1 - x
      /\ \A k \in 1 .. y - 1 - x : l[k] = CharAt(buf, x + k - 1)
  <2>1. x + 1 \in 1 .. Len(buf) + 1 /\ y - 1 \in (x + 1) - 1 .. Len(buf)
    BY <1>1
  <2>2. /\ l \in Received /\ Len(l) = (y - 1) - (x + 1) + 1
        /\ \A k \in 1 .. (y - 1) - (x + 1) + 1 : l[k] = buf[x + 1 + k - 1]
    BY <2>1, PartIs
  <2>3. ASSUME NEW k \in 1 .. y - 1 - x PROVE l[k] = CharAt(buf, x + k - 1)
    <3>1. /\ k \in 1 .. (y - 1) - (x + 1) + 1 /\ x + 1 + k - 1 = (x + k - 1) + 1
          /\ x + k - 1 \in Nat /\ x + k - 1 < Len(buf)
      BY <1>1
    <3>2. CharAt(buf, x + k - 1) = buf[(x + k - 1) + 1]
      BY <3>1, CharIs
    <3> QED BY <2>2, <3>1, <3>2
  <2>4. (y - 1) - (x + 1) + 1 = y - 1 - x
    BY <1>1
  <2> HIDE DEF l
  <2> QED BY <2>2, <2>3, <2>4
<1>3. Line(buf, y) = IF l # <<>> /\ l[Len(l)] = "CR" THEN SubSeq(l, 1, Len(l) - 1) ELSE l
  BY <1>1 DEF Line, Last, Front
<1> HIDE DEF l
<1>4. l # <<>> <=> x < y - 1
  BY <1>1, <1>2 DEF Received
<1>5. CASE x < y - 1 /\ CharAt(buf, y - 2) = "CR"
  <2>1. l[Len(l)] = "CR"
    <3>1. Len(l) \in 1 .. y - 1 - x /\ x + Len(l) - 1 = y - 2
      BY <1>1, <1>2, <1>5
    <3> QED BY <1>2, <1>5, <3>1
  <2>2. Line(buf, y) = SubSeq(l, 1, Len(l) - 1)
    BY <1>3, <1>4, <1>5, <2>1
  <2>3. 1 \in 1 .. Len(l) + 1 /\ Len(l) - 1 \in 1 - 1 .. Len(l)
    BY <1>1, <1>2, <1>5
  <2>4. /\ Line(buf, y) \in Received /\ Len(Line(buf, y)) = (Len(l) - 1) - 1 + 1
        /\ \A k \in 1 .. (Len(l) - 1) - 1 + 1 : Line(buf, y)[k] = l[1 + k - 1]
    BY <1>2, <2>2, <2>3, PartIs
  <2>5. ASSUME NEW k \in 1 .. (y - 2) - x PROVE Line(buf, y)[k] = CharAt(buf, x + k - 1)
    <3>1. k \in 1 .. (Len(l) - 1) - 1 + 1 /\ k \in 1 .. y - 1 - x /\ 1 + k - 1 = k
      BY <1>1, <1>2
    <3> QED BY <1>2, <2>4, <3>1
  <2>6. Len(Line(buf, y)) = (y - 2) - x
    BY <1>1, <1>2, <2>4
  <2>7. Content(buf, x, y - 2, y)
    BY <1>1, <1>5 DEF Content, Eol
  <2> QED BY <2>4, <2>5, <2>6, <2>7 DEF Holds
<1>6. CASE ~ (x < y - 1 /\ CharAt(buf, y - 2) = "CR")
  <2>1. ASSUME x < y - 1 PROVE l[Len(l)] # "CR"
    <3>1. Len(l) \in 1 .. y - 1 - x /\ x + Len(l) - 1 = y - 2
      BY <1>1, <1>2, <2>1
    <3> QED BY <1>2, <1>6, <2>1, <3>1
  <2>2. Line(buf, y) = l
    BY <1>3, <1>4, <2>1
  <2>3. Content(buf, x, y - 1, y)
    <3>1. (y - 1) - 1 = y - 2
      BY <1>1
    <3> QED BY <1>1, <1>6, <3>1 DEF Content, Eol
  <2> QED BY <1>1, <1>2, <2>2, <2>3 DEF Holds
<1> QED BY <1>5, <1>6

LEMMA OneContent ==
    ASSUME NEW buf \in Received, NEW x \in Nat, NEW y \in Nat, NEW d, NEW e,
           Content(buf, x, d, y), Content(buf, x, e, y)
    PROVE  d = e
BY DEF Content, Eol

(* Text and the end of a line after it are a line.                         *)
LEMMA TextLine ==
    ASSUME NEW buf \in Received, NEW x \in {0} \cup LineEnds(buf), NEW e \in Nat, x <= e,
           NEW y \in Nat, Stretch(buf, x, e, Text), Eol(buf, e, y)
    PROVE  Follows(buf, x, y) /\ Content(buf, x, e, y)
<1>1. /\ x \in Nat /\ Len(buf) \in Nat /\ y \in LineEnds(buf) /\ y <= Len(buf)
      /\ (e = y - 1 \/ e = y - 2) /\ (e = y - 2 => CharAt(buf, e) = "CR")
  BY EndsAre DEF Eol
<1>2. "LF" \notin Text /\ "CR" \notin Text
  BY DEF Text, Graphic, Controls
<1>3. ASSUME NEW z \in LineEnds(buf), x < z, z < y PROVE FALSE
  <2>1. CharAt(buf, z - 1) = "LF" /\ z \in Nat
    BY EndsAre
  <2>2. z - 1 \in x .. e - 1 \/ z - 1 = e
    BY <1>1, <1>3, <2>1
  <2> QED BY <1>1, <1>2, <1>3, <2>1, <2>2 DEF Stretch
<1>4. ASSUME e = y - 1, x < e, CharAt(buf, e - 1) = "CR" PROVE FALSE
  <2>1. e - 1 \in x .. e - 1
    BY <1>1, <1>4
  <2> QED BY <1>2, <1>4, <2>1 DEF Stretch
<1> QED BY <1>1, <1>3, <1>4 DEF Follows, Content

-----------------------------------------------------------------------------
(* The characters from x to before e are a header.                         *)
HeaderAt(buf, x, e, first) ==
    /\ x < e /\ Stretch(buf, x, e, Text)
    /\ \/ ~ first /\ CharAt(buf, x) \in Blanks
       \/ \E a \in x + 1 .. e - 1 : Stretch(buf, x, a, TokenChars) /\ CharAt(buf, a) = ":"

LEMMA Classes ==
    /\ Blanks \subseteq Text /\ TokenChars \subseteq Text /\ ":" \in Text /\ Text \subseteq Chars
    /\ "LF" \notin Text /\ "CR" \notin Text /\ ":" \notin TokenChars
    /\ TokenChars \cap Blanks = {} /\ Blanks \subseteq Chars /\ "SP" \in Chars
BY DEF Blanks, TokenChars, Text, Graphic, Chars, Controls

(* The end of a line is no text.                                           *)
LEMMA EolChar ==
    ASSUME NEW buf \in Received, NEW e \in Nat, NEW y \in Nat, Eol(buf, e, y)
    PROVE  CharAt(buf, e) \in {"CR", "LF"} /\ e < Len(buf)
BY EndsAre DEF Eol

LEMMA HeaderTo ==
    ASSUME NEW buf \in Received, NEW x \in 0 .. Len(buf) - 1, NEW n, NEW y \in Nat
    PROVE  HeaderLine(buf, x, n) = y <=>
              \E e \in x .. Len(buf) - 1 : HeaderAt(buf, x, e, n = 0) /\ Eol(buf, e, y)
<1>1. Len(buf) \in Nat /\ x \in Nat /\ x \in 0 .. Len(buf) /\ x < Len(buf)
  BY DEF Received
<1> DEFINE r == HeaderName(buf, x, n)
<1>2. HeaderLine(buf, x, n) = IF r < 0 THEN r ELSE GetTokenToEol(buf, r)
  BY DEF HeaderLine, Then
<1>3. CASE n # 0 /\ CharAt(buf, x) \in Blanks
  <2>1. HeaderLine(buf, x, n) = GetTokenToEol(buf, x)
    BY <1>1, <1>2, <1>3 DEF HeaderName
  <2>2. HeaderLine(buf, x, n) = y <=>
           \E e \in x .. Len(buf) - 1 : Stretch(buf, x, e, Text) /\ Eol(buf, e, y)
    BY <1>1, <2>1, ToEolIs
  <2>3. ASSUME NEW e \in x .. Len(buf) - 1, Stretch(buf, x, e, Text), Eol(buf, e, y)
        PROVE  HeaderAt(buf, x, e, n = 0)
    <3>1. CharAt(buf, e) \in {"CR", "LF"} /\ e \in Nat
      BY <1>1, <2>3, EolChar
    <3>2. e # x
      BY <1>3, <3>1, Classes
    <3> QED BY <1>1, <1>3, <2>3, <3>2 DEF HeaderAt
  <2> QED BY <2>2, <2>3 DEF HeaderAt
<1>4. CASE ~ (n # 0 /\ CharAt(buf, x) \in Blanks)
  <2> DEFINE a == ParseToken(buf, x, ":")
  <2>1. r = IF a < 0 THEN a ELSE IF a = x THEN Failed ELSE Skip(buf, a + 1, Blanks)
    BY <1>4 DEF HeaderName, Then
  <2>2. /\ a \in {Failed, Partial} \cup Nat
        /\ \A z \in Nat : a = z <=>
              z \in x .. Len(buf) - 1 /\ CharAt(buf, z) = ":" /\ Stretch(buf, x, z, TokenChars)
    BY <1>1, TokenIs
  <2> HIDE DEF a
  <2>3. ASSUME HeaderLine(buf, x, n) = y
        PROVE  \E e \in x .. Len(buf) - 1 : HeaderAt(buf, x, e, n = 0) /\ Eol(buf, e, y)
    <3>1. ~ r < 0 /\ GetTokenToEol(buf, r) = y
      BY <1>2, <2>3
    <3>2. a \in Nat /\ a # x /\ r = Skip(buf, a + 1, Blanks)
      BY <2>1, <2>2, <3>1 DEF Failed, Partial
    <3>3. a \in x + 1 .. Len(buf) - 1 /\ CharAt(buf, a) = ":" /\ Stretch(buf, x, a, TokenChars)
      BY <1>1, <2>2, <3>2
    <3>4. a + 1 \in 0 .. Len(buf)
      BY <1>1, <3>3
    <3>5. /\ Skip(buf, a + 1, Blanks) \in {Failed, Partial} \cup Nat
          /\ \A z \in Nat : Skip(buf, a + 1, Blanks) = z <=>
                /\ z \in a + 1 .. Len(buf) - 1 /\ CharAt(buf, z) \notin Blanks
                /\ Stretch(buf, a + 1, z, Blanks)
      BY <3>4, SkipIs, Classes
    <3>6. r \in Nat
      BY <3>1, <3>2, <3>5 DEF Failed, Partial
    <3>7. r \in a + 1 .. Len(buf) - 1 /\ Stretch(buf, a + 1, r, Blanks) /\ r \in 0 .. Len(buf)
      BY <1>1, <3>2, <3>5, <3>6
    <3> HIDE DEF r
    <3>8. PICK e \in r .. Len(buf) - 1 : Stretch(buf, r, e, Text) /\ Eol(buf, e, y)
      BY <3>1, <3>7, ToEolIs
    <3>9. Stretch(buf, x, e, Text)
      <4> SUFFICES ASSUME NEW k \in x .. e - 1 PROVE CharAt(buf, k) \in Text
        BY DEF Stretch
      <4>1. k \in x .. a - 1 \/ k = a \/ k \in a + 1 .. r - 1 \/ k \in r .. e - 1
        BY <1>1, <3>3, <3>7
      <4> QED BY <3>3, <3>7, <3>8, <4>1, Classes DEF Stretch
    <3>10. e \in x .. Len(buf) - 1 /\ a \in x + 1 .. e - 1 /\ x < e
      BY <1>1, <3>3, <3>7
    <3> QED BY <3>3, <3>8, <3>9, <3>10 DEF HeaderAt
  <2>4. ASSUME NEW e \in x .. Len(buf) - 1, HeaderAt(buf, x, e, n = 0), Eol(buf, e, y)
        PROVE  HeaderLine(buf, x, n) = y
    <3>1. PICK z \in x + 1 .. e - 1 : Stretch(buf, x, z, TokenChars) /\ CharAt(buf, z) = ":"
      BY <1>4, <2>4 DEF HeaderAt
    <3>2. z \in Nat /\ z \in x .. Len(buf) - 1 /\ z # x /\ z + 1 \in 0 .. Len(buf)
      BY <1>1, <3>1
    <3>3. a = z /\ r = Skip(buf, z + 1, Blanks)
      BY <2>1, <2>2, <3>1, <3>2
    <3> DEFINE w == Scan(buf, z + 1, Chars \ Blanks)
    <3>4. /\ w \in z + 1 .. Len(buf) /\ (w # Len(buf) => CharAt(buf, w) \in Chars \ Blanks)
          /\ \A k \in z + 1 .. w - 1 : CharAt(buf, k) \notin Chars \ Blanks
      BY <3>2, ScanIs
    <3>5. r = CheckEof(buf, w)
      BY <3>3 DEF Skip
    <3> HIDE DEF w, r
    <3>6. CharAt(buf, e) \in {"CR", "LF"} /\ e \in Nat /\ e < Len(buf)
      BY <1>1, <2>4, EolChar
    <3>7. CharAt(buf, e) \in Chars \ Blanks
      BY <3>6 DEF Chars, Blanks
    <3>8. w <= e
      BY <1>1, <3>1, <3>4, <3>6, <3>7
    <3>9. w \in Nat /\ w \in 0 .. Len(buf) /\ r = w /\ e \in w .. Len(buf) - 1
      BY <1>1, <3>2, <3>4, <3>5, <3>6, <3>8 DEF CheckEof
    <3>10. Stretch(buf, w, e, Text)
      BY <1>1, <2>4, <3>2, <3>4 DEF HeaderAt, Stretch
    <3>11. GetTokenToEol(buf, w) = y
      BY <2>4, <3>9, <3>10, ToEolIs
    <3> QED BY <1>2, <3>9, <3>11 DEF r
  <2> QED BY <2>3, <2>4
<1> QED BY <1>3, <1>4

(* A header by its line is a header by its positions.                      *)
LEMMA HeaderText ==
    ASSUME NEW buf \in Received, NEW x \in Nat, NEW e \in Nat, x <= e,
           NEW l, Holds(buf, x, e, l), NEW first \in BOOLEAN
    PROVE  l # <<>> /\ IsHeader(l, first) <=> HeaderAt(buf, x, e, first)
<1>1. l \in Received /\ Len(l) = e - x /\ \A k \in 1 .. e - x : l[k] = CharAt(buf, x + k - 1)
  BY DEF Holds
<1>2. l # <<>> <=> x < e
  BY <1>1 DEF Received
<1>3. \A k \in x .. e - 1 : k - x + 1 \in 1 .. e - x /\ l[k - x + 1] = CharAt(buf, k)
  <2> TAKE k \in x .. e - 1
  <2>1. k - x + 1 \in 1 .. e - x /\ x + (k - x + 1) - 1 = k
    OBVIOUS
  <2> QED BY <1>1, <2>1
<1>4. Over(l, Text) <=> Stretch(buf, x, e, Text)
  <2>1. DOMAIN l = 1 .. e - x
    BY <1>1 DEF Received
  <2>2. Over(l, Text) <=> \A k \in 1 .. e - x : l[k] \in Text
    BY <2>1 DEF Over, Range
  <2>3. ASSUME Stretch(buf, x, e, Text), NEW k \in 1 .. e - x PROVE l[k] \in Text
    <3>1. x + k - 1 \in x .. e - 1
      OBVIOUS
    <3> QED BY <1>1, <2>3, <3>1 DEF Stretch
  <2> QED BY <1>3, <2>2, <2>3 DEF Stretch
<1>5. ASSUME x < e PROVE l[1] = CharAt(buf, x)
  <2>1. 1 \in 1 .. e - x /\ x + 1 - 1 = x
    BY <1>5
  <2> QED BY <1>1, <2>1
<1>6. ASSUME NEW a \in 2 .. Len(l)
      PROVE  /\ x + a - 1 \in x + 1 .. e - 1 /\ l[a] = CharAt(buf, x + a - 1)
             /\ Over(SubSeq(l, 1, a - 1), TokenChars) => Stretch(buf, x, x + a - 1, TokenChars)
  <2>1. /\ a \in 1 .. e - x /\ x + a - 1 \in x + 1 .. e - 1
        /\ 1 \in 1 .. Len(l) + 1 /\ a - 1 \in 1 - 1 .. Len(l)
    BY <1>1
  <2>2. Over(SubSeq(l, 1, a - 1), TokenChars) <=> \A k \in 1 .. a - 1 : l[k] \in TokenChars
    BY <1>1, <2>1, OverIs
  <2>3. ASSUME \A k \in 1 .. a - 1 : l[k] \in TokenChars, NEW k \in x .. (x + a - 1) - 1
        PROVE  CharAt(buf, k) \in TokenChars
    <3>1. k \in x .. e - 1 /\ k - x + 1 \in 1 .. a - 1
      BY <2>1
    <3> QED BY <1>3, <2>3, <3>1
  <2> QED BY <1>1, <2>1, <2>2, <2>3 DEF Stretch
<1>7. ASSUME NEW z \in x + 1 .. e - 1
      PROVE  /\ z - x + 1 \in 2 .. Len(l) /\ l[z - x + 1] = CharAt(buf, z)
             /\ Stretch(buf, x, z, TokenChars) => Over(SubSeq(l, 1, (z - x + 1) - 1), TokenChars)
  <2>1. /\ z - x + 1 \in 2 .. Len(l) /\ 1 \in 1 .. Len(l) + 1 /\ z \in x .. e - 1
        /\ (z - x + 1) - 1 \in 1 - 1 .. Len(l)
    BY <1>1
  <2>2. Over(SubSeq(l, 1, (z - x + 1) - 1), TokenChars) <=>
           \A k \in 1 .. (z - x + 1) - 1 : l[k] \in TokenChars
    <3> DEFINE j == (z - x + 1) - 1
    <3>1. j \in 1 - 1 .. Len(l) /\ l \in Received /\ 1 \in 1 .. Len(l) + 1
      BY <1>1, <2>1
    <3> HIDE DEF j
    <3>2. Over(SubSeq(l, 1, j), TokenChars) <=> \A k \in 1 .. j : l[k] \in TokenChars
      BY <3>1, OverIs
    <3> QED BY <3>2 DEF j
  <2>3. ASSUME Stretch(buf, x, z, TokenChars), NEW k \in 1 .. (z - x + 1) - 1
        PROVE  l[k] \in TokenChars
    <3>1. k \in 1 .. e - x /\ x + k - 1 \in x .. z - 1
      BY <2>1
    <3> QED BY <1>1, <2>3, <3>1 DEF Stretch
  <2> QED BY <1>3, <2>1, <2>2, <2>3
<1>8. ASSUME l # <<>>, IsHeader(l, first) PROVE HeaderAt(buf, x, e, first)
  BY <1>2, <1>4, <1>5, <1>6, <1>8 DEF IsHeader, HeaderAt
<1>9. ASSUME HeaderAt(buf, x, e, first) PROVE l # <<>> /\ IsHeader(l, first)
  BY <1>2, <1>4, <1>5, <1>7, <1>9 DEF IsHeader, HeaderAt
<1> QED BY <1>8, <1>9

(* A header of parse_headers() is the next line, if that is a header.      *)
LEMMA HeaderLineIs ==
    ASSUME NEW buf \in Received, NEW x \in LineEnds(buf), x < Len(buf), NEW n, NEW y \in Nat
    PROVE  HeaderLine(buf, x, n) = y <=>
              Follows(buf, x, y) /\ Line(buf, y) # <<>> /\ IsHeader(Line(buf, y), n = 0)
<1>1. x \in Nat /\ Len(buf) \in Nat /\ x \in 0 .. Len(buf) - 1
  BY EndsAre
<1>2. ASSUME HeaderLine(buf, x, n) = y
      PROVE  Follows(buf, x, y) /\ Line(buf, y) # <<>> /\ IsHeader(Line(buf, y), n = 0)
  <2>1. PICK e \in x .. Len(buf) - 1 : HeaderAt(buf, x, e, n = 0) /\ Eol(buf, e, y)
    BY <1>1, <1>2, HeaderTo
  <2>2. e \in Nat /\ x <= e
    BY <1>1
  <2>3. Follows(buf, x, y) /\ Content(buf, x, e, y)
    BY <2>1, <2>2, TextLine DEF HeaderAt
  <2>4. PICK d : Content(buf, x, d, y) /\ Holds(buf, x, d, Line(buf, y))
    BY <2>3, LineIs
  <2>5. d = e
    BY <1>1, <2>3, <2>4, OneContent
  <2> QED BY <1>1, <2>1, <2>2, <2>3, <2>4, <2>5, HeaderText
<1>3. ASSUME Follows(buf, x, y), Line(buf, y) # <<>>, IsHeader(Line(buf, y), n = 0)
      PROVE  HeaderLine(buf, x, n) = y
  <2>1. PICK e : Content(buf, x, e, y) /\ Holds(buf, x, e, Line(buf, y))
    BY <1>3, LineIs
  <2>2. e \in Nat /\ x <= e /\ e \in x .. Len(buf) - 1 /\ Eol(buf, e, y)
    BY <1>1, <1>3, <2>1, EndsAre DEF Content, Follows
  <2>3. HeaderAt(buf, x, e, n = 0)
    BY <1>1, <1>3, <2>1, <2>2, HeaderText
  <2> QED BY <1>1, <2>2, <2>3, HeaderTo
<1> QED BY <1>2, <1>3

LEMMA EmptyLineIs ==
    ASSUME NEW buf \in Received, NEW x \in {0} \cup LineEnds(buf), x < Len(buf), NEW y \in Nat
    PROVE  LineEnd(buf, x) = y <=> Follows(buf, x, y) /\ Line(buf, y) = <<>>
<1>1. x \in Nat /\ Len(buf) \in Nat /\ (LineEnd(buf, x) = y <=> Eol(buf, x, y))
  BY EndsAre, LineEndIs
<1>2. ASSUME Eol(buf, x, y) PROVE Follows(buf, x, y) /\ Line(buf, y) = <<>>
  <2>1. Stretch(buf, x, x, Text)
    BY <1>1 DEF Stretch
  <2>2. Follows(buf, x, y) /\ Content(buf, x, x, y)
    BY <1>1, <1>2, <2>1, TextLine
  <2>3. PICK e : Content(buf, x, e, y) /\ Holds(buf, x, e, Line(buf, y))
    BY <2>2, LineIs
  <2>4. e = x
    BY <1>1, <2>2, <2>3, OneContent
  <2>5. Line(buf, y) \in Seq(Chars) /\ Len(Line(buf, y)) = 0
    BY <1>1, <2>3, <2>4 DEF Holds, Received
  <2> QED BY <2>2, <2>5
<1>3. ASSUME Follows(buf, x, y), Line(buf, y) = <<>> PROVE Eol(buf, x, y)
  <2>1. PICK e : Content(buf, x, e, y) /\ Holds(buf, x, e, Line(buf, y))
    BY <1>3, LineIs
  <2>2. e \in Int /\ e - x = 0
    BY <1>1, <1>3, <2>1 DEF Holds, Content
  <2>3. e = x
    BY <1>1, <2>2
  <2> QED BY <2>1, <2>3 DEF Content
<1> QED BY <1>1, <1>2, <1>3

(* A line that is empty or a header begins as one.                         *)
LEMMA LineBegins ==
    ASSUME NEW buf \in Received, NEW x \in LineEnds(buf), NEW y, Follows(buf, x, y), NEW f \in BOOLEAN
    PROVE  /\ Line(buf, y) = <<>> => CharAt(buf, x) \in {"CR", "LF"}
           /\ Line(buf, y) # <<>> /\ IsHeader(Line(buf, y), f) => CharAt(buf, x) \notin {"CR", "LF"}
<1>1. PICK e : Content(buf, x, e, y) /\ Holds(buf, x, e, Line(buf, y))
  BY LineIs
<1>2. x \in Nat /\ y \in Nat /\ e \in Nat /\ x <= e /\ e \in x .. y - 1 /\ Eol(buf, e, y)
  BY <1>1, EndsAre DEF Content, Follows
<1>3. ASSUME Line(buf, y) = <<>> PROVE CharAt(buf, x) \in {"CR", "LF"}
  <2>1. e = x
    BY <1>1, <1>2, <1>3 DEF Holds
  <2> QED BY <1>2, <2>1, EolChar
<1>4. ASSUME Line(buf, y) # <<>>, IsHeader(Line(buf, y), f) PROVE CharAt(buf, x) \notin {"CR", "LF"}
  <2>1. HeaderAt(buf, x, e, f)
    BY <1>1, <1>2, <1>4, HeaderText
  <2>2. x \in x .. e - 1 /\ Stretch(buf, x, e, Text)
    BY <1>2, <2>1 DEF HeaderAt
  <2> QED BY <2>2, Classes DEF Stretch
<1> QED BY <1>3, <1>4

(* The ends of lines between x and the last character.                     *)
Between(buf, x) == {z \in LineEnds(buf) : x < z /\ z < Len(buf)}

(* From x on there are headers, at most as many as there is room for, and  *)
(* an empty line to the end.                                               *)
Rest(buf, x, room) ==
    /\ Len(buf) \in LineEnds(buf) /\ x < Len(buf) /\ Line(buf, Len(buf)) = <<>>
    /\ \A z \in Between(buf, x) :
          /\ Line(buf, z) # <<>>
          /\ IsHeader(Line(buf, z), LastLf(buf, z) = x /\ room = MAX_HEADERS)
    /\ Cardinality(Between(buf, x)) <= room

LEMMA RestEnds ==
    ASSUME NEW buf \in Received, NEW x, Follows(buf, x, Len(buf)), NEW room \in Nat
    PROVE  Rest(buf, x, room) <=> Line(buf, Len(buf)) = <<>>
<1>1. Between(buf, x) = {}
  BY DEF Between, Follows
<1>2. Cardinality(Between(buf, x)) = 0
  BY <1>1, FS_EmptySet
<1> QED BY <1>1, <1>2 DEF Rest, Follows

LEMMA RestSteps ==
    ASSUME NEW buf \in Received, NEW x, NEW y, Follows(buf, x, y), y < Len(buf),
           NEW room \in 1 .. MAX_HEADERS
    PROVE  Rest(buf, x, room) <=>
              /\ Line(buf, y) # <<>> /\ IsHeader(Line(buf, y), room = MAX_HEADERS)
              /\ Rest(buf, y, room - 1)
<1>1. /\ Len(buf) \in Nat /\ x \in Nat /\ y \in Nat /\ x < y /\ y \in LineEnds(buf)
      /\ LastLf(buf, y) = x
  BY EndsAre, FollowsLast DEF Follows
<1>2. Between(buf, x) = Between(buf, y) \cup {y} /\ y \notin Between(buf, y)
  <2>1. \A z \in LineEnds(buf) : z \in Nat /\ (x < z <=> (y < z \/ z = y))
    BY <1>1, EndsAre DEF Follows
  <2>2. y \notin Between(buf, y) /\ y \in Between(buf, x)
    BY <1>1 DEF Between
  <2>3. \A z \in Between(buf, x) : z \in Between(buf, y) \/ z = y
    BY <2>1 DEF Between
  <2>4. \A z \in Between(buf, y) : z \in Between(buf, x)
    BY <2>1 DEF Between
  <2> QED BY <2>2, <2>3, <2>4
<1>3. Cardinality(Between(buf, x)) = Cardinality(Between(buf, y)) + 1
      /\ Cardinality(Between(buf, y)) \in Nat
  <2>1. IsFiniteSet(Between(buf, y))
    <3>1. Between(buf, y) \in SUBSET LineEnds(buf)
      BY DEF Between
    <3> QED BY <3>1, EndsAre, FS_Subset
  <2> QED BY <1>2, <2>1, FS_AddElement, FS_CardinalityType
<1>4. ASSUME NEW z \in Between(buf, y)
      PROVE  /\ IsHeader(Line(buf, z), LastLf(buf, z) = x /\ room = MAX_HEADERS) <=>
                   IsHeader(Line(buf, z), FALSE)
             /\ IsHeader(Line(buf, z), LastLf(buf, z) = y /\ room - 1 = MAX_HEADERS) <=>
                   IsHeader(Line(buf, z), FALSE)
  <2>1. z \in LineEnds(buf) /\ y < z
    BY DEF Between
  <2>2. Follows(buf, LastLf(buf, z), z)
    BY <2>1, LastLfIs
  <2>3. LastLf(buf, z) # x
    BY <1>1, <2>1, <2>2 DEF Follows
  <2>4. room - 1 # MAX_HEADERS
    BY ParserAssumption
  <2>5. (LastLf(buf, z) = x /\ room = MAX_HEADERS) = FALSE
    BY <2>3
  <2>6. (LastLf(buf, z) = y /\ room - 1 = MAX_HEADERS) = FALSE
    BY <2>4
  <2> QED BY <2>5, <2>6
<1>5. IsHeader(Line(buf, y), LastLf(buf, y) = x /\ room = MAX_HEADERS) <=>
         IsHeader(Line(buf, y), room = MAX_HEADERS)
  <2>1. (LastLf(buf, y) = x /\ room = MAX_HEADERS) = (room = MAX_HEADERS)
    BY <1>1
  <2> QED BY <2>1
<1>6. Cardinality(Between(buf, x)) <= room <=> Cardinality(Between(buf, y)) <= room - 1
  BY <1>3, ParserAssumption
<1>7. x < Len(buf)
  BY <1>1
<1> QED BY <1>2, <1>4, <1>5, <1>6, <1>7 DEF Rest

(* With no room there is no line before the last one.                      *)
LEMMA RestNone ==
    ASSUME NEW buf \in Received, NEW x, NEW y, Follows(buf, x, y), y < Len(buf)
    PROVE  ~ Rest(buf, x, 0)
<1>1. IsFiniteSet(Between(buf, x)) /\ y \in Between(buf, x)
  <2>1. Between(buf, x) \in SUBSET LineEnds(buf)
    BY DEF Between
  <2> QED BY <2>1, EndsAre, FS_Subset DEF Between, Follows
<1>2. Cardinality(Between(buf, x)) \in Nat /\ Cardinality(Between(buf, x)) # 0
  BY <1>1, FS_CardinalityType, FS_EmptySet
<1> QED BY <1>2 DEF Rest

LEMMA SelfKept ==
    ASSUME NEW buf \in Received PROVE Extends(buf, buf)
BY DEF Received, Extends

(* parse_headers() goes to the end of what has been received if that is    *)
(* what the rest of a request looks like.                                  *)
Accepts(buf, room) ==
    \A x \in LineEnds(buf) : ParseHeaders(buf)[room][x] = Len(buf) <=> Rest(buf, x, room)

LEMMA HeadersAccept ==
    ASSUME NEW buf \in Received, NEW room \in 0 .. MAX_HEADERS,
           room # 0 => Accepts(buf, room - 1)
    PROVE  Accepts(buf, room)
<1> SUFFICES ASSUME NEW x \in LineEnds(buf)
             PROVE  ParseHeaders(buf)[room][x] = Len(buf) <=> Rest(buf, x, room)
  BY DEF Accepts
<1> DEFINE f == ParseHeaders(buf)[room]
           g == ParseHeaders(buf)[room - 1]
           h == HeaderLine(buf, x, MAX_HEADERS - room)
<1>1. Len(buf) \in Nat /\ x \in Nat /\ x <= Len(buf) /\ x \in 0 .. Len(buf)
  BY EndsAre
<1>2. MAX_HEADERS \in Nat /\ room \in Nat /\ (MAX_HEADERS - room = 0 <=> room = MAX_HEADERS)
  BY ParserAssumption
<1>3. f = Iteration(buf, g, room)
  BY HeadersAre
<1> HIDE DEF f, g
<1>4. f[x] = IF x = Len(buf) THEN Partial
             ELSE IF CharAt(buf, x) \in {"CR", "LF"} THEN LineEnd(buf, x)
             ELSE IF room = 0 THEN Failed
             ELSE IF h < 0 THEN h ELSE g[h]
  BY <1>1, <1>3 DEF Iteration, Then
<1> HIDE DEF h
<1>5. CASE x = Len(buf)
  BY <1>1, <1>4, <1>5 DEF Rest, Partial, f
<1>6. ASSUME Rest(buf, x, room)
      PROVE  /\ Len(buf) \in LineEnds(buf) /\ x < Len(buf) /\ Line(buf, Len(buf)) = <<>>
             /\ \E y \in LineEnds(buf) : Follows(buf, x, y) /\ y <= Len(buf)
  <2>1. Len(buf) \in LineEnds(buf) /\ x < Len(buf) /\ Line(buf, Len(buf)) = <<>>
    BY <1>6 DEF Rest
  <2> QED BY <2>1, NextEnd DEF Follows
<1>7. CASE x # Len(buf) /\ CharAt(buf, x) \in {"CR", "LF"}
  <2>1. f[x] = LineEnd(buf, x) /\ x < Len(buf)
    BY <1>1, <1>4, <1>7
  <2>2. f[x] = Len(buf) <=> Follows(buf, x, Len(buf)) /\ Line(buf, Len(buf)) = <<>>
    BY <1>1, <2>1, EmptyLineIs
  <2>3. ASSUME Rest(buf, x, room) PROVE Follows(buf, x, Len(buf)) /\ Line(buf, Len(buf)) = <<>>
    <3>1. PICK y \in LineEnds(buf) : Follows(buf, x, y) /\ y <= Len(buf)
      BY <1>6, <2>3
    <3>2. ASSUME y < Len(buf) PROVE FALSE
      <4>1. y \in Between(buf, x)
        BY <3>1, <3>2 DEF Between, Follows
      <4>2. /\ Line(buf, y) # <<>>
            /\ IsHeader(Line(buf, y), LastLf(buf, y) = x /\ room = MAX_HEADERS)
        BY <2>3, <4>1 DEF Rest
      <4> QED BY <1>7, <3>1, <4>2, LineBegins
    <3>3. y = Len(buf)
      BY <1>1, <3>1, <3>2, EndsAre
    <3> QED BY <1>6, <2>3, <3>1, <3>3
  <2> QED BY <1>2, <2>2, <2>3, RestEnds DEF f
<1>8. ASSUME x # Len(buf), CharAt(buf, x) \notin {"CR", "LF"}, Rest(buf, x, room)
      PROVE  \E y \in LineEnds(buf) : Follows(buf, x, y) /\ y < Len(buf)
  <2>1. PICK y \in LineEnds(buf) : Follows(buf, x, y) /\ y <= Len(buf)
    BY <1>6, <1>8
  <2>2. y # Len(buf)
    BY <1>6, <1>8, <2>1, LineBegins
  <2> QED BY <1>1, <2>1, <2>2, EndsAre
<1>9. CASE x # Len(buf) /\ CharAt(buf, x) \notin {"CR", "LF"} /\ room = 0
  <2>1. f[x] = Failed
    BY <1>4, <1>9
  <2>2. ~ Rest(buf, x, room)
    BY <1>8, <1>9, RestNone
  <2> QED BY <1>1, <2>1, <2>2 DEF Failed, f
<1>10. CASE x # Len(buf) /\ CharAt(buf, x) \notin {"CR", "LF"} /\ room # 0
  <2>1. f[x] = (IF h < 0 THEN h ELSE g[h]) /\ x < Len(buf) /\ room \in 1 .. MAX_HEADERS
    BY <1>1, <1>2, <1>4, <1>10
  <2>2. \A y \in Nat : h = y <=>
           Follows(buf, x, y) /\ Line(buf, y) # <<>> /\ IsHeader(Line(buf, y), MAX_HEADERS - room = 0)
    BY <2>1, HeaderLineIs DEF h
  <2>3. \A l : IsHeader(l, MAX_HEADERS - room = 0) <=> IsHeader(l, room = MAX_HEADERS)
    <3>1. (MAX_HEADERS - room = 0) = (room = MAX_HEADERS)
      BY <1>2
    <3> QED BY <3>1
  <2>4. \A y \in LineEnds(buf) : g[y] = Len(buf) <=> Rest(buf, y, room - 1)
    BY <1>10 DEF Accepts, g
  <2>5. h \in {Failed, Partial} \cup Nat
    <3>1. x \in 0 .. Len(buf) - 1
      BY <1>1, <2>1
    <3>2. Firm(h, h, x, Len(buf))
      BY <3>1, SelfKept, HeaderKept DEF h
    <3> QED BY <1>1, <3>2 DEF Firm
  <2>6. ASSUME f[x] = Len(buf) PROVE Rest(buf, x, room)
    <3>1. h \in Nat /\ g[h] = Len(buf)
      BY <1>1, <2>1, <2>5, <2>6 DEF Failed, Partial
    <3>2. Follows(buf, x, h) /\ Line(buf, h) # <<>> /\ IsHeader(Line(buf, h), room = MAX_HEADERS)
      BY <2>2, <2>3, <3>1
    <3>3. Rest(buf, h, room - 1) /\ h < Len(buf)
      BY <2>4, <3>1, <3>2 DEF Follows, Rest
    <3> QED BY <2>1, <3>2, <3>3, RestSteps
  <2>7. ASSUME Rest(buf, x, room) PROVE f[x] = Len(buf)
    <3>1. PICK y \in LineEnds(buf) : Follows(buf, x, y) /\ y < Len(buf)
      BY <1>8, <1>10, <2>7
    <3>2. /\ Line(buf, y) # <<>> /\ IsHeader(Line(buf, y), room = MAX_HEADERS)
          /\ Rest(buf, y, room - 1)
      BY <2>1, <2>7, <3>1, RestSteps
    <3>3. y \in Nat /\ h = y
      BY <2>2, <2>3, <3>1, <3>2, EndsAre
    <3>4. g[y] = Len(buf)
      BY <2>4, <3>2
    <3> QED BY <2>1, <3>3, <3>4
  <2> QED BY <2>6, <2>7 DEF f
<1> QED BY <1>5, <1>7, <1>9, <1>10

LEMMA AllHeadersAccept ==
    ASSUME NEW buf \in Received PROVE Accepts(buf, MAX_HEADERS)
<1> DEFINE T == {room \in 0 .. MAX_HEADERS : Accepts(buf, room)}
<1>1. MAX_HEADERS \in Nat
  BY ParserAssumption
<1>2. 0 \in T
  BY <1>1, HeadersAccept
<1>3. ASSUME NEW n \in 1 .. MAX_HEADERS, n - 1 \in T PROVE n \in T
  BY <1>1, <1>3, HeadersAccept
<1> HIDE DEF T
<1>4. \A n \in 0 .. MAX_HEADERS : n \in T
  BY <1>1, <1>2, <1>3, UpTo
<1> QED BY <1>1, <1>4 DEF T

-----------------------------------------------------------------------------
(* The version literal and the digit after it, at d.                       *)
Literal == VERSION \o <<"1">>
LiteralAt(buf, d) == \A k \in 1 .. Len(VERSION) + 1 : CharAt(buf, d + k - 1) = Literal[k]

LEMMA LiteralIs ==
    /\ Len(VERSION) \in Nat /\ Literal \in Received /\ Len(Literal) = Len(VERSION) + 1
    /\ \A k \in 1 .. Len(VERSION) : Literal[k] = VERSION[k]
    /\ Literal[Len(VERSION) + 1] = "1"
    /\ \A k \in 1 .. Len(VERSION) + 1 : Literal[k] \in Graphic \ {"SP"}
<1>1. /\ VERSION \in Seq(Graphic \ {"SP"}) /\ <<"1">> \in Seq(Graphic \ {"SP"})
      /\ Len(VERSION) \in Nat /\ Len(<<"1">>) = 1 /\ <<"1">>[1] = "1"
  <2>1. Chars \ (Controls \cup {"SP"}) = Graphic \ {"SP"} /\ "1" \in Graphic \ {"SP"}
    BY DEF Graphic, Chars, Controls
  <2> QED BY <2>1, ParserAssumption
<1>2. Literal \in Seq(Graphic \ {"SP"}) /\ Len(Literal) = Len(VERSION) + 1
  BY <1>1 DEF Literal
<1>3. \A k \in 1 .. Len(VERSION) : Literal[k] = VERSION[k]
  BY <1>1 DEF Literal
<1>4. Literal[Len(VERSION) + 1] = "1"
  BY <1>1 DEF Literal
<1>5. Literal \in Seq(Chars)
  <2>1. Graphic \ {"SP"} \subseteq Chars
    BY DEF Graphic
  <2>2. \A k \in 1 .. Len(Literal) : Literal[k] \in Chars
    BY <1>2, <2>1
  <2>3. Literal = [k \in 1 .. Len(Literal) |-> Literal[k]] /\ Len(Literal) \in Nat
    BY <1>2
  <2> QED BY <2>2, <2>3
<1> QED BY <1>1, <1>2, <1>3, <1>4, <1>5 DEF Received

(* What parse_http_version() compares.                                     *)
LEMMA VersionIs ==
    ASSUME NEW buf \in Received, NEW d \in 0 .. Len(buf)
    PROVE  /\ ParseHttpVersion(buf, d) \in {Failed, Partial} \cup Nat
           /\ \A v \in Nat : ParseHttpVersion(buf, d) = v <=>
                 v = d + Len(VERSION) + 1 /\ v < Len(buf) /\ LiteralAt(buf, d)
<1> DEFINE m == d + Len(VERSION)
<1>1. Len(buf) \in Nat /\ d \in Nat /\ Len(VERSION) \in Nat /\ m \in Nat
  BY LiteralIs DEF Received
<1>2. ASSUME m + 1 < Len(buf)
      PROVE  SubSeq(buf, d + 1, m) = VERSION /\ CharAt(buf, m) = "1" <=> LiteralAt(buf, d)
  <2> DEFINE p == SubSeq(buf, d + 1, m)
  <2>1. /\ p \in Received /\ Len(p) = Len(VERSION)
        /\ \A k \in 1 .. Len(VERSION) : p[k] = CharAt(buf, d + k - 1)
    <3>1. d + 1 \in 1 .. Len(buf) + 1 /\ m \in (d + 1) - 1 .. Len(buf) /\ m - (d + 1) + 1 = Len(VERSION)
      BY <1>1, <1>2
    <3>2. /\ p \in Received /\ Len(p) = m - (d + 1) + 1
          /\ \A k \in 1 .. m - (d + 1) + 1 : p[k] = buf[d + 1 + k - 1]
      BY <3>1, PartIs
    <3>3. ASSUME NEW k \in 1 .. Len(VERSION) PROVE buf[d + 1 + k - 1] = CharAt(buf, d + k - 1)
      <4>1. d + k - 1 \in Nat /\ d + k - 1 < Len(buf) /\ d + 1 + k - 1 = (d + k - 1) + 1
        BY <1>1, <1>2
      <4> QED BY <4>1, CharIs
    <3> HIDE DEF p, m
    <3> QED BY <3>1, <3>2, <3>3
  <2>2. p = VERSION <=> \A k \in 1 .. Len(VERSION) : CharAt(buf, d + k - 1) = VERSION[k]
    <3>1. p \in Seq(Chars) /\ VERSION \in Seq(Chars \ (Controls \cup {"SP"}))
      BY <2>1, ParserAssumption DEF Received
    <3> HIDE DEF p
    <3>2. p = [k \in 1 .. Len(p) |-> p[k]] /\ VERSION = [k \in 1 .. Len(VERSION) |-> VERSION[k]]
      BY <3>1
    <3> QED BY <2>1, <3>2
  <2>3. d + (Len(VERSION) + 1) - 1 = m
    BY <1>1
  <2>4. LiteralAt(buf, d) <=>
           /\ \A k \in 1 .. Len(VERSION) : CharAt(buf, d + k - 1) = VERSION[k]
           /\ CharAt(buf, m) = "1"
    <3>1. \A k : k \in 1 .. Len(VERSION) + 1 <=> k \in 1 .. Len(VERSION) \/ k = Len(VERSION) + 1
      BY <1>1
    <3> HIDE DEF m
    <3> QED BY <2>3, <3>1, LiteralIs DEF LiteralAt
  <2> QED BY <2>2, <2>4
<1>3. ParseHttpVersion(buf, d) =
        IF m + 1 < Len(buf)
        THEN IF SubSeq(buf, d + 1, m) = VERSION /\ CharAt(buf, m) = "1" THEN m + 1 ELSE Failed
        ELSE Partial
  BY <1>1 DEF ParseHttpVersion
<1> HIDE DEF m
<1>4. ParseHttpVersion(buf, d) =
        IF m + 1 < Len(buf) THEN IF LiteralAt(buf, d) THEN m + 1 ELSE Failed ELSE Partial
  BY <1>2, <1>3
<1> QED BY <1>1, <1>4 DEF Failed, Partial, m

(* The characters from x to before e are a request line.                   *)
RequestParts(buf, x, a, b, c, d, e) ==
    /\ x < a /\ a < b /\ b < c /\ c < d /\ e = d + Len(VERSION) + 1
    /\ Stretch(buf, x, a, TokenChars) /\ Stretch(buf, a, b, {"SP"})
    /\ Stretch(buf, b, c, Graphic \ {"SP"}) /\ Stretch(buf, c, d, {"SP"})
    /\ LiteralAt(buf, d)
RequestAt(buf, x, e) ==
    \E a \in Nat : \E b \in Nat : \E c \in Nat : \E d \in Nat : RequestParts(buf, x, a, b, c, d, e)

LEMMA RequestIsText ==
    ASSUME NEW buf \in Received, NEW x \in Nat, NEW e \in Nat, RequestAt(buf, x, e)
    PROVE  x < e /\ Stretch(buf, x, e, Text) /\ CharAt(buf, x) \in TokenChars
<1>1. PICK a \in Nat : \E b \in Nat : \E c \in Nat : \E d \in Nat : RequestParts(buf, x, a, b, c, d, e)
  BY DEF RequestAt
<1>2. PICK b \in Nat : \E c \in Nat : \E d \in Nat : RequestParts(buf, x, a, b, c, d, e)
  BY <1>1
<1>3. PICK c \in Nat : \E d \in Nat : RequestParts(buf, x, a, b, c, d, e)
  BY <1>2
<1>4. PICK d \in Nat : RequestParts(buf, x, a, b, c, d, e)
  BY <1>3
<1>5. Len(VERSION) \in Nat /\ x < a /\ a < b /\ b < c /\ c < d /\ e = d + Len(VERSION) + 1
  BY <1>4, LiteralIs DEF RequestParts
<1>6. TokenChars \subseteq Text /\ {"SP"} \subseteq Text /\ Graphic \ {"SP"} \subseteq Text
  BY DEF Text, Graphic, TokenChars, Chars, Controls
<1>7. ASSUME NEW k \in x .. e - 1 PROVE CharAt(buf, k) \in Text
  <2>1. k \in x .. a - 1 \/ k \in a .. b - 1 \/ k \in b .. c - 1 \/ k \in c .. d - 1 \/ k \in d .. e - 1
    BY <1>5
  <2>2. ASSUME k \in d .. e - 1 PROVE CharAt(buf, k) \in Text
    <3>1. k - d + 1 \in 1 .. Len(VERSION) + 1 /\ d + (k - d + 1) - 1 = k
      BY <1>5, <2>2
    <3>2. CharAt(buf, d + (k - d + 1) - 1) = Literal[k - d + 1]
      BY <1>4, <3>1 DEF RequestParts, LiteralAt
    <3> QED BY <1>6, <3>1, <3>2, LiteralIs
  <2> QED BY <1>4, <1>6, <2>1, <2>2 DEF RequestParts, Stretch
<1>8. x \in x .. a - 1
  BY <1>5
<1> QED BY <1>4, <1>5, <1>7, <1>8 DEF RequestParts, Stretch

(* parse_request() reads a request line and the end of the line.           *)
LEMMA RequestTo ==
    ASSUME NEW buf \in Received, NEW x \in 0 .. Len(buf), Method(buf) = x, NEW y \in Nat
    PROVE  Headers(buf) = y <=> \E e \in x .. Len(buf) - 1 : RequestAt(buf, x, e) /\ Eol(buf, e, y)
<1> DEFINE a == MethodEnd(buf)
           b == Path(buf)
           c == PathEnd(buf)
           d == Version(buf)
           v == VersionEnd(buf)
<1>1. Len(buf) \in Nat /\ x \in Nat /\ Len(VERSION) \in Nat
  BY LiteralIs DEF Received
<1>2. a = ParseToken(buf, x, "SP")
  BY <1>1 DEF MethodEnd, Then
<1>3. /\ b = IF a < 0 THEN a ELSE Skip(buf, a + 1, {"SP"})
      /\ c = IF b < 0 THEN b ELSE AdvanceToken(buf, b)
      /\ d = IF c < 0 THEN c ELSE Skip(buf, c + 1, {"SP"})
      /\ v = IF d < 0 THEN d ELSE IF a = x \/ c = b THEN Failed ELSE ParseHttpVersion(buf, d)
      /\ Headers(buf) = IF v < 0 THEN v ELSE LineEnd(buf, v)
  BY DEF Path, PathEnd, Version, VersionEnd, Headers, Then
<1>4. /\ a \in {Failed, Partial} \cup Nat
      /\ \A z \in Nat : a = z <=>
            z \in x .. Len(buf) - 1 /\ CharAt(buf, z) = "SP" /\ Stretch(buf, x, z, TokenChars)
  BY <1>2, TokenIs
<1>5. ASSUME NEW w \in 0 .. Len(buf) - 1
      PROVE  /\ Skip(buf, w + 1, {"SP"}) \in {Failed, Partial} \cup Nat
             /\ \A z \in Nat : Skip(buf, w + 1, {"SP"}) = z <=>
                   /\ z \in w + 1 .. Len(buf) - 1 /\ CharAt(buf, z) \notin {"SP"}
                   /\ Stretch(buf, w + 1, z, {"SP"})
  <2>1. w + 1 \in 0 .. Len(buf) /\ {"SP"} \in SUBSET Chars
    BY <1>1, Classes
  <2> QED BY <2>1, SkipIs
<1>6. ASSUME NEW w \in 0 .. Len(buf) - 1
      PROVE  /\ AdvanceToken(buf, w) \in {Failed, Partial} \cup Nat
             /\ \A z \in Nat : AdvanceToken(buf, w) = z <=>
                   /\ z \in w .. Len(buf) - 1 /\ CharAt(buf, z) = "SP"
                   /\ Stretch(buf, w, z, Graphic \ {"SP"})
  <2>1. w \in 0 .. Len(buf)
    BY <1>1
  <2> QED BY <2>1, AdvanceIs
<1>7. ASSUME NEW w \in 0 .. Len(buf) - 1
      PROVE  /\ ParseHttpVersion(buf, w) \in {Failed, Partial} \cup Nat
             /\ \A z \in Nat : ParseHttpVersion(buf, w) = z <=>
                   z = w + Len(VERSION) + 1 /\ z < Len(buf) /\ LiteralAt(buf, w)
  <2>1. w \in 0 .. Len(buf)
    BY <1>1
  <2> QED BY <2>1, VersionIs
<1> HIDE DEF a, b, c, d, v
<1>8. ASSUME Headers(buf) = y
      PROVE  \E e \in x .. Len(buf) - 1 : RequestAt(buf, x, e) /\ Eol(buf, e, y)
  <2>1. ~ v < 0 /\ LineEnd(buf, v) = y
    BY <1>3, <1>8
  <2>2. ~ d < 0 /\ a # x /\ c # b /\ v = ParseHttpVersion(buf, d)
    BY <1>3, <2>1 DEF Failed
  <2>3. ~ c < 0 /\ d = Skip(buf, c + 1, {"SP"})
    BY <1>3, <2>2
  <2>4. ~ b < 0 /\ c = AdvanceToken(buf, b)
    BY <1>3, <2>3
  <2>5. ~ a < 0 /\ b = Skip(buf, a + 1, {"SP"})
    BY <1>3, <2>4
  <2>6. /\ a \in x .. Len(buf) - 1 /\ a \in 0 .. Len(buf) - 1
        /\ CharAt(buf, a) = "SP" /\ Stretch(buf, x, a, TokenChars)
    <3>1. a \in Nat
      BY <1>4, <2>5 DEF Failed, Partial
    <3> QED BY <1>1, <1>4, <3>1
  <2>7. b \in a + 1 .. Len(buf) - 1 /\ b \in 0 .. Len(buf) - 1 /\ Stretch(buf, a + 1, b, {"SP"})
    <3>1. b \in Nat
      BY <1>5, <2>4, <2>5, <2>6 DEF Failed, Partial
    <3>2. b \in a + 1 .. Len(buf) - 1 /\ Stretch(buf, a + 1, b, {"SP"})
      BY <1>5, <2>5, <2>6, <3>1
    <3> QED BY <1>1, <3>1, <3>2
  <2>8. /\ c \in b .. Len(buf) - 1 /\ c \in 0 .. Len(buf) - 1
        /\ CharAt(buf, c) = "SP" /\ Stretch(buf, b, c, Graphic \ {"SP"})
    <3>1. c \in Nat
      BY <1>6, <2>3, <2>4, <2>7 DEF Failed, Partial
    <3>2. c \in b .. Len(buf) - 1 /\ CharAt(buf, c) = "SP" /\ Stretch(buf, b, c, Graphic \ {"SP"})
      BY <1>6, <2>4, <2>7, <3>1
    <3> QED BY <1>1, <3>1, <3>2
  <2>9. d \in c + 1 .. Len(buf) - 1 /\ d \in 0 .. Len(buf) - 1 /\ Stretch(buf, c + 1, d, {"SP"})
    <3>1. d \in Nat
      BY <1>5, <2>2, <2>3, <2>8 DEF Failed, Partial
    <3>2. d \in c + 1 .. Len(buf) - 1 /\ Stretch(buf, c + 1, d, {"SP"})
      BY <1>5, <2>3, <2>8, <3>1
    <3> QED BY <1>1, <3>1, <3>2
  <2>10. v \in Nat /\ v = d + Len(VERSION) + 1 /\ v < Len(buf) /\ LiteralAt(buf, d)
    <3>1. v \in Nat
      BY <1>7, <2>1, <2>2, <2>9 DEF Failed, Partial
    <3> QED BY <1>7, <2>2, <2>9, <3>1
  <2>11. Stretch(buf, a, b, {"SP"}) /\ Stretch(buf, c, d, {"SP"})
    BY <1>1, <2>6, <2>7, <2>8, <2>9 DEF Stretch
  <2>12. a \in Nat /\ b \in Nat /\ c \in Nat /\ d \in Nat
    BY <1>1, <2>6, <2>7, <2>8, <2>9
  <2>13. RequestParts(buf, x, a, b, c, d, v)
    BY <1>1, <2>2, <2>6, <2>7, <2>8, <2>9, <2>10, <2>11 DEF RequestParts
  <2>14. RequestAt(buf, x, v)
    BY <2>12, <2>13 DEF RequestAt
  <2>15. v \in x .. Len(buf) - 1
    BY <1>1, <2>6, <2>7, <2>8, <2>9, <2>10
  <2>16. Eol(buf, v, y)
    BY <2>1, <2>10, LineEndIs
  <2> QED BY <2>14, <2>15, <2>16
<1>9. ASSUME NEW e \in x .. Len(buf) - 1, RequestAt(buf, x, e), Eol(buf, e, y)
      PROVE  Headers(buf) = y
  <2>1. PICK a1 \in Nat : \E b1 \in Nat : \E c1 \in Nat : \E d1 \in Nat :
           RequestParts(buf, x, a1, b1, c1, d1, e)
    BY <1>9 DEF RequestAt
  <2>2. PICK b1 \in Nat : \E c1 \in Nat : \E d1 \in Nat : RequestParts(buf, x, a1, b1, c1, d1, e)
    BY <2>1
  <2>3. PICK c1 \in Nat : \E d1 \in Nat : RequestParts(buf, x, a1, b1, c1, d1, e)
    BY <2>2
  <2>4. PICK d1 \in Nat : RequestParts(buf, x, a1, b1, c1, d1, e)
    BY <2>3
  <2>5. /\ x < a1 /\ a1 < b1 /\ b1 < c1 /\ c1 < d1 /\ e = d1 + Len(VERSION) + 1 /\ e < Len(buf)
        /\ Stretch(buf, x, a1, TokenChars) /\ Stretch(buf, a1, b1, {"SP"})
        /\ Stretch(buf, b1, c1, Graphic \ {"SP"}) /\ Stretch(buf, c1, d1, {"SP"})
        /\ LiteralAt(buf, d1)
    BY <1>1, <2>4 DEF RequestParts
  <2>6. /\ a1 \in x .. Len(buf) - 1 /\ b1 \in a1 + 1 .. Len(buf) - 1 /\ c1 \in b1 .. Len(buf) - 1
        /\ d1 \in c1 + 1 .. Len(buf) - 1 /\ a1 \in 0 .. Len(buf) - 1 /\ b1 \in 0 .. Len(buf) - 1
        /\ c1 \in 0 .. Len(buf) - 1 /\ d1 \in 0 .. Len(buf) - 1
    BY <1>1, <2>5
  <2>7. CharAt(buf, a1) = "SP" /\ CharAt(buf, b1) \notin {"SP"} /\ CharAt(buf, c1) = "SP"
    <3>1. a1 \in a1 .. b1 - 1 /\ b1 \in b1 .. c1 - 1 /\ c1 \in c1 .. d1 - 1
      BY <2>5
    <3> QED BY <2>5, <3>1 DEF Stretch
  <2>8. CharAt(buf, d1) \notin {"SP"}
    <3>1. 1 \in 1 .. Len(VERSION) + 1 /\ d1 + 1 - 1 = d1
      BY <1>1
    <3>2. CharAt(buf, d1 + 1 - 1) = Literal[1] /\ Literal[1] \in Graphic \ {"SP"}
      BY <2>5, <3>1, LiteralIs DEF LiteralAt
    <3> QED BY <3>1, <3>2
  <2>9. Stretch(buf, a1 + 1, b1, {"SP"}) /\ Stretch(buf, c1 + 1, d1, {"SP"})
    BY <2>5 DEF Stretch
  <2>10. a = a1
    BY <1>4, <2>5, <2>6, <2>7
  <2>11. b = b1
    <3>1. Skip(buf, a1 + 1, {"SP"}) = b1
      BY <1>5, <2>6, <2>7, <2>9
    <3> QED BY <1>3, <2>10, <3>1
  <2>12. c = c1
    <3>1. AdvanceToken(buf, b1) = c1
      BY <1>6, <2>5, <2>6, <2>7
    <3> QED BY <1>3, <2>11, <3>1
  <2>13. d = d1
    <3>1. Skip(buf, c1 + 1, {"SP"}) = d1
      BY <1>5, <2>6, <2>8, <2>9
    <3> QED BY <1>3, <2>12, <3>1
  <2>14. v = e
    <3>1. ParseHttpVersion(buf, d1) = e
      BY <1>1, <1>7, <2>5, <2>6
    <3>2. a # x /\ c # b
      BY <1>1, <2>5, <2>10, <2>11, <2>12
    <3> QED BY <1>3, <2>13, <3>1, <3>2
  <2>15. e \in Nat /\ LineEnd(buf, e) = y
    <3>1. e \in Nat
      BY <1>1, <2>5
    <3> QED BY <1>9, <2>5, <3>1, LineEndIs
  <2> QED BY <1>3, <2>14, <2>15
<1> QED BY <1>8, <1>9

(* Part of a line, by positions.                                           *)
LEMMA OverStretch ==
    ASSUME NEW buf \in Received, NEW x \in Nat, NEW e \in Nat, x <= e,
           NEW l, Holds(buf, x, e, l),
           NEW i \in 1 .. Len(l) + 1, NEW j \in i - 1 .. Len(l), NEW S
    PROVE  Over(SubSeq(l, i, j), S) <=> Stretch(buf, x + i - 1, x + j, S)
<1>1. l \in Received /\ Len(l) = e - x /\ \A k \in 1 .. e - x : l[k] = CharAt(buf, x + k - 1)
  BY DEF Holds
<1>2. Over(SubSeq(l, i, j), S) <=> \A k \in i .. j : l[k] \in S
  BY <1>1, OverIs
<1>3. ASSUME \A k \in i .. j : l[k] \in S, NEW k \in x + i - 1 .. (x + j) - 1
      PROVE  CharAt(buf, k) \in S
  <2>1. k - x + 1 \in i .. j /\ k - x + 1 \in 1 .. e - x /\ x + (k - x + 1) - 1 = k
    BY <1>1
  <2> QED BY <1>1, <1>3, <2>1
<1>4. ASSUME Stretch(buf, x + i - 1, x + j, S), NEW k \in i .. j PROVE l[k] \in S
  <2>1. x + k - 1 \in x + i - 1 .. (x + j) - 1 /\ k \in 1 .. e - x
    BY <1>1
  <2> QED BY <1>1, <1>4, <2>1 DEF Stretch
<1> QED BY <1>2, <1>3, <1>4 DEF Stretch

LEMMA LiteralText ==
    ASSUME NEW buf \in Received, NEW x \in Nat, NEW e \in Nat, x <= e,
           NEW l, Holds(buf, x, e, l), NEW d \in 1 .. Len(l)
    PROVE  SubSeq(l, d, Len(l)) = Literal <=>
              e = (x + d - 1) + Len(VERSION) + 1 /\ LiteralAt(buf, x + d - 1)
<1> DEFINE p == SubSeq(l, d, Len(l))
<1>1. l \in Received /\ Len(l) = e - x /\ \A k \in 1 .. e - x : l[k] = CharAt(buf, x + k - 1)
  BY DEF Holds
<1>2. /\ p \in Received /\ Len(p) = Len(l) - d + 1
      /\ \A k \in 1 .. Len(l) - d + 1 : p[k] = l[d + k - 1]
  <2>1. d \in 1 .. Len(l) + 1 /\ Len(l) \in d - 1 .. Len(l)
    BY <1>1
  <2> QED BY <1>1, <2>1, PartIs
<1> HIDE DEF p
<1>3. /\ Len(VERSION) \in Nat /\ Literal \in Received /\ Len(Literal) = Len(VERSION) + 1
  BY LiteralIs
<1>4. p = Literal <=>
        Len(p) = Len(Literal) /\ \A k \in 1 .. Len(VERSION) + 1 : p[k] = Literal[k]
  <2>1. p = [k \in 1 .. Len(p) |-> p[k]] /\ Literal = [k \in 1 .. Len(Literal) |-> Literal[k]]
    BY <1>2, <1>3 DEF Received
  <2> QED BY <1>3, <2>1
<1>5. Len(p) = Len(Literal) <=> e = (x + d - 1) + Len(VERSION) + 1
  <2>1. d \in Nat /\ Len(p) = e - x - d + 1 /\ Len(Literal) = Len(VERSION) + 1
    BY <1>1, <1>2, <1>3
  <2> QED BY <1>3, <2>1
<1>6. ASSUME Len(p) = Len(Literal), NEW k \in 1 .. Len(VERSION) + 1
      PROVE  p[k] = CharAt(buf, (x + d - 1) + k - 1)
  <2>1. /\ k \in 1 .. Len(l) - d + 1 /\ d + k - 1 \in 1 .. e - x
        /\ x + (d + k - 1) - 1 = (x + d - 1) + k - 1
    BY <1>1, <1>2, <1>3, <1>6
  <2> QED BY <1>1, <1>2, <2>1
<1>7. p = Literal <=> e = (x + d - 1) + Len(VERSION) + 1 /\ LiteralAt(buf, x + d - 1)
  BY <1>4, <1>5, <1>6 DEF LiteralAt
<1> QED BY <1>7 DEF p

(* A request line by its line is one by its positions.                     *)
LEMMA RequestText ==
    ASSUME NEW buf \in Received, NEW x \in Nat, NEW e \in Nat, x <= e, NEW l, Holds(buf, x, e, l)
    PROVE  IsRequestLine(l) <=> RequestAt(buf, x, e)
<1>1. Len(l) = e - x /\ Len(VERSION) \in Nat
  BY LiteralIs DEF Holds
<1>2. ASSUME NEW i \in 1 .. Len(l), NEW j \in 1 .. Len(l), i < j, NEW S
      PROVE  Over(SubSeq(l, i, j - 1), S) <=> Stretch(buf, x + i - 1, x + j - 1, S)
  <2>1. i \in 1 .. Len(l) + 1 /\ j - 1 \in i - 1 .. Len(l) /\ x + (j - 1) = x + j - 1
    BY <1>1, <1>2
  <2>2. Over(SubSeq(l, i, j - 1), S) <=> Stretch(buf, x + i - 1, x + (j - 1), S)
    BY <2>1, OverStretch
  <2> QED BY <2>1, <2>2
<1>3. ASSUME NEW a \in 1 .. Len(l), NEW b \in 1 .. Len(l), NEW c \in 1 .. Len(l), NEW d \in 1 .. Len(l),
             1 < a, a < b, b < c, c < d
      PROVE  /\ Over(SubSeq(l, 1, a - 1), TokenChars)
             /\ Over(SubSeq(l, a, b - 1), {"SP"})
             /\ Over(SubSeq(l, b, c - 1), Graphic \ {"SP"})
             /\ Over(SubSeq(l, c, d - 1), {"SP"})
             /\ SubSeq(l, d, Len(l)) = VERSION \o <<"1">>
             <=> RequestParts(buf, x, x + a - 1, x + b - 1, x + c - 1, x + d - 1, e)
  <2>1. /\ x < x + a - 1 /\ x + a - 1 < x + b - 1 /\ x + b - 1 < x + c - 1 /\ x + c - 1 < x + d - 1
        /\ 1 \in 1 .. Len(l) /\ x + 1 - 1 = x
    BY <1>1, <1>3
  <2>2. Over(SubSeq(l, 1, a - 1), TokenChars) <=> Stretch(buf, x, x + a - 1, TokenChars)
    BY <1>2, <1>3, <2>1
  <2>3. Over(SubSeq(l, a, b - 1), {"SP"}) <=> Stretch(buf, x + a - 1, x + b - 1, {"SP"})
    BY <1>2, <1>3
  <2>4. Over(SubSeq(l, b, c - 1), Graphic \ {"SP"}) <=>
           Stretch(buf, x + b - 1, x + c - 1, Graphic \ {"SP"})
    BY <1>2, <1>3
  <2>5. Over(SubSeq(l, c, d - 1), {"SP"}) <=> Stretch(buf, x + c - 1, x + d - 1, {"SP"})
    BY <1>2, <1>3
  <2>6. SubSeq(l, d, Len(l)) = VERSION \o <<"1">> <=>
           e = (x + d - 1) + Len(VERSION) + 1 /\ LiteralAt(buf, x + d - 1)
    <3>1. SubSeq(l, d, Len(l)) = Literal <=>
             e = (x + d - 1) + Len(VERSION) + 1 /\ LiteralAt(buf, x + d - 1)
      BY LiteralText
    <3>2. Literal = VERSION \o <<"1">>
      BY DEF Literal
    <3> QED BY <3>1, <3>2
  <2> QED BY <2>1, <2>2, <2>3, <2>4, <2>5, <2>6 DEF RequestParts
<1>4. ASSUME IsRequestLine(l) PROVE RequestAt(buf, x, e)
  <2>1. PICK a \in 1 .. Len(l), b \in 1 .. Len(l), c \in 1 .. Len(l), d \in 1 .. Len(l) :
           /\ 1 < a /\ a < b /\ b < c /\ c < d
           /\ Over(SubSeq(l, 1, a - 1), TokenChars)
           /\ Over(SubSeq(l, a, b - 1), {"SP"})
           /\ Over(SubSeq(l, b, c - 1), Graphic \ {"SP"})
           /\ Over(SubSeq(l, c, d - 1), {"SP"})
           /\ SubSeq(l, d, Len(l)) = VERSION \o <<"1">>
    BY <1>4 DEF IsRequestLine
  <2>2. RequestParts(buf, x, x + a - 1, x + b - 1, x + c - 1, x + d - 1, e)
    BY <1>3, <2>1
  <2>3. x + a - 1 \in Nat /\ x + b - 1 \in Nat /\ x + c - 1 \in Nat /\ x + d - 1 \in Nat
    BY <1>1
  <2> QED BY <2>2, <2>3 DEF RequestAt
<1>5. ASSUME RequestAt(buf, x, e) PROVE IsRequestLine(l)
  <2>1. PICK a1 \in Nat : \E b1 \in Nat : \E c1 \in Nat : \E d1 \in Nat :
           RequestParts(buf, x, a1, b1, c1, d1, e)
    BY <1>5 DEF RequestAt
  <2>2. PICK b1 \in Nat : \E c1 \in Nat : \E d1 \in Nat : RequestParts(buf, x, a1, b1, c1, d1, e)
    BY <2>1
  <2>3. PICK c1 \in Nat : \E d1 \in Nat : RequestParts(buf, x, a1, b1, c1, d1, e)
    BY <2>2
  <2>4. PICK d1 \in Nat : RequestParts(buf, x, a1, b1, c1, d1, e)
    BY <2>3
  <2>5. x < a1 /\ a1 < b1 /\ b1 < c1 /\ c1 < d1 /\ e = d1 + Len(VERSION) + 1
    BY <2>4 DEF RequestParts
  <2> DEFINE a == a1 - x + 1
             b == b1 - x + 1
             c == c1 - x + 1
             d == d1 - x + 1
  <2>6. /\ a \in 1 .. Len(l) /\ b \in 1 .. Len(l) /\ c \in 1 .. Len(l) /\ d \in 1 .. Len(l)
        /\ 1 < a /\ a < b /\ b < c /\ c < d
        /\ x + a - 1 = a1 /\ x + b - 1 = b1 /\ x + c - 1 = c1 /\ x + d - 1 = d1
    BY <1>1, <2>5
  <2> HIDE DEF a, b, c, d
  <2>7. RequestParts(buf, x, x + a - 1, x + b - 1, x + c - 1, x + d - 1, e)
    BY <2>4, <2>6
  <2>8. /\ Over(SubSeq(l, 1, a - 1), TokenChars)
        /\ Over(SubSeq(l, a, b - 1), {"SP"})
        /\ Over(SubSeq(l, b, c - 1), Graphic \ {"SP"})
        /\ Over(SubSeq(l, c, d - 1), {"SP"})
        /\ SubSeq(l, d, Len(l)) = VERSION \o <<"1">>
    BY <1>3, <2>6, <2>7
  <2> QED BY <2>6, <2>8, Zenon DEF IsRequestLine
<1> QED BY <1>4, <1>5

(* The request line is the line that begins where the method begins.       *)
LEMMA RequestLineIs ==
    ASSUME NEW buf \in Received, NEW x \in {0} \cup LineEnds(buf), Method(buf) = x, NEW y \in Nat
    PROVE  Headers(buf) = y <=> Follows(buf, x, y) /\ IsRequestLine(Line(buf, y))
<1>1. x \in Nat /\ Len(buf) \in Nat /\ x \in 0 .. Len(buf)
  BY EndsAre
<1>2. ASSUME Headers(buf) = y PROVE Follows(buf, x, y) /\ IsRequestLine(Line(buf, y))
  <2>1. PICK e \in x .. Len(buf) - 1 : RequestAt(buf, x, e) /\ Eol(buf, e, y)
    BY <1>1, <1>2, RequestTo
  <2>2. e \in Nat /\ x <= e
    BY <1>1
  <2>3. Stretch(buf, x, e, Text)
    BY <1>1, <2>1, <2>2, RequestIsText
  <2>4. Follows(buf, x, y) /\ Content(buf, x, e, y)
    BY <2>1, <2>2, <2>3, TextLine
  <2>5. PICK d : Content(buf, x, d, y) /\ Holds(buf, x, d, Line(buf, y))
    BY <2>4, LineIs
  <2>6. d = e
    BY <1>1, <2>4, <2>5, OneContent
  <2> QED BY <1>1, <2>1, <2>2, <2>4, <2>5, <2>6, RequestText
<1>3. ASSUME Follows(buf, x, y), IsRequestLine(Line(buf, y)) PROVE Headers(buf) = y
  <2>1. PICK e : Content(buf, x, e, y) /\ Holds(buf, x, e, Line(buf, y))
    BY <1>3, LineIs
  <2>2. e \in Nat /\ x <= e /\ e \in x .. Len(buf) - 1 /\ Eol(buf, e, y)
    BY <1>1, <1>3, <2>1, EndsAre DEF Content, Follows
  <2>3. RequestAt(buf, x, e)
    BY <1>1, <1>3, <2>1, <2>2, RequestText
  <2> QED BY <1>1, <2>2, <2>3, RequestTo
<1> QED BY <1>2, <1>3

-----------------------------------------------------------------------------
(* The request line begins at x: at once, or after an empty line.          *)
StartsAt(buf, x) ==
    \/ x = 0
    \/ x \in LineEnds(buf) /\ Follows(buf, 0, x) /\ Line(buf, x) = <<>>

(* What has been received is a request whose request line goes from x to h. *)
Matches(buf, x, h) ==
    /\ StartsAt(buf, x) /\ Follows(buf, x, h) /\ IsRequestLine(Line(buf, h))
    /\ Rest(buf, h, MAX_HEADERS)

LEMMA MethodIs ==
    ASSUME NEW buf \in Received
    PROVE  /\ Method(buf) \in {Failed, Partial} \cup Nat
           /\ Method(buf) \in Nat => StartsAt(buf, Method(buf))
           /\ \A x, h : StartsAt(buf, x) /\ Follows(buf, x, h) /\ IsRequestLine(Line(buf, h))
                           => Method(buf) = x
<1> DEFINE m == Method(buf)
<1>1. Len(buf) \in Nat
  BY DEF Received
<1>2. m = IF Len(buf) = 0 THEN Partial
          ELSE IF CharAt(buf, 0) \in {"CR", "LF"} THEN LineEnd(buf, 0) ELSE 0
  BY <1>1 DEF Method, CheckEof, Then, Partial
<1> HIDE DEF m
<1>3. ASSUME 0 < Len(buf)
      PROVE  /\ LineEnd(buf, 0) \in {Failed, Partial} \cup Nat
             /\ \A y \in Nat : LineEnd(buf, 0) = y <=> Follows(buf, 0, y) /\ Line(buf, y) = <<>>
             /\ \A y \in Nat : LineEnd(buf, 0) = y <=> Eol(buf, 0, y)
  BY <1>3, LineEndIs, EmptyLineIs
<1>4. m \in {Failed, Partial} \cup Nat
  BY <1>1, <1>2, <1>3
<1>5. ASSUME m \in Nat PROVE StartsAt(buf, m)
  <2>1. 0 < Len(buf)
    BY <1>1, <1>2, <1>5 DEF Partial
  <2>2. CASE CharAt(buf, 0) \in {"CR", "LF"}
    <3>1. Follows(buf, 0, m) /\ Line(buf, m) = <<>>
      BY <1>2, <1>3, <1>5, <2>1, <2>2
    <3> QED BY <3>1 DEF StartsAt, Follows
  <2>3. CASE CharAt(buf, 0) \notin {"CR", "LF"}
    BY <1>1, <1>2, <2>1, <2>3 DEF StartsAt
  <2> QED BY <2>2, <2>3
<1>6. ASSUME NEW x, NEW h, StartsAt(buf, x), Follows(buf, x, h), IsRequestLine(Line(buf, h))
      PROVE  m = x
  <2>1. h \in LineEnds(buf) /\ 0 < Len(buf) /\ h \in Nat
    BY <1>1, <1>6, EndsAre DEF Follows
  <2>2. CASE x = 0
    <3>1. PICK e : Content(buf, 0, e, h) /\ Holds(buf, 0, e, Line(buf, h))
      BY <1>6, <2>2, LineIs
    <3>2. e \in Nat /\ 0 <= e
      BY <2>1, <3>1 DEF Content
    <3>3. RequestAt(buf, 0, e)
      BY <1>6, <3>1, <3>2, RequestText
    <3>4. CharAt(buf, 0) \in TokenChars
      BY <3>2, <3>3, RequestIsText
    <3> QED BY <1>1, <1>2, <2>1, <2>2, <3>4 DEF TokenChars
  <2>3. CASE x # 0
    <3>1. x \in LineEnds(buf) /\ Follows(buf, 0, x) /\ Line(buf, x) = <<>>
      BY <1>6, <2>3 DEF StartsAt
    <3>2. x \in Nat
      BY <3>1, EndsAre
    <3>3. LineEnd(buf, 0) = x /\ Eol(buf, 0, x)
      BY <1>3, <2>1, <3>1, <3>2
    <3>4. CharAt(buf, 0) \in {"CR", "LF"}
      BY <3>2, <3>3, EolChar
    <3> QED BY <1>1, <1>2, <2>1, <3>3, <3>4
  <2> QED BY <2>2, <2>3
<1> QED BY <1>4, <1>5, <1>6 DEF m

LEMMA HeadersBegin ==
    ASSUME NEW buf \in Received
    PROVE  /\ Headers(buf) \in {Failed, Partial} \cup Nat
           /\ Headers(buf) \in Nat => Method(buf) \in Nat
<1>1. Len(buf) \in Nat /\ Extends(buf, buf)
  BY SelfKept DEF Received
<1>2. VersionEnd(buf) \in {Failed, Partial} \cup (0 .. Len(buf) - 1)
  BY <1>1, VersionEndKept DEF Firm
<1>3. Headers(buf) = IF VersionEnd(buf) < 0 THEN VersionEnd(buf) ELSE LineEnd(buf, VersionEnd(buf))
  BY DEF Headers, Then
<1>4. \A v \in 0 .. Len(buf) - 1 : LineEnd(buf, v) \in {Failed, Partial} \cup Nat
  BY <1>1, LineEndIs
<1>5. Headers(buf) \in {Failed, Partial} \cup Nat
  <2>1. PICK v : v = VersionEnd(buf)
    OBVIOUS
  <2>2. v \in {Failed, Partial} \/ (v \in 0 .. Len(buf) - 1 /\ ~ v < 0)
    BY <1>1, <1>2, <2>1
  <2> QED BY <1>3, <1>4, <2>1, <2>2 DEF Failed, Partial
<1>6. ASSUME Method(buf) < 0 PROVE Headers(buf) = Method(buf)
  <2>1. MethodEnd(buf) = Method(buf)
    BY <1>6 DEF MethodEnd, Then
  <2>2. Path(buf) = Method(buf)
    BY <1>6, <2>1 DEF Path, Then
  <2>3. PathEnd(buf) = Method(buf)
    BY <1>6, <2>2 DEF PathEnd, Then
  <2>4. Version(buf) = Method(buf)
    BY <1>6, <2>3 DEF Version, Then
  <2>5. VersionEnd(buf) = Method(buf)
    BY <1>6, <2>4 DEF VersionEnd, Then
  <2> QED BY <1>3, <1>6, <2>5
<1>7. Headers(buf) \in Nat => Method(buf) \in Nat
  BY <1>6, MethodIs DEF Failed, Partial
<1> QED BY <1>5, <1>7

(* The parser accepts what matches.                                        *)
LEMMA ParserSays ==
    ASSUME NEW buf \in Received
    PROVE  PhrParseRequest(buf) = Len(buf) <=> \E x : \E h : Matches(buf, x, h)
<1> DEFINE r == Headers(buf)
           f == ParseHeaders(buf)[MAX_HEADERS]
<1>1. Len(buf) \in Nat
  BY DEF Received
<1>2. PhrParseRequest(buf) = IF r < 0 THEN r ELSE f[r]
  BY Steps DEF Then
<1>3. r \in {Failed, Partial} \cup Nat
  BY HeadersBegin
<1>4. \A h \in LineEnds(buf) : f[h] = Len(buf) <=> Rest(buf, h, MAX_HEADERS)
  BY AllHeadersAccept DEF Accepts
<1>5. \A x, h : StartsAt(buf, x) /\ Follows(buf, x, h) =>
          x \in {0} \cup LineEnds(buf) /\ h \in LineEnds(buf) /\ h \in Nat
  BY EndsAre DEF StartsAt, Follows
<1> HIDE DEF f
<1>6. ASSUME PhrParseRequest(buf) = Len(buf) PROVE \E x : \E h : Matches(buf, x, h)
  <2>1. r \in Nat /\ f[r] = Len(buf)
    BY <1>1, <1>2, <1>3, <1>6 DEF Failed, Partial
  <2>2. PICK x : x = Method(buf)
    OBVIOUS
  <2>3. StartsAt(buf, x) /\ x \in {0} \cup LineEnds(buf)
    <3>1. x \in Nat
      BY <2>1, <2>2, HeadersBegin
    <3> QED BY <2>2, <3>1, MethodIs DEF StartsAt
  <2>4. Follows(buf, x, r) /\ IsRequestLine(Line(buf, r))
    BY <2>1, <2>2, <2>3, RequestLineIs
  <2>5. Rest(buf, r, MAX_HEADERS)
    BY <1>4, <1>5, <2>1, <2>3, <2>4
  <2> QED BY <2>3, <2>4, <2>5 DEF Matches
<1>7. ASSUME NEW x, NEW h, Matches(buf, x, h) PROVE PhrParseRequest(buf) = Len(buf)
  <2>1. /\ StartsAt(buf, x) /\ Follows(buf, x, h) /\ IsRequestLine(Line(buf, h))
        /\ Rest(buf, h, MAX_HEADERS)
    BY <1>7 DEF Matches
  <2>2. Method(buf) = x
    BY <2>1, MethodIs
  <2>3. r = h
    BY <1>5, <2>1, <2>2, RequestLineIs
  <2>4. h \in Nat /\ f[h] = Len(buf)
    BY <1>4, <1>5, <2>1
  <2> QED BY <1>2, <2>3, <2>4
<1> QED BY <1>6, <1>7

LEMMA OneNext ==
    ASSUME NEW buf \in Received, NEW x, NEW y, NEW z, Follows(buf, x, y), Follows(buf, x, z)
    PROVE  y = z
BY EndsAre DEF Follows

(* A request is what matches.                                              *)
LEMMA DefinitionSays ==
    ASSUME NEW buf \in Received
    PROVE  IsRequest(buf) <=> \E x : \E h : Matches(buf, x, h)
<1> DEFINE E == LineEnds(buf)
           first == Min(E)
           start == IF Line(buf, first) = <<>> THEN first ELSE 0
           ends == {z \in E : z > start}
           request == Min(ends)
           headers == ends \ {request, Len(buf)}
<1>1. Len(buf) \in Nat /\ \A y \in E : y \in Nat /\ 0 < y /\ y <= Len(buf)
  BY EndsAre
<1>2. IsRequest(buf) <=>
        /\ E # {} /\ Len(buf) \in ends /\ Len(buf) # request
        /\ IsRequestLine(Line(buf, request))
        /\ \A z \in headers : Line(buf, z) # <<>> /\ IsHeader(Line(buf, z), LastLf(buf, z) = request)
        /\ Cardinality(headers) <= MAX_HEADERS
        /\ Line(buf, Len(buf)) = <<>>
  BY DEF IsRequest
<1>3. ASSUME E # {} PROVE Follows(buf, 0, first) /\ first \in E
  <2>1. PICK w \in E : TRUE
    BY <1>3
  <2>2. E = {z \in E : z > 0}
    BY <1>1
  <2>3. PICK y : Follows(buf, 0, y) /\ y = Min({z \in LineEnds(buf) : z > 0})
    BY <1>1, <2>1, NextEnd
  <2>4. y = first
    BY <2>2, <2>3
  <2> QED BY <2>3, <2>4 DEF Follows
<1> HIDE DEF E, first
<1>4. start \in {0} \cup E \/ E = {}
  BY <1>3
<1>5. ASSUME Len(buf) \in ends, E # {} PROVE Follows(buf, start, request)
  <2>1. start \in {0} \cup LineEnds(buf) /\ Len(buf) \in LineEnds(buf) /\ start < Len(buf)
    BY <1>1, <1>4, <1>5 DEF E
  <2> HIDE DEF start
  <2>2. PICK y : Follows(buf, start, y) /\ y = Min({z \in LineEnds(buf) : z > start})
    BY <2>1, NextEnd
  <2> QED BY <2>2 DEF E
<1>6. ASSUME E # {} PROVE StartsAt(buf, start)
  BY <1>3, <1>6 DEF StartsAt, E
<1> HIDE DEF start
<1>7. ASSUME E # {}, Follows(buf, start, request)
      PROVE  headers = Between(buf, request)
  <2>1. \A z \in E : z \in Nat /\ z <= Len(buf)
    BY <1>1
  <2>2. request \in E /\ start < request /\ \A z \in E : ~ (start < z /\ z < request)
    BY <1>7 DEF Follows, E
  <2>3. start \in Nat
    BY <1>1, <1>4, <1>7
  <2> HIDE DEF request
  <2>4. \A z \in E : z > start /\ z # request /\ z # Len(buf) <=> request < z /\ z < Len(buf)
    BY <1>1, <2>1, <2>2, <2>3
  <2>5. \A z \in E : z \in headers <=> z \in Between(buf, request)
    BY <2>4 DEF Between, E
  <2>6. headers \subseteq E /\ Between(buf, request) \subseteq E
    BY DEF Between, E
  <2> HIDE DEF headers
  <2> QED BY <2>5, <2>6
<1> HIDE DEF request, headers
<1>8. ASSUME NEW z PROVE IsHeader(Line(buf, z), LastLf(buf, z) = request) <=>
             IsHeader(Line(buf, z), LastLf(buf, z) = request /\ MAX_HEADERS = MAX_HEADERS)
  <2>1. (LastLf(buf, z) = request) = (LastLf(buf, z) = request /\ MAX_HEADERS = MAX_HEADERS)
    OBVIOUS
  <2> QED BY <2>1
<1>9. ASSUME IsRequest(buf) PROVE \E x : \E h : Matches(buf, x, h)
  <2>1. Follows(buf, start, request) /\ StartsAt(buf, start) /\ headers = Between(buf, request)
    BY <1>2, <1>5, <1>6, <1>7, <1>9
  <2>2. Len(buf) \in LineEnds(buf) /\ request < Len(buf)
    BY <1>1, <1>2, <1>9, <2>1 DEF Follows, E
  <2>3. Rest(buf, request, MAX_HEADERS)
    BY <1>2, <1>8, <1>9, <2>1, <2>2 DEF Rest
  <2> QED BY <1>2, <1>9, <2>1, <2>3 DEF Matches
<1>10. ASSUME NEW x, NEW h, Matches(buf, x, h) PROVE IsRequest(buf)
  <2>1. /\ StartsAt(buf, x) /\ Follows(buf, x, h) /\ IsRequestLine(Line(buf, h))
        /\ Rest(buf, h, MAX_HEADERS)
    BY <1>10 DEF Matches
  <2>2. E # {} /\ Len(buf) \in E /\ h < Len(buf) /\ x < h /\ h \in E
    BY <2>1 DEF Follows, Rest, E
  <2>3. Line(buf, h) # <<>>
    <3>1. Line(buf, h) = <<>> => Len(Line(buf, h)) = 0
      OBVIOUS
    <3> QED BY <2>1, <3>1 DEF IsRequestLine
  <2>4. x = start
    <3>1. Follows(buf, 0, first)
      BY <1>3, <2>2
    <3>2. CASE x = 0
      <4>1. first = h
        BY <2>1, <3>1, <3>2, OneNext
      <4> QED BY <2>3, <3>2, <4>1 DEF start
    <3>3. CASE x # 0
      <4>1. Follows(buf, 0, x) /\ Line(buf, x) = <<>>
        BY <2>1, <3>3 DEF StartsAt
      <4>2. first = x
        BY <3>1, <4>1, OneNext
      <4> QED BY <4>1, <4>2 DEF start
    <3> QED BY <3>2, <3>3
  <2>5. Len(buf) \in ends
    BY <1>1, <1>4, <2>2, <2>4
  <2>6. h = request
    BY <1>5, <2>1, <2>2, <2>4, <2>5, OneNext
  <2>7. headers = Between(buf, request)
    BY <1>7, <2>1, <2>2, <2>4, <2>6
  <2>8. Len(buf) # request
    BY <1>1, <2>2, <2>6
  <2> QED BY <1>2, <1>8, <2>1, <2>2, <2>5, <2>6, <2>7, <2>8 DEF Rest
<1> QED BY <1>9, <1>10

-----------------------------------------------------------------------------
(* What the parser says of a request, it said when the request was there.  *)
LEMMA StretchCut ==
    ASSUME NEW buf \in Received, NEW ext \in Received, Extends(ext, buf),
           NEW x \in Nat, NEW e \in Nat, e <= Len(buf), NEW S, Stretch(ext, x, e, S)
    PROVE  Stretch(buf, x, e, S)
<1>1. \A k \in x .. e - 1 : k \in Nat /\ k < Len(buf)
  BY DEF Received
<1>2. \A k \in x .. e - 1 : CharAt(ext, k) = CharAt(buf, k)
  BY <1>1, CharKept
<1> QED BY <1>2 DEF Stretch

LEMMA EolCut ==
    ASSUME NEW buf \in Received, NEW ext \in Received, Extends(ext, buf),
           NEW e \in Nat, NEW y \in Nat, Eol(ext, e, y), y <= Len(buf)
    PROVE  Eol(buf, e, y) /\ e < y
<1>1. /\ y \in 1 .. Len(buf) /\ y - 1 \in Nat /\ y - 1 < Len(buf) /\ CharAt(ext, y - 1) = "LF"
      /\ e < y /\ e < Len(buf)
  BY EndsAre DEF Eol, Received
<1>2. CharAt(buf, y - 1) = "LF" /\ CharAt(buf, e) = CharAt(ext, e)
  BY <1>1, CharKept
<1>3. y \in LineEnds(buf)
  BY <1>1, <1>2, EndIs
<1> QED BY <1>1, <1>2, <1>3 DEF Eol

LEMMA LineEndCut ==
    ASSUME NEW buf \in Received, NEW ext \in Received, Extends(ext, buf),
           NEW x \in Nat, x < Len(ext), NEW y \in Nat, LineEnd(ext, x) = y, y <= Len(buf)
    PROVE  x < y /\ LineEnd(buf, x) = y
<1>1. Eol(ext, x, y)
  BY LineEndIs
<1>2. Eol(buf, x, y) /\ x < y /\ x < Len(buf)
  BY <1>1, EolCut DEF Received
<1> QED BY <1>2, LineEndIs

LEMMA HeaderCut ==
    ASSUME NEW buf \in Received, NEW ext \in Received, Extends(ext, buf),
           NEW x \in Nat, x < Len(ext), NEW n, NEW y \in Nat,
           HeaderLine(ext, x, n) = y, y <= Len(buf)
    PROVE  x < y /\ HeaderLine(buf, x, n) = y
<1>1. Len(buf) \in Nat /\ Len(ext) \in Nat /\ x \in 0 .. Len(ext) - 1
  BY DEF Received
<1>2. PICK e \in x .. Len(ext) - 1 : HeaderAt(ext, x, e, n = 0) /\ Eol(ext, e, y)
  BY <1>1, HeaderTo
<1>3. e \in Nat /\ x <= e
  BY <1>1
<1>4. Eol(buf, e, y) /\ e < y
  BY <1>2, <1>3, EolCut
<1>5. x < e /\ e < Len(buf) /\ x < Len(buf) /\ e \in x .. Len(buf) - 1 /\ x \in 0 .. Len(buf) - 1
  BY <1>1, <1>2, <1>3, <1>4 DEF HeaderAt
<1>6. Stretch(buf, x, e, Text) /\ CharAt(ext, x) = CharAt(buf, x)
  BY <1>1, <1>2, <1>3, <1>5, StretchCut, CharKept DEF HeaderAt
<1>7. ASSUME NEW a \in x + 1 .. e - 1, Stretch(ext, x, a, TokenChars), CharAt(ext, a) = ":"
      PROVE  Stretch(buf, x, a, TokenChars) /\ CharAt(buf, a) = ":"
  <2>1. a \in Nat /\ a <= Len(buf) /\ a < Len(buf)
    BY <1>1, <1>5
  <2> QED BY <1>7, <2>1, StretchCut, CharKept
<1>8. HeaderAt(buf, x, e, n = 0)
  BY <1>2, <1>5, <1>6, <1>7 DEF HeaderAt
<1>9. HeaderLine(buf, x, n) = y
  BY <1>4, <1>5, <1>8, HeaderTo
<1> QED BY <1>4, <1>5, <1>9

(* By induction on the room there is for headers.                          *)
CutAt(buf, ext, room) ==
    \A x \in 0 .. Len(ext), y \in 0 .. Len(buf) :
        ParseHeaders(ext)[room][x] = y => x < y /\ ParseHeaders(buf)[room][x] = y

LEMMA HeadersCut ==
    ASSUME NEW buf \in Received, NEW ext \in Received, Extends(ext, buf)
    PROVE  CutAt(buf, ext, MAX_HEADERS)
<1>1. MAX_HEADERS \in Nat /\ Len(buf) \in Nat /\ Len(ext) \in Nat /\ Len(buf) <= Len(ext)
  BY ParserAssumption DEF Received, Extends
<1>2. ASSUME NEW room \in 0 .. MAX_HEADERS, room # 0 => CutAt(buf, ext, room - 1)
      PROVE  CutAt(buf, ext, room)
  <2> SUFFICES ASSUME NEW x \in 0 .. Len(ext), NEW y \in 0 .. Len(buf),
                      ParseHeaders(ext)[room][x] = y
               PROVE  x < y /\ ParseHeaders(buf)[room][x] = y
    BY DEF CutAt
  <2> DEFINE f == ParseHeaders(ext)[room]
             g == ParseHeaders(buf)[room]
             f1 == ParseHeaders(ext)[room - 1]
             g1 == ParseHeaders(buf)[room - 1]
             h == HeaderLine(ext, x, MAX_HEADERS - room)
  <2>1. f = Iteration(ext, f1, room) /\ g = Iteration(buf, g1, room)
    BY HeadersAre
  <2>2. x \in Nat /\ y \in Nat /\ y <= Len(buf)
    BY <1>1
  <2> HIDE DEF f, g, f1, g1
  <2>3. y = IF x = Len(ext) THEN Partial
            ELSE IF CharAt(ext, x) \in {"CR", "LF"} THEN LineEnd(ext, x)
            ELSE IF room = 0 THEN Failed
            ELSE IF h < 0 THEN h ELSE f1[h]
    BY <2>1 DEF Iteration, Then, f
  <2>4. x < Len(buf) =>
          g[x] = IF CharAt(ext, x) \in {"CR", "LF"} THEN LineEnd(buf, x)
                 ELSE IF room = 0 THEN Failed
                 ELSE IF HeaderLine(buf, x, MAX_HEADERS - room) < 0
                 THEN HeaderLine(buf, x, MAX_HEADERS - room)
                 ELSE g1[HeaderLine(buf, x, MAX_HEADERS - room)]
    <3>1. ASSUME x < Len(buf)
          PROVE  CharAt(ext, x) = CharAt(buf, x) /\ x \in 0 .. Len(buf) /\ x # Len(buf)
      BY <1>1, <2>2, <3>1, CharKept
    <3> QED BY <2>1, <3>1 DEF Iteration, Then
  <2> HIDE DEF h
  <2>5. x # Len(ext) /\ x < Len(ext)
    BY <1>1, <2>2, <2>3 DEF Partial
  <2>6. CASE CharAt(ext, x) \in {"CR", "LF"}
    <3>1. x < y /\ LineEnd(buf, x) = y
      BY <2>2, <2>3, <2>5, <2>6, LineEndCut
    <3>2. x < Len(buf)
      BY <1>1, <2>2, <3>1
    <3> QED BY <2>4, <2>6, <3>1, <3>2 DEF g
  <2>7. CASE CharAt(ext, x) \notin {"CR", "LF"}
    <3>1. room # 0 /\ ~ h < 0 /\ f1[h] = y
      BY <2>2, <2>3, <2>5, <2>7 DEF Failed
    <3>2. h \in 0 .. Len(ext)
      <4>1. x \in 0 .. Len(ext) - 1
        BY <1>1, <2>5
      <4>2. Firm(h, h, x, Len(ext))
        BY <4>1, SelfKept, HeaderKept DEF h
      <4> QED BY <1>1, <2>2, <3>1, <4>2 DEF Firm, Failed, Partial
    <3>3. h < y /\ g1[h] = y
      BY <1>2, <3>1, <3>2 DEF CutAt, f1, g1
    <3>4. h \in Nat /\ h <= Len(buf)
      BY <1>1, <2>2, <3>2, <3>3
    <3>5. x < h /\ HeaderLine(buf, x, MAX_HEADERS - room) = h
      BY <2>2, <2>5, <3>4, HeaderCut DEF h
    <3>6. x < Len(buf) /\ x < y
      BY <1>1, <2>2, <3>3, <3>4, <3>5
    <3> QED BY <2>4, <2>7, <3>1, <3>3, <3>5, <3>6 DEF g
  <2> QED BY <2>6, <2>7
<1> DEFINE T == {room \in 0 .. MAX_HEADERS : CutAt(buf, ext, room)}
<1>3. 0 \in T
  BY <1>1, <1>2
<1>4. ASSUME NEW n \in 1 .. MAX_HEADERS, n - 1 \in T PROVE n \in T
  BY <1>1, <1>2, <1>4
<1> HIDE DEF T
<1>5. \A n \in 0 .. MAX_HEADERS : n \in T
  BY <1>1, <1>3, <1>4, UpTo
<1> QED BY <1>1, <1>5 DEF T

LEMMA RequestCut ==
    ASSUME NEW buf \in Received, NEW ext \in Received, Extends(ext, buf),
           NEW h \in Nat, Headers(ext) = h, h <= Len(buf)
    PROVE  Headers(buf) = h
<1>1. Len(buf) \in Nat /\ Len(ext) \in Nat /\ Len(buf) <= Len(ext)
  BY DEF Received, Extends
<1>2. PICK x : x = Method(ext)
  OBVIOUS
<1>3. x \in Nat /\ x \in 0 .. Len(ext)
  <2>1. x \in Nat
    BY <1>2, HeadersBegin
  <2>2. Firm(x, x, 0, Len(ext))
    BY <1>2, SelfKept, RequestLineKept
  <2> QED BY <1>1, <2>1, <2>2 DEF Firm, Failed, Partial
<1>4. PICK e \in x .. Len(ext) - 1 : RequestAt(ext, x, e) /\ Eol(ext, e, h)
  BY <1>2, <1>3, RequestTo
<1>5. e \in Nat /\ x <= e
  BY <1>1, <1>3
<1>6. Eol(buf, e, h) /\ e < h
  BY <1>4, <1>5, EolCut
<1>7. e < Len(buf) /\ e \in x .. Len(buf) - 1 /\ x \in 0 .. Len(buf) /\ 0 < Len(buf) /\ 0 < Len(ext)
  BY <1>1, <1>3, <1>5, <1>6
<1>8. Method(buf) = x
  <2>1. CharAt(ext, 0) = CharAt(buf, 0)
    BY <1>7, CharKept
  <2>2. /\ Method(buf) = IF CharAt(ext, 0) \in {"CR", "LF"} THEN LineEnd(buf, 0) ELSE 0
        /\ x = IF CharAt(ext, 0) \in {"CR", "LF"} THEN LineEnd(ext, 0) ELSE 0
    BY <1>1, <1>2, <1>7, <2>1 DEF Method, CheckEof, Then
  <2>3. LineEnd(ext, 0) = x => LineEnd(buf, 0) = x
    BY <1>1, <1>3, <1>7, LineEndCut
  <2> QED BY <2>2, <2>3
<1>9. RequestAt(buf, x, e)
  <2>1. PICK a \in Nat : \E b \in Nat : \E c \in Nat : \E d \in Nat :
           RequestParts(ext, x, a, b, c, d, e)
    BY <1>4 DEF RequestAt
  <2>2. PICK b \in Nat : \E c \in Nat : \E d \in Nat : RequestParts(ext, x, a, b, c, d, e)
    BY <2>1
  <2>3. PICK c \in Nat : \E d \in Nat : RequestParts(ext, x, a, b, c, d, e)
    BY <2>2
  <2>4. PICK d \in Nat : RequestParts(ext, x, a, b, c, d, e)
    BY <2>3
  <2>5. /\ Len(VERSION) \in Nat /\ x < a /\ a < b /\ b < c /\ c < d /\ e = d + Len(VERSION) + 1
        /\ a <= Len(buf) /\ b <= Len(buf) /\ c <= Len(buf) /\ d <= Len(buf)
    <3>1. Len(VERSION) \in Nat /\ x < a /\ a < b /\ b < c /\ c < d /\ e = d + Len(VERSION) + 1
      BY <2>4, LiteralIs DEF RequestParts
    <3> QED BY <1>1, <1>7, <3>1
  <2>6. /\ Stretch(buf, x, a, TokenChars) /\ Stretch(buf, a, b, {"SP"})
        /\ Stretch(buf, b, c, Graphic \ {"SP"}) /\ Stretch(buf, c, d, {"SP"})
    BY <1>3, <2>4, <2>5, StretchCut DEF RequestParts
  <2>7. ASSUME NEW k \in 1 .. Len(VERSION) + 1 PROVE CharAt(buf, d + k - 1) = Literal[k]
    <3>1. d + k - 1 \in Nat /\ d + k - 1 < Len(buf)
      BY <1>1, <1>7, <2>5
    <3>2. CharAt(ext, d + k - 1) = CharAt(buf, d + k - 1)
      BY <3>1, CharKept
    <3> QED BY <2>4, <3>2 DEF RequestParts, LiteralAt
  <2>8. RequestParts(buf, x, a, b, c, d, e)
    BY <2>5, <2>6, <2>7 DEF RequestParts, LiteralAt
  <2> QED BY <2>8 DEF RequestAt
<1> QED BY <1>6, <1>7, <1>8, <1>9, RequestTo

(* What has been read as a request is not followed by anything else.       *)
LEMMA EarlierAnswer ==
    ASSUME NEW buf \in Received, NEW ext \in Received, Extends(ext, buf),
           NEW y \in 0 .. Len(buf), PhrParseRequest(ext) = y
    PROVE  PhrParseRequest(buf) = y
<1> DEFINE r == Headers(ext)
           f == ParseHeaders(ext)[MAX_HEADERS]
<1>1. Len(buf) \in Nat /\ Len(ext) \in Nat /\ y \in Nat
  BY DEF Received
<1>2. PhrParseRequest(ext) = IF r < 0 THEN r ELSE f[r]
  BY Steps DEF Then
<1>3. r \in {Failed, Partial} \cup Nat
  BY HeadersBegin
<1>4. r \in Nat /\ f[r] = y
  BY <1>1, <1>2, <1>3 DEF Failed, Partial
<1>5. r \in 0 .. Len(ext)
  <2>1. PICK x : x = Method(ext)
    OBVIOUS
  <2>2. x \in {0} \cup LineEnds(ext)
    BY <1>4, <2>1, HeadersBegin, MethodIs DEF StartsAt
  <2>3. Follows(ext, x, r)
    BY <1>4, <2>1, <2>2, RequestLineIs
  <2> QED BY <1>1, <2>3, EndsAre DEF Follows
<1>6. r < y /\ ParseHeaders(buf)[MAX_HEADERS][r] = y
  BY <1>4, <1>5, HeadersCut DEF CutAt
<1>7. Headers(buf) = r
  BY <1>1, <1>4, <1>6, RequestCut
<1>8. PhrParseRequest(buf) =
        IF Headers(buf) < 0 THEN Headers(buf) ELSE ParseHeaders(buf)[MAX_HEADERS][Headers(buf)]
  BY Steps DEF Then
<1> QED BY <1>4, <1>6, <1>7, <1>8

LEMMA Answers ==
    ASSUME NEW buf \in Received
    PROVE  PhrParseRequest(buf) \in {Failed, Partial} \cup (0 .. Len(buf))
<1> DEFINE r == Headers(buf)
           f == ParseHeaders(buf)[MAX_HEADERS]
<1>1. Len(buf) \in Nat /\ Extends(buf, buf) /\ MAX_HEADERS \in 0 .. MAX_HEADERS
  BY SelfKept, ParserAssumption DEF Received
<1>2. PhrParseRequest(buf) = IF r < 0 THEN r ELSE f[r]
  BY Steps DEF Then
<1>3. r \in {Failed, Partial} \cup Nat
  BY HeadersBegin
<1>4. ASSUME r \in Nat PROVE r \in 0 .. Len(buf)
  <2>1. PICK x : x = Method(buf)
    OBVIOUS
  <2>2. x \in {0} \cup LineEnds(buf)
    BY <1>4, <2>1, HeadersBegin, MethodIs DEF StartsAt
  <2>3. Follows(buf, x, r)
    BY <1>4, <2>1, <2>2, RequestLineIs
  <2> QED BY <1>1, <2>3, EndsAre DEF Follows
<1>5. \A x \in 0 .. Len(buf) : f[x] \in {Failed, Partial} \cup (0 .. Len(buf))
  <2>1. \A x \in 0 .. Len(buf) : Firm(f[x], f[x], x, Len(buf))
    BY <1>1, HeadersKept
  <2> HIDE DEF f
  <2> QED BY <1>1, <2>1 DEF Firm
<1> HIDE DEF r, f
<1>6. CASE r \in Nat
  <2>1. ~ r < 0
    BY <1>6
  <2> QED BY <1>2, <1>4, <1>5, <1>6, <2>1
<1>7. CASE r \in {Failed, Partial}
  BY <1>2, <1>7 DEF Failed, Partial
<1> QED BY <1>3, <1>6, <1>7

-----------------------------------------------------------------------------
(* For any version literal, any MAX_HEADERS and characters in any number:  *)
(* phr_parse_request() says that it has read all of them exactly when they *)
(* are a request, line by line.                                            *)
THEOREM ParsesRequests ==
    \A buf \in Received : PhrParseRequest(buf) = Len(buf) <=> IsRequest(buf)
BY ParserSays, DefinitionSays

(* The state after each character: the parser has refused, asks for more,  *)
(* or has read everything, and the last only when a request has arrived.   *)
(* A request that ended earlier would have been answered earlier.          *)
THEOREM RequestsAccepted == ParserSpec => []AcceptsRequests
<1> DEFINE Inv == /\ received \in Received /\ pret = PhrParseRequest(received)
                  /\ pret \in {Failed, Partial, Len(received)}
<1>1. ParserInit => Inv
  BY ParserAssumption, BeginningsAssumption DEF ParserInit, Received
<1>2. Inv /\ [ParserNext]_parserVars => Inv'
  <2>1. ASSUME Inv, NEW c \in Chars, Receive(c) PROVE Inv'
    <3>1. /\ received' = Append(received, c) /\ received' \in Received
          /\ pret' = PhrParseRequest(received') /\ PhrParseRequest(received) = Partial
      BY <2>1 DEF Receive, Received
    <3>2. PhrParseRequest(received') \in {Failed, Partial, Len(received')}
      <4>1. /\ Len(received') = Len(received) + 1 /\ Len(received) \in Nat
            /\ Extends(received', received)
        BY <2>1, <3>1 DEF Received, Extends
      <4>2. PhrParseRequest(received') \notin 0 .. Len(received)
        <5>1. Partial \notin 0 .. Len(received)
          BY <4>1 DEF Partial
        <5> QED BY <2>1, <3>1, <4>1, <5>1, EarlierAnswer
      <4>3. PhrParseRequest(received') \in {Failed, Partial} \cup (0 .. Len(received'))
        BY <3>1, Answers
      <4> QED BY <4>1, <4>2, <4>3
    <3> QED BY <3>1, <3>2
  <2>2. ASSUME Inv, UNCHANGED parserVars PROVE Inv'
    BY <2>2 DEF parserVars
  <2> QED BY <2>1, <2>2 DEF ParserNext
<1>3. Inv => AcceptsRequests
  BY ParsesRequests DEF AcceptsRequests
<1> QED BY <1>1, <1>2, <1>3, PTL DEF ParserSpec
=============================================================================
