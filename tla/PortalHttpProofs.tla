-------------------------- MODULE PortalHttpProofs --------------------------
(***************************************************************************)
(* Theorems about PortalHttp: its types, and that a time is only taken     *)
(* from a whole request, whatever the limits of the parser.                *)
(***************************************************************************)
EXTENDS PortalHttp, TLAPS

TypeNames == {"form type", "other type"}

None(lines, names) == \A i \in DOMAIN lines : lines[i].name \notin names

\* What the members of the parser know of the header lines read so far: whether the
\* request is a POST, and the one length and the one type that were accepted.
HeadersFit(h, lines) ==
  /\ lines # <<>>
  /\ h.post => Head(lines).name = "POST"
  /\ None(lines, {"refused"})
  /\ IF h.lengthSeen THEN Once(lines, {"length"}, [name |-> "length", n |-> h.contentLength])
                     ELSE None(lines, {"length"})
  /\ IF h.typeSeen THEN h.typeValid => Once(lines, TypeNames, Plain("form type"))
                   ELSE ~h.typeValid /\ None(lines, TypeNames)

\* What they know at each stage of the request.  A request line finds nothing left of the
\* request before it; a body belongs to a whole request.
RequestFits(h, lines) ==
  /\ h.state = "kRequestLine" =>
       lines = <<>> /\ ~h.lengthSeen /\ ~h.typeSeen /\ ~h.typeValid
  /\ h.state = "kHeaders" => HeadersFit(h, lines)
  /\ h.state = "kBody" =>
       WholeRequest(lines, h.contentLength) /\ h.bodyLength < h.contentLength
  /\ h.state # "kBody" => h.bodyLength = 0

\* While a client is there, its record fits the lines it has sent; a time that was taken
\* makes every later one a retry.
IInv ==
  /\ TypeOK
  /\ http.here => RequestFits(http, heard)
  /\ taken > 0 => accepted

USE HttpAssumption

----------------------------------------------------------------------------
(* The client                                                              *)

\* A released client is of the type and is not there.
LEMMA ResetFits ==
  /\ resetPortalHttpClient \in HttpType
  /\ ~resetPortalHttpClient.here
  /\ resetPortalHttpClient.state # "kBody"
  BY DEF resetPortalHttpClient, HttpType

\* A new client has sent nothing, and nothing is left of the last one.
LEMMA NewFits ==
  /\ NewClient \in HttpType
  /\ NewClient.state # "kBody"
  /\ RequestFits(NewClient, <<>>)
  <1>1. /\ NewClient = [resetPortalHttpClient EXCEPT !.here = TRUE, !.connected = TRUE]
        /\ NewClient \in HttpType
    BY ResetFits DEF NewClient, HttpType
  <1>2. /\ NewClient.state = "kRequestLine" /\ NewClient.bodyLength = 0
        /\ ~NewClient.lengthSeen /\ ~NewClient.typeSeen /\ ~NewClient.typeValid
    BY DEF NewClient, resetPortalHttpClient
  <1> QED
    BY <1>1, <1>2 DEF RequestFits

\* The fields that the counters and clocks of a client leave alone.
SameRequest(h, g) ==
  /\ g.state = h.state /\ g.contentLength = h.contentLength /\ g.bodyLength = h.bodyLength
  /\ (g.post <=> h.post) /\ (g.lengthSeen <=> h.lengthSeen)
  /\ (g.typeSeen <=> h.typeSeen) /\ (g.typeValid <=> h.typeValid)

LEMMA SameFits ==
  ASSUME NEW h, NEW g, NEW lines, SameRequest(h, g), RequestFits(h, lines)
  PROVE  RequestFits(g, lines)
  BY DEF SameRequest, RequestFits, HeadersFit

----------------------------------------------------------------------------
(* Lines                                                                   *)

LEMMA AppendFacts ==
  ASSUME NEW lines \in Seq(Line), NEW kind \in Line
  PROVE  LET all == Append(lines, kind) IN
         /\ all \in Seq(Line) /\ all # <<>> /\ Last(all) = kind
         /\ Head(all) = IF lines = <<>> THEN kind ELSE Head(lines)
         /\ DOMAIN all = DOMAIN lines \union {Len(lines) + 1}
         /\ Len(lines) + 1 \notin DOMAIN lines
         /\ all[Len(lines) + 1] = kind
         /\ \A i \in DOMAIN lines : all[i] = lines[i]
  BY DEF Last

\* A line of another name does not count.
LEMMA OtherLine ==
  ASSUME NEW lines \in Seq(Line), NEW kind \in Line, NEW names, kind.name \notin names
  PROVE  /\ None(lines, names) => None(Append(lines, kind), names)
         /\ \A line : Once(lines, names, line) => Once(Append(lines, kind), names, line)
  <1> DEFINE all == Append(lines, kind)
  <1>1. None(lines, names) => None(all, names)
    BY AppendFacts DEF None
  <1>2. ASSUME NEW line, Once(lines, names, line)
        PROVE  Once(all, names, line)
    BY <1>2, AppendFacts DEF Once
  <1> QED
    BY <1>1, <1>2

\* The first line of a name is the only one.
LEMMA FirstLine ==
  ASSUME NEW lines \in Seq(Line), NEW kind \in Line, NEW names, None(lines, names)
  PROVE  Once(Append(lines, kind), names, kind)
  BY AppendFacts DEF None, Once

\* What a line or a byte must leave behind.
Keeps(h, lines) ==
  /\ h \in HttpType
  /\ h.here => RequestFits(h, lines)
  /\ h.state = "kBody" => h.bodyLength < h.contentLength

LEMMA ResetKeeps == \A lines : Keeps(resetPortalHttpClient, lines)
  BY ResetFits DEF Keeps

LEMMA KindFacts ==
  /\ RequestKind \subseteq Line /\ HeaderKind \subseteq Line /\ EmptyLine \in Line
  /\ \A kind \in RequestKind : kind.name \in {"GET", "POST", "refused"}
  /\ \A kind \in HeaderKind :
       /\ kind.name \in {"form type", "other type", "other", "refused", "length"}
       /\ kind.name = "length" =>
            kind.n \in 0..BodySize /\ kind = [name |-> "length", n |-> kind.n]
       /\ kind.name = "form type" => kind = Plain("form type")
  /\ EmptyLine.name = "empty"
  <1>1. /\ RequestKind \subseteq Line /\ HeaderKind \subseteq Line /\ EmptyLine \in Line
        /\ EmptyLine.name = "empty"
    BY DEF Line, EmptyLine, Plain
  <1>2. \A kind \in RequestKind : kind.name \in {"GET", "POST", "refused"}
    BY DEF RequestKind, Plain
  <1>3. ASSUME NEW kind \in HeaderKind
        PROVE  /\ kind.name \in {"form type", "other type", "other", "refused", "length"}
               /\ kind.name = "length" =>
                    kind.n \in 0..BodySize /\ kind = [name |-> "length", n |-> kind.n]
               /\ kind.name = "form type" => kind = Plain("form type")
    <2>1. CASE kind \in [name : {"length"}, n : 0..BodySize]
      BY <2>1
    <2>2. CASE \E name \in {"form type", "other type", "other", "refused"} : kind = Plain(name)
      <3>1. PICK name \in {"form type", "other type", "other", "refused"} : kind = Plain(name)
        BY <2>2
      <3>2. kind.name = name
        BY <3>1 DEF Plain
      <3> QED
        BY <3>1, <3>2
    <2> QED
      BY <2>1, <2>2 DEF HeaderKind
  <1> QED
    BY <1>1, <1>2, <1>3

LEMMA RequestLineKeeps ==
  ASSUME NEW h \in HttpType, NEW lines \in Seq(Line), RequestFits(h, lines),
         h.state = "kRequestLine", NEW kind \in RequestKind
  PROVE  Keeps(RequestLine(h, kind), Append(lines, kind))
  <1> DEFINE r == [h EXCEPT !.state = "kHeaders", !.post = kind.name = "POST"]
             all == Append(lines, kind)
  <1>1. CASE kind.name = "refused"
    BY <1>1, ResetKeeps DEF RequestLine, sendPortalHttpResponse
  <1>2. CASE kind.name # "refused"
    <2>1. /\ kind.name \in {"GET", "POST"} /\ kind \in Line
          /\ lines = <<>> /\ h.bodyLength = 0
          /\ ~h.lengthSeen /\ ~h.typeSeen /\ ~h.typeValid
      BY <1>2, KindFacts DEF RequestFits
    <2>2. r \in HttpType
      BY DEF HttpType
    <2>3. /\ r.state = "kHeaders" /\ (r.post <=> kind.name = "POST")
          /\ r.bodyLength = h.bodyLength /\ (r.lengthSeen <=> h.lengthSeen)
          /\ (r.typeSeen <=> h.typeSeen) /\ (r.typeValid <=> h.typeValid)
      BY DEF HttpType
    <2>4. RequestLine(h, kind) = r
      BY <1>2 DEF RequestLine
    <2> HIDE DEF r
    <2>5. ASSUME NEW names, kind.name \notin names
          PROVE  None(all, names)
      <3>1. None(lines, names)
        BY <2>1 DEF None
      <3> QED
        BY <2>1, <2>5, <3>1, OtherLine
    <2>6. all # <<>> /\ Head(all) = kind
      BY <2>1, AppendFacts
    <2>7. None(all, {"refused"}) /\ None(all, {"length"}) /\ None(all, TypeNames)
      <3>1. /\ kind.name \notin {"refused"} /\ kind.name \notin {"length"}
            /\ kind.name \notin TypeNames
        BY <2>1 DEF TypeNames
      <3> QED
        BY <3>1, <2>5
    <2>8. HeadersFit(r, all)
      BY <2>1, <2>3, <2>6, <2>7 DEF HeadersFit
    <2>9. RequestFits(r, all)
      BY <2>1, <2>3, <2>8 DEF RequestFits
    <2> QED
      BY <2>2, <2>3, <2>4, <2>9 DEF Keeps
  <1> QED
    BY <1>1, <1>2

\* A second length or a second type is refused, so that what was accepted stays the only
\* one.
LEMMA HeaderKeeps ==
  ASSUME NEW h \in HttpType, NEW lines \in Seq(Line), RequestFits(h, lines),
         h.state = "kHeaders", NEW kind \in HeaderKind
  PROVE  Keeps(Header(h, kind), Append(lines, kind))
  <1> DEFINE lengthRead == [h EXCEPT !.lengthSeen = TRUE, !.contentLength = kind.n]
             typeRead == [h EXCEPT !.typeSeen = TRUE, !.typeValid = kind.name = "form type"]
             all == Append(lines, kind)
  <1>1. /\ HeadersFit(h, lines) /\ h.bodyLength = 0
        /\ kind \in Line
    BY KindFacts DEF RequestFits
  <1>2. lines # <<>> /\ all # <<>> /\ Head(all) = Head(lines)
    <2>1. lines # <<>>
      BY <1>1 DEF HeadersFit
    <2> QED
      BY <1>1, <2>1, AppendFacts
  <1>3. ASSUME kind.name # "refused" PROVE None(all, {"refused"})
    BY <1>1, <1>3, OtherLine DEF HeadersFit
  <1>4. ASSUME kind.name # "length"
        PROVE  IF h.lengthSeen
               THEN Once(all, {"length"}, [name |-> "length", n |-> h.contentLength])
               ELSE None(all, {"length"})
    <2> DEFINE names == {"length"}
               line == [name |-> "length", n |-> h.contentLength]
    <2>1. IF h.lengthSeen THEN Once(lines, names, line) ELSE None(lines, names)
      BY <1>1 DEF HeadersFit
    <2>2. kind.name \notin names
      BY <1>4
    <2> HIDE DEF names, line
    <2>3. IF h.lengthSeen THEN Once(all, names, line) ELSE None(all, names)
      BY <1>1, <2>1, <2>2, OtherLine
    <2> QED
      BY <2>3 DEF names, line
  <1>5. ASSUME kind.name \notin TypeNames
        PROVE  IF h.typeSeen THEN h.typeValid => Once(all, TypeNames, Plain("form type"))
                             ELSE ~h.typeValid /\ None(all, TypeNames)
    BY <1>1, <1>5, OtherLine DEF HeadersFit
  <1>6. CASE kind.name = "length" /\ ~h.lengthSeen
    <2>1. kind.n \in 0..BodySize /\ kind = [name |-> "length", n |-> kind.n]
      BY <1>6, KindFacts
    <2>2. lengthRead \in HttpType
      BY <2>1 DEF HttpType
    <2>3. /\ lengthRead.state = h.state /\ (lengthRead.post <=> h.post)
          /\ lengthRead.bodyLength = h.bodyLength
          /\ lengthRead.lengthSeen /\ lengthRead.contentLength = kind.n
          /\ (lengthRead.typeSeen <=> h.typeSeen) /\ (lengthRead.typeValid <=> h.typeValid)
      BY DEF HttpType
    <2>4. Header(h, kind) = lengthRead
      BY <1>6 DEF Header
    <2> HIDE DEF lengthRead
    <2>5. Once(all, {"length"}, kind)
      BY <1>1, <1>6, FirstLine DEF HeadersFit
    <2>6. Once(all, {"length"}, [name |-> "length", n |-> lengthRead.contentLength])
      BY <2>1, <2>3, <2>5
    <2>7. HeadersFit(lengthRead, all)
      BY <1>1, <1>2, <1>3, <1>5, <1>6, <2>3, <2>6 DEF HeadersFit, TypeNames
    <2> QED
      BY <1>1, <2>2, <2>3, <2>4, <2>7 DEF Keeps, RequestFits
  <1>7. CASE kind.name \in TypeNames /\ ~h.typeSeen
    <2>1. typeRead \in HttpType
      BY DEF HttpType
    <2>2. /\ typeRead.state = h.state /\ (typeRead.post <=> h.post)
          /\ typeRead.bodyLength = h.bodyLength
          /\ typeRead.contentLength = h.contentLength
          /\ (typeRead.lengthSeen <=> h.lengthSeen)
          /\ typeRead.typeSeen /\ (typeRead.typeValid <=> kind.name = "form type")
      BY DEF HttpType
    <2>3. Header(h, kind) = typeRead
      BY <1>7 DEF Header, TypeNames
    <2> HIDE DEF typeRead
    <2>4. Once(all, TypeNames, kind)
      BY <1>1, <1>7, FirstLine DEF HeadersFit
    <2>5. typeRead.typeValid => Once(all, TypeNames, Plain("form type"))
      BY <2>2, <2>4, KindFacts
    <2>6. HeadersFit(typeRead, all)
      BY <1>1, <1>2, <1>3, <1>4, <1>7, <2>2, <2>5 DEF HeadersFit, TypeNames
    <2> QED
      BY <1>1, <2>1, <2>2, <2>3, <2>6 DEF Keeps, RequestFits
  <1>8. CASE kind.name = "other"
    <2>1. Header(h, kind) = h
      BY <1>8 DEF Header
    <2>2. HeadersFit(h, all)
      BY <1>1, <1>2, <1>3, <1>4, <1>5, <1>8 DEF HeadersFit, TypeNames
    <2> QED
      BY <1>1, <2>1, <2>2 DEF Keeps, RequestFits
  <1>9. CASE /\ ~(kind.name = "length" /\ ~h.lengthSeen)
             /\ ~(kind.name \in TypeNames /\ ~h.typeSeen)
             /\ kind.name # "other"
    <2>1. Header(h, kind) = resetPortalHttpClient
      BY <1>9 DEF Header, TypeNames, sendPortalHttpResponse
    <2> QED
      BY <2>1, ResetKeeps
  <1> QED
    BY <1>6, <1>7, <1>8, <1>9

\* The body is only read of a POST with a length and the right type.
LEMMA EndOfHeadersKeeps ==
  ASSUME NEW h \in HttpType, NEW lines \in Seq(Line), RequestFits(h, lines),
         h.state = "kHeaders"
  PROVE  Keeps(EndOfHeaders(h), Append(lines, EmptyLine))
  <1> DEFINE r == [h EXCEPT !.state = "kBody"]
             all == Append(lines, EmptyLine)
  <1>1. CASE h.post /\ h.lengthSeen /\ h.typeValid /\ h.contentLength > 0
    <2>1. r \in HttpType
      BY DEF HttpType
    <2>2. /\ r.state = "kBody" /\ r.bodyLength = h.bodyLength
          /\ r.contentLength = h.contentLength
      BY DEF HttpType
    <2>3. EndOfHeaders(h) = r
      BY <1>1 DEF EndOfHeaders
    <2> HIDE DEF r
    <2>4. HeadersFit(h, lines) /\ h.bodyLength = 0
      BY DEF RequestFits
    <2>5. /\ Head(lines).name = "POST" /\ lines # <<>> /\ None(lines, {"refused"})
          /\ Once(lines, {"length"}, [name |-> "length", n |-> h.contentLength])
          /\ Once(lines, TypeNames, Plain("form type"))
      BY <1>1, <2>4 DEF HeadersFit
    <2>6. EmptyLine \in Line /\ EmptyLine.name \notin {"refused", "length"} \union TypeNames
      BY KindFacts DEF TypeNames
    <2>7. /\ None(all, {"refused"})
          /\ Once(all, {"length"}, [name |-> "length", n |-> h.contentLength])
          /\ Once(all, TypeNames, Plain("form type"))
      BY <2>5, <2>6, OtherLine
    <2>8. Head(all).name = "POST" /\ Last(all) = EmptyLine
      BY <2>5, <2>6, AppendFacts
    <2>9. WholeRequest(all, h.contentLength)
      BY <2>7, <2>8 DEF WholeRequest, None, TypeNames
    <2>10. r.bodyLength < r.contentLength
      BY <1>1, <2>2, <2>4 DEF HttpType
    <2> QED
      BY <2>1, <2>2, <2>3, <2>9, <2>10 DEF Keeps, RequestFits
  <1>2. CASE ~(h.post /\ h.lengthSeen /\ h.typeValid /\ h.contentLength > 0)
    BY <1>2, ResetKeeps DEF EndOfHeaders, sendPortalHttpResponse
  <1> QED
    BY <1>1, <1>2

LEMMA LineKeeps ==
  ASSUME NEW h \in HttpType, NEW lines \in Seq(Line), RequestFits(h, lines),
         h.state # "kBody", NEW kind \in LineKinds(h)
  PROVE  Keeps(processPortalHttpLine(h, kind), Append(lines, kind)) /\ kind \in Line
  <1> DEFINE next == CASE h.state = "kRequestLine" -> RequestLine(h, kind)
                       [] kind = EmptyLine         -> EndOfHeaders(h)
                       [] OTHER                    -> Header(h, kind)
             r == [next EXCEPT !.lineLength = 0, !.cr = FALSE]
             all == Append(lines, kind)
  <1>1. h.state \in {"kRequestLine", "kHeaders"}
    BY DEF HttpType
  <1>2. kind \in Line /\ Keeps(next, all)
    <2>1. CASE h.state = "kRequestLine"
      <3>1. kind \in RequestKind
        BY <2>1 DEF LineKinds, RequestKind
      <3>2. next = RequestLine(h, kind)
        BY <2>1, <3>1, KindFacts
      <3> HIDE DEF next
      <3> QED
        BY <2>1, <3>1, <3>2, RequestLineKeeps, KindFacts
    <2>2. CASE h.state = "kHeaders" /\ kind = EmptyLine
      <3>1. next = EndOfHeaders(h)
        BY <2>2
      <3> HIDE DEF next
      <3> QED
        BY <2>2, <3>1, EndOfHeadersKeeps, KindFacts
    <2>3. CASE h.state = "kHeaders" /\ kind # EmptyLine
      <3>1. kind \in HeaderKind
        BY <2>3 DEF LineKinds
      <3>2. next = Header(h, kind)
        BY <2>3
      <3> HIDE DEF next
      <3> QED
        BY <2>3, <3>1, <3>2, HeaderKeeps, KindFacts
    <2> QED
      BY <1>1, <2>1, <2>2, <2>3
  <1>3. processPortalHttpLine(h, kind) = r
    BY DEF processPortalHttpLine
  <1> HIDE DEF next
  <1>4. next \in HttpType
    BY <1>2 DEF Keeps
  <1>5. r \in HttpType
    <2>1. 0 \in 0..LineSize - 1
      OBVIOUS
    <2> QED
      BY <1>4, <2>1 DEF HttpType
  <1>6. SameRequest(next, r) /\ (r.here <=> next.here)
    BY <1>4 DEF HttpType, SameRequest
  <1> HIDE DEF r
  <1>7. Keeps(r, all)
    BY <1>2, <1>5, <1>6, SameFits DEF Keeps, SameRequest
  <1> QED
    BY <1>2, <1>3, <1>7

----------------------------------------------------------------------------
(* The steps                                                               *)

LEMMA InitFits == Init => IInv
  <1> SUFFICES ASSUME Init PROVE IInv
    OBVIOUS
  <1>1. heard = <<>> /\ heard \in Seq(Line) /\ taken = 0 /\ processed = 0
    BY DEF Init
  <1>2. /\ reading \in BOOLEAN /\ waiting \in BOOLEAN /\ portal \in BOOLEAN
        /\ accepted \in BOOLEAN
    BY DEF Init
  <1>3. http \in HttpType /\ ~http.here /\ http.state # "kBody"
    BY ResetFits DEF Init
  <1> QED
    BY <1>1, <1>2, <1>3 DEF IInv, TypeOK

\* What is left to show of a step: the flags keep their types, and the client keeps its
\* request.
LEMMA StepFits ==
  ASSUME reading' \in BOOLEAN, waiting' \in BOOLEAN, portal' \in BOOLEAN,
         accepted' \in BOOLEAN, processed' \in 0..BytesPerTick, taken' \in 0..1,
         taken' > 0 => accepted', heard' \in Seq(Line), Keeps(http', heard')
  PROVE  IInv'
  BY DEF IInv, TypeOK, Keeps

LEMMA FlagsTyped ==
  ASSUME IInv
  PROVE  /\ reading \in BOOLEAN /\ waiting \in BOOLEAN /\ portal \in BOOLEAN
         /\ accepted \in BOOLEAN /\ processed \in 0..BytesPerTick /\ taken \in 0..1
         /\ (taken > 0 => accepted) /\ heard \in Seq(Line) /\ Keeps(http, heard)
  BY DEF IInv, TypeOK, Keeps

LEMMA ServiceBeginsFits ==
  ASSUME IInv, ServiceBegins
  PROVE  IInv'
  <1>1. Keeps(http', heard')
    <2>1. CASE ~reading'
      BY <2>1, ResetKeeps DEF ServiceBegins
    <2>2. CASE reading' /\ http.here
      <3>1. http' = http /\ heard' = heard
        BY <2>2 DEF ServiceBegins, ClientOfTick
      <3> QED
        BY <3>1, FlagsTyped
    <2>3. CASE reading' /\ ~http.here
      <3>1. http' = NewClient /\ heard' = <<>>
        BY <2>3 DEF ServiceBegins, ClientOfTick
      <3> QED
        BY <3>1, NewFits DEF Keeps
    <2> QED
      BY <2>1, <2>2, <2>3
  <1>2. heard' \in Seq(Line)
    BY FlagsTyped DEF ServiceBegins
  <1>3. reading' \in BOOLEAN
    BY DEF ServiceBegins
  <1>4. waiting' \in BOOLEAN
    BY DEF ServiceBegins
  <1>5. processed' \in 0..BytesPerTick
    <2>1. processed' = 0
      BY DEF ServiceBegins
    <2> QED
      BY <2>1
  <1>6. UNCHANGED <<portal, accepted, taken>>
    BY DEF ServiceBegins
  <1> QED
    BY <1>1, <1>2, <1>3, <1>4, <1>5, <1>6, FlagsTyped, StepFits

\* A byte of a line: the client is answered, the line ends, or it is one byte longer.
LEMMA ReadHeaderByteFits ==
  ASSUME IInv, http.here, NEW value, ReadHeaderByte(value)
  PROVE  Keeps(http', heard') /\ heard' \in Seq(Line)
  <1> DEFINE h == [http EXCEPT !.headerBytes = @ + 1, !.idle = 0]
             longer == [h EXCEPT !.lineLength = @ + 1, !.cr = value = "cr"]
             stopped == \/ http.headerBytes + 1 > MaxHeaderBytes
                        \/ value = "lf" /\ ~h.cr
                        \/ value = "control"
                        \/ value # "lf" /\ LineIsFull(h)
  <1>1. /\ http \in HttpType /\ RequestFits(http, heard) /\ heard \in Seq(Line)
        /\ http.state # "kBody"
    BY FlagsTyped DEF Keeps, ReadHeaderByte
  <1>2. CASE stopped
    <2>1. http' = resetPortalHttpClient /\ heard' = heard
      BY <1>2 DEF ReadHeaderByte, sendPortalHttpResponse
    <2> QED
      BY <1>1, <2>1, ResetKeeps
  <1>3. ASSUME ~stopped
        PROVE  h \in HttpType /\ SameRequest(http, h)
    <2>1. http.headerBytes + 1 \in 0..MaxHeaderBytes /\ 0 \in 0..IdleTimeout
      BY <1>1, <1>3 DEF HttpType
    <2>2. h \in HttpType
      BY <1>1, <2>1 DEF HttpType
    <2>3. SameRequest(http, h)
      BY <1>1 DEF HttpType, SameRequest
    <2> QED
      BY <2>2, <2>3
  <1>4. CASE ~stopped /\ value = "lf"
    <2>1. PICK kind \in LineKinds(h) :
            http' = processPortalHttpLine(h, kind) /\ heard' = Append(heard, kind)
      BY <1>4 DEF ReadHeaderByte
    <2>2. h \in HttpType /\ RequestFits(h, heard) /\ h.state # "kBody"
      <3>1. h \in HttpType /\ SameRequest(http, h)
        BY <1>3, <1>4
      <3> HIDE DEF h
      <3> QED
        BY <1>1, <3>1, SameFits DEF SameRequest
    <2> HIDE DEF h
    <2>3. Keeps(http', heard') /\ kind \in Line
      BY <1>1, <2>1, <2>2, LineKeeps
    <2> QED
      BY <1>1, <2>1, <2>3, AppendFacts
  <1>5. CASE ~stopped /\ value # "lf"
    <2>1. http' = longer /\ heard' = heard
      BY <1>5 DEF ReadHeaderByte
    <2>2. h \in HttpType /\ SameRequest(http, h) /\ ~LineIsFull(h)
      BY <1>3, <1>5
    <2> HIDE DEF h
    <2>3. h.lineLength + 1 \in 0..LineSize - 1
      BY <2>2 DEF LineIsFull, HttpType
    <2>4. longer \in HttpType
      BY <2>2, <2>3 DEF HttpType
    <2>5. SameRequest(h, longer)
      BY <2>2 DEF HttpType, SameRequest
    <2> HIDE DEF longer
    <2>6. RequestFits(longer, heard) /\ longer.state # "kBody"
      BY <1>1, <2>2, <2>5, SameFits DEF SameRequest
    <2> QED
      BY <1>1, <2>1, <2>4, <2>6 DEF Keeps
  <1> QED
    BY <1>2, <1>4, <1>5

\* A byte of a body: the last one hands the time on and releases the client.
LEMMA ReadBodyByteFits ==
  ASSUME IInv, http.here, NEW good \in BOOLEAN, ReadBodyByte(good)
  PROVE  /\ Keeps(http', heard') /\ heard' = heard
         /\ accepted' \in BOOLEAN /\ taken' \in 0..1 /\ (taken' > 0 => accepted')
         /\ taken' > taken => WholeRequest(heard, http.bodyLength + 1)
  <1> DEFINE longer == [http EXCEPT !.bodyLength = @ + 1, !.idle = 0]
  <1>1. /\ http \in HttpType /\ RequestFits(http, heard) /\ http.state = "kBody"
        /\ http.bodyLength < http.contentLength /\ heard' = heard
        /\ WholeRequest(heard, http.contentLength)
    BY FlagsTyped DEF Keeps, ReadBodyByte, RequestFits
  <1>2. http.bodyLength \in Nat /\ http.contentLength \in 0..BodySize
    BY <1>1 DEF HttpType
  <1>3. http.bodyLength < http.contentLength /\ http.bodyLength < BodySize
    BY <1>1, <1>2
  <1>4. CASE http.bodyLength + 1 = http.contentLength
    <2>1. http' = resetPortalHttpClient /\ handlePortalTime(good)
      BY <1>2, <1>3, <1>4 DEF ReadBodyByte, sendPortalHttpResponse
    <2>2. taken \in 0..1 /\ accepted \in BOOLEAN /\ (taken > 0 => accepted)
      BY FlagsTyped
    <2>3. accepted' \in BOOLEAN
      BY <2>1, <2>2 DEF handlePortalTime
    <2>4. CASE good /\ ~accepted
      <3>1. taken' = taken + 1 /\ accepted'
        BY <2>1, <2>4 DEF handlePortalTime
      <3>2. taken = 0
        BY <2>2, <2>4
      <3>3. taken' \in 0..1
        BY <3>1, <3>2
      <3>4. WholeRequest(heard, http.bodyLength + 1)
        BY <1>1, <1>4
      <3> QED
        BY <1>1, <2>1, <2>3, <3>1, <3>3, <3>4, ResetKeeps
    <2>5. CASE ~(good /\ ~accepted)
      <3>1. taken' = taken /\ (accepted => accepted')
        BY <2>1, <2>5 DEF handlePortalTime
      <3>2. ~(taken' > taken)
        BY <2>2, <3>1
      <3> QED
        BY <1>1, <2>1, <2>2, <2>3, <3>1, <3>2, ResetKeeps
    <2> QED
      BY <2>4, <2>5
  <1>5. CASE http.bodyLength + 1 # http.contentLength
    <2>1. http' = longer /\ UNCHANGED <<accepted, taken>>
      BY <1>2, <1>3, <1>5 DEF ReadBodyByte
    <2>2. /\ http.bodyLength + 1 < http.contentLength
          /\ http.bodyLength + 1 \in 0..BodySize /\ 0 \in 0..IdleTimeout
      BY <1>2, <1>3, <1>5
    <2>3. longer \in HttpType
      BY <1>1, <2>2 DEF HttpType
    <2>4. /\ longer.state = http.state /\ longer.contentLength = http.contentLength
          /\ longer.bodyLength = http.bodyLength + 1
      BY <1>1 DEF HttpType
    <2> HIDE DEF longer
    <2>5. RequestFits(longer, heard) /\ longer.bodyLength < longer.contentLength
      BY <1>1, <2>2, <2>4 DEF RequestFits
    <2>6. Keeps(http', heard')
      BY <1>1, <2>1, <2>3, <2>5 DEF Keeps
    <2>7. ~(taken' > taken)
      BY <2>1, FlagsTyped
    <2> QED
      BY <1>1, <2>1, <2>6, <2>7, FlagsTyped
  <1> QED
    BY <1>4, <1>5

LEMMA ReadFits ==
  ASSUME IInv, Read
  PROVE  IInv' /\ (taken' > taken => reading /\ WholeRequest(heard, http.bodyLength + 1))
  <1>1. /\ reading /\ http.here /\ UNCHANGED <<reading, waiting, portal>>
        /\ processed' = processed + 1 /\ processed < BytesPerTick
    BY DEF Read
  <1>2. processed' \in 0..BytesPerTick
    BY <1>1, FlagsTyped
  <1>3. ASSUME NEW value, ReadHeaderByte(value)
        PROVE  IInv' /\ ~(taken' > taken)
    <2>1. UNCHANGED <<accepted, taken>>
      BY <1>3 DEF ReadHeaderByte
    <2>2. Keeps(http', heard') /\ heard' \in Seq(Line)
      BY <1>1, <1>3, ReadHeaderByteFits
    <2>3. ~(taken' > taken)
      BY <2>1, FlagsTyped
    <2> QED
      BY <1>1, <1>2, <2>1, <2>2, <2>3, FlagsTyped, StepFits
  <1>4. ASSUME NEW good \in BOOLEAN, ReadBodyByte(good)
        PROVE  IInv' /\ (taken' > taken => WholeRequest(heard, http.bodyLength + 1))
    <2>1. /\ Keeps(http', heard') /\ heard' = heard
          /\ accepted' \in BOOLEAN /\ taken' \in 0..1 /\ (taken' > 0 => accepted')
          /\ taken' > taken => WholeRequest(heard, http.bodyLength + 1)
      BY <1>1, <1>4, ReadBodyByteFits
    <2> QED
      BY <1>1, <1>2, <2>1, FlagsTyped, StepFits
  <1> QED
    BY <1>1, <1>3, <1>4 DEF Read

LEMMA ServiceEndsFits ==
  ASSUME IInv, ServiceEnds
  PROVE  IInv'
  <1>1. Keeps(http', heard')
    BY FlagsTyped, ResetKeeps DEF ServiceEnds
  <1> QED
    BY <1>1, FlagsTyped, StepFits DEF ServiceEnds

LEMMA StartPortalFits ==
  ASSUME IInv, startPortal
  PROVE  IInv'
  <1>1. taken' = 0 /\ taken' \in 0..1
    BY DEF startPortal
  <1>2. portal' \in BOOLEAN /\ accepted' \in BOOLEAN
    BY DEF startPortal
  <1> QED
    BY <1>1, <1>2, FlagsTyped, StepFits DEF startPortal

LEMMA StopPortalFits ==
  ASSUME IInv, stopPortal
  PROVE  IInv'
  <1>1. Keeps(http', heard')
    BY ResetKeeps DEF stopPortal
  <1> QED
    BY <1>1, FlagsTyped, StepFits DEF stopPortal

LEMMA PhoneArrivesFits ==
  ASSUME IInv, PhoneArrives
  PROVE  IInv'
  BY FlagsTyped, StepFits DEF PhoneArrives

LEMMA PhoneClosesFits ==
  ASSUME IInv, PhoneCloses
  PROVE  IInv'
  <1> DEFINE closed == [http EXCEPT !.connected = FALSE]
  <1>1. http \in HttpType /\ Keeps(http, heard)
    BY FlagsTyped DEF Keeps
  <1>2. closed \in HttpType
    BY <1>1 DEF HttpType
  <1>3. SameRequest(http, closed) /\ (closed.here <=> http.here)
    BY <1>1 DEF HttpType, SameRequest
  <1> HIDE DEF closed
  <1>4. Keeps(closed, heard)
    BY <1>1, <1>2, <1>3, SameFits DEF Keeps, SameRequest
  <1>5. http' = closed
    BY DEF PhoneCloses, closed
  <1> QED
    BY <1>4, <1>5, FlagsTyped, StepFits DEF PhoneCloses

LEMMA ElapseFits ==
  ASSUME IInv, Elapse
  PROVE  IInv'
  <1> DEFINE age == IF http.age < TotalTimeout THEN http.age + 1 ELSE http.age
             idle == IF http.idle < IdleTimeout THEN http.idle + 1 ELSE http.idle
             older == [http EXCEPT !.age = age, !.idle = idle]
  <1>1. http \in HttpType /\ Keeps(http, heard)
    BY FlagsTyped DEF Keeps
  <1>2. age \in 0..TotalTimeout /\ idle \in 0..IdleTimeout
    BY <1>1 DEF HttpType
  <1>3. http' = older
    BY <1>1 DEF Elapse, HttpType
  <1> HIDE DEF age, idle
  <1>4. older \in HttpType
    BY <1>1, <1>2 DEF HttpType
  <1>5. SameRequest(http, older) /\ (older.here <=> http.here)
    BY <1>1 DEF HttpType, SameRequest
  <1> HIDE DEF older
  <1>6. Keeps(older, heard)
    BY <1>1, <1>4, <1>5, SameFits DEF Keeps, SameRequest
  <1> QED
    BY <1>3, <1>6, FlagsTyped, StepFits DEF Elapse

\* A step other than Read takes no time.
LEMMA NextFits ==
  ASSUME IInv, [Next]_vars
  PROVE  IInv' /\ (taken' > taken => reading /\ WholeRequest(heard, http.bodyLength + 1))
  <1>1. CASE Read
    BY <1>1, ReadFits
  <1>2. ASSUME ~Read PROVE ~(taken' > taken)
    <2>1. taken' = taken \/ taken' = 0
      BY <1>2 DEF Next, Service, ServiceBegins, ServiceEnds, startPortal, stopPortal,
                  PhoneArrives, PhoneCloses, Elapse, vars
    <2> QED
      BY <2>1, FlagsTyped
  <1>3. CASE UNCHANGED vars
    BY <1>3, FlagsTyped, StepFits DEF vars
  <1>4. CASE Next /\ ~Read
    BY <1>2, <1>4, ServiceBeginsFits, ServiceEndsFits, StartPortalFits, StopPortalFits,
       PhoneArrivesFits, PhoneClosesFits, ElapseFits DEF Next, Service
  <1> QED
    BY <1>1, <1>2, <1>3, <1>4

----------------------------------------------------------------------------
(* The theorems                                                            *)

\* The parser's record always fits the lines that were read (members portalHttp... of
\* NetworkTimeService.h).
THEOREM Soundness == Spec => []IInv
  <1>1. Init => IInv
    BY InitFits
  <1>2. IInv /\ [Next]_vars => IInv'
    BY NextFits
  <1> QED
    BY <1>1, <1>2, PTL DEF Spec

\* Every index and counter of servicePortalHttp stays within its buffer or limit, and a
\* body is never read past its length.
THEOREM TypeCorrect == Spec => []TypeOK
  <1>1. IInv => TypeOK
    BY DEF IInv
  <1> QED
    BY <1>1, Soundness, PTL

\* However a request is cut into bytes and ticks, and whatever the requests before it left
\* behind, a time is only taken from the last byte of a whole one.
THEOREM WholeRequestsOnly == Spec => TimeComesFromWholeRequest
  <1>1. IInv /\ [Next]_vars
        => [taken' > taken => reading /\ WholeRequest(heard, http.bodyLength + 1)]_vars
    BY NextFits
  <1> QED
    BY <1>1, Soundness, PTL DEF Spec, TimeComesFromWholeRequest

=============================================================================
