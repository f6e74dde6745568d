----------------------------- MODULE PortalHttp -----------------------------
(***************************************************************************)
(* The HTTP server of the setup portal (servicePortalHttp and what it      *)
(* calls in src/src/NetworkTimeService.cpp): one request at a time, parsed *)
(* byte by byte over as many ticks as the phone takes to send it.          *)
(*                                                                         *)
(* A byte is one of four kinds; in a body it is any.  What a line says is  *)
(* open until the line ends.  Every answer closes the connection, so the   *)
(* answers differ only in what they leave behind: a time that was taken,   *)
(* or nothing.  The phone sends, stalls and closes as it likes.            *)
(***************************************************************************)
EXTENDS Naturals, Sequences, SequencesExt

CONSTANTS
  LineSize,       \* sizeof(portalHttpLine_)
  MaxHeaderBytes, \* kMaximumPortalHeaderBytes
  BodySize,       \* sizeof(portalHttpBody_), kMaximumPortalTimeFormLength
  BytesPerTick,   \* kMaximumPortalBytesPerTick
  IdleTimeout,    \* kPortalHttpIdleTimeoutMs
  TotalTimeout    \* kPortalHttpTotalTimeoutMs

ASSUME HttpAssumption ==
  /\ {LineSize, MaxHeaderBytes, BodySize, BytesPerTick, IdleTimeout, TotalTimeout}
       \subseteq Nat \ {0}
  /\ IdleTimeout < TotalTimeout

VARIABLES
  http,      \* the client and its request
  reading,   \* the tick is in its loop over the client's bytes
  processed, \* bytes the loop has read
  waiting,   \* a phone waits to be accepted
  portal,    \* the portal is open
  accepted,  \* portalAccepted_
  taken,     \* times handed to the main loop since the portal opened
  heard      \* history: the lines of the request

vars == <<http, reading, processed, waiting, portal, accepted, taken, heard>>

Byte == {"cr", "lf", "char", "control"}

Plain(name) == [name |-> name, n |-> 0]

\* "refused" stands for every line that is answered with an error by itself.
RequestKind == {Plain(name) : name \in {"GET", "POST", "refused"}}

HeaderKind == {Plain(name) : name \in {"form type", "other type", "other", "refused"}}
              \union [name : {"length"}, n : 0..BodySize]

EmptyLine == Plain("empty")

HttpType ==
  [here : BOOLEAN, connected : BOOLEAN, state : {"kRequestLine", "kHeaders", "kBody"},
   headerBytes : 0..MaxHeaderBytes, lineLength : 0..LineSize - 1, cr : BOOLEAN,
   contentLength : 0..BodySize, bodyLength : 0..BodySize, post : BOOLEAN,
   lengthSeen : BOOLEAN, typeSeen : BOOLEAN, typeValid : BOOLEAN,
   age : 0..TotalTimeout, idle : 0..IdleTimeout]

Line == RequestKind \union HeaderKind \union {EmptyLine}

TypeOK ==
  /\ http \in HttpType
  /\ reading \in BOOLEAN /\ waiting \in BOOLEAN /\ portal \in BOOLEAN /\ accepted \in BOOLEAN
  /\ processed \in 0..BytesPerTick
  /\ taken \in 0..1
  /\ heard \in Seq(Line)
  /\ http.state = "kBody" => http.bodyLength < http.contentLength

resetPortalHttpClient ==
  [here |-> FALSE, connected |-> FALSE, state |-> "kRequestLine", headerBytes |-> 0,
   lineLength |-> 0, cr |-> FALSE, contentLength |-> 0, bodyLength |-> 0, post |-> FALSE,
   lengthSeen |-> FALSE, typeSeen |-> FALSE, typeValid |-> FALSE, age |-> 0, idle |-> 0]

\* Every answer releases the client.
sendPortalHttpResponse == resetPortalHttpClient

Init ==
  /\ http = resetPortalHttpClient
  /\ reading = FALSE /\ processed = 0 /\ waiting = FALSE
  /\ portal = FALSE /\ accepted = FALSE /\ taken = 0 /\ heard = <<>>

----------------------------------------------------------------------------
(* Lines                                                                   *)

RequestLine(h, kind) ==
  IF kind.name = "refused" THEN sendPortalHttpResponse
  ELSE [h EXCEPT !.state = "kHeaders", !.post = kind.name = "POST"]

\* MUTANT: the last of several lengths counts.
LastLengthWins(h, kind) ==
  CASE kind.name = "length" -> [h EXCEPT !.lengthSeen = TRUE, !.contentLength = kind.n]
    [] kind.name \in {"form type", "other type"} /\ ~h.typeSeen ->
         [h EXCEPT !.typeSeen = TRUE, !.typeValid = kind.name = "form type"]
    [] kind.name = "other" -> h
    [] OTHER -> sendPortalHttpResponse

Header(h, kind) ==
  CASE kind.name = "length" /\ ~h.lengthSeen ->
         [h EXCEPT !.lengthSeen = TRUE, !.contentLength = kind.n]
    [] kind.name \in {"form type", "other type"} /\ ~h.typeSeen ->
         [h EXCEPT !.typeSeen = TRUE, !.typeValid = kind.name = "form type"]
    [] kind.name = "other" -> h
    [] OTHER -> sendPortalHttpResponse

\* The page, an error or, for an empty form, an invalid time.
EndOfHeaders(h) ==
  IF h.post /\ h.lengthSeen /\ h.typeValid /\ h.contentLength > 0
  THEN [h EXCEPT !.state = "kBody"]
  ELSE sendPortalHttpResponse

\* kind: what the finished line says, of those its length and place admit.
LineKinds(h) ==
  IF h.state = "kRequestLine" THEN IF h.lineLength > 1 THEN RequestKind ELSE {Plain("refused")}
  ELSE IF h.lineLength > 1 THEN HeaderKind ELSE {EmptyLine}

processPortalHttpLine(h, kind) ==
  LET next == CASE h.state = "kRequestLine" -> RequestLine(h, kind)
                [] kind = EmptyLine         -> EndOfHeaders(h)
                [] OTHER                    -> Header(h, kind)
  IN  [next EXCEPT !.lineLength = 0, !.cr = FALSE]

----------------------------------------------------------------------------
(* servicePortalHttp                                                       *)

NewClient == [resetPortalHttpClient EXCEPT !.here = TRUE, !.connected = TRUE]

\* MUTANT: the times are stamped on every tick.
ClientRestamped == IF http.here THEN [http EXCEPT !.age = 0, !.idle = 0] ELSE NewClient

ClientOfTick == IF http.here THEN http ELSE NewClient

\* A tick with a client, or with one to accept; a client out of time is dropped at once.
ServiceBegins ==
  /\ portal /\ ~reading
  /\ http.here \/ waiting
  /\ waiting' = (waiting /\ http.here)
  /\ reading' = (ClientOfTick.age < TotalTimeout)
  /\ http' = IF reading' THEN ClientOfTick ELSE resetPortalHttpClient
  /\ heard' = IF http.here THEN heard ELSE <<>>
  /\ processed' = 0
  /\ UNCHANGED <<portal, accepted, taken>>

\* MUTANT: the terminator is forgotten.
LineIsFullLate(h) == h.lineLength + 1 > LineSize

LineIsFull(h) == h.lineLength + 1 >= LineSize

ReadHeaderByte(value) ==
  LET h == [http EXCEPT !.headerBytes = @ + 1, !.idle = 0]
  IN  /\ http.state # "kBody"
      /\ IF \/ http.headerBytes + 1 > MaxHeaderBytes
            \/ value = "lf" /\ ~h.cr
            \/ value = "control"
            \/ value # "lf" /\ LineIsFull(h)
         THEN http' = sendPortalHttpResponse /\ UNCHANGED heard
         ELSE IF value = "lf"
         THEN \E kind \in LineKinds(h) :
                http' = processPortalHttpLine(h, kind) /\ heard' = Append(heard, kind)
         ELSE /\ http' = [h EXCEPT !.lineLength = @ + 1, !.cr = value = "cr"]
              /\ UNCHANGED heard
      /\ UNCHANGED <<accepted, taken>>

\* good: the form parses and its time is acceptable.  A retry is answered without
\* taking it again.
handlePortalTime(good) ==
  /\ accepted' = (accepted \/ good)
  /\ taken' = IF good /\ ~accepted THEN taken + 1 ELSE taken

ReadBodyByte(good) ==
  /\ http.state = "kBody"
  /\ IF http.bodyLength >= http.contentLength \/ http.bodyLength >= BodySize
     THEN http' = sendPortalHttpResponse /\ UNCHANGED <<accepted, taken>>
     ELSE IF http.bodyLength + 1 = http.contentLength
     THEN handlePortalTime(good) /\ http' = sendPortalHttpResponse
     ELSE /\ http' = [http EXCEPT !.bodyLength = @ + 1, !.idle = 0]
          /\ UNCHANGED <<accepted, taken>>
  /\ UNCHANGED heard

Read ==
  /\ reading /\ http.here /\ processed < BytesPerTick
  /\ processed' = processed + 1
  /\ (\E value \in Byte : ReadHeaderByte(value)) \/ (\E good \in BOOLEAN : ReadBodyByte(good))
  /\ UNCHANGED <<reading, waiting, portal>>

\* more: bytes of the client are still unread.
GivenUp(h, more) ==
  (~h.connected /\ ~more) \/ h.idle >= IdleTimeout \/ h.age >= TotalTimeout

ServiceEnds ==
  /\ reading
  /\ reading' = FALSE
  /\ \E more \in BOOLEAN :
       http' = IF http.here /\ GivenUp(http, more) THEN resetPortalHttpClient ELSE http
  /\ UNCHANGED <<processed, waiting, portal, accepted, taken, heard>>

----------------------------------------------------------------------------
(* The rest of the service, the phones and time                            *)

startPortal ==
  /\ ~portal
  /\ portal' = TRUE /\ accepted' = FALSE /\ taken' = 0
  /\ UNCHANGED <<http, reading, processed, waiting, heard>>

stopPortal ==
  /\ portal /\ ~reading
  /\ portal' = FALSE /\ waiting' = FALSE /\ http' = resetPortalHttpClient
  /\ UNCHANGED <<reading, processed, accepted, taken, heard>>

PhoneArrives ==
  /\ portal /\ ~waiting
  /\ waiting' = TRUE
  /\ UNCHANGED <<http, reading, processed, portal, accepted, taken, heard>>

PhoneCloses ==
  /\ http.connected
  /\ http' = [http EXCEPT !.connected = FALSE]
  /\ UNCHANGED <<reading, processed, waiting, portal, accepted, taken, heard>>

Elapse ==
  /\ http.here /\ (http.age < TotalTimeout \/ http.idle < IdleTimeout)
  /\ http' = [http EXCEPT !.age  = IF @ < TotalTimeout THEN @ + 1 ELSE @,
                          !.idle = IF @ < IdleTimeout THEN @ + 1 ELSE @]
  /\ UNCHANGED <<reading, processed, waiting, portal, accepted, taken, heard>>

Service == ServiceBegins \/ Read \/ ServiceEnds

Next == Service \/ startPortal \/ stopPortal \/ PhoneArrives \/ PhoneCloses \/ Elapse

(* The main loop ticks and time passes; no phone sends anything.           *)
Spec == Init /\ [][Next]_vars /\ WF_vars(Service) /\ WF_vars(Elapse)

----------------------------------------------------------------------------
(* Properties                                                              *)

\* Of the lines with one of these names there is one, this one.
Once(lines, names, line) ==
  \E i \in DOMAIN lines :
    lines[i] = line /\ \A j \in DOMAIN lines : lines[j].name \in names => j = i

\* A POST whose headers are all there, none of them twice, and whose body is as long as
\* they say.
WholeRequest(lines, length) ==
  /\ Head(lines).name = "POST" /\ Last(lines) = EmptyLine
  /\ \A i \in DOMAIN lines : lines[i].name # "refused"
  /\ Once(lines, {"length"}, [name |-> "length", n |-> length])
  /\ Once(lines, {"form type", "other type"}, Plain("form type"))

\* However a request is cut into bytes and ticks, and whatever the requests before it
\* left behind, a time is only taken from the last byte of a whole one.
TimeComesFromWholeRequest ==
  [][taken' > taken => reading /\ WholeRequest(heard, http.bodyLength + 1)]_vars

\* A phone that stalls or sends byte after byte for ever does not keep the next one out
\* (the portal serves one client at a time).
WaitingPhoneIsServed == waiting ~> ~waiting

=============================================================================
