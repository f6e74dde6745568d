----------------------------- MODULE CookieJar -----------------------------
(***************************************************************************)
(* CookieJar of src/src/CaptivePortalAutofillCore.cpp: what a captive      *)
(* portal may have the clock remember while it works through its pages.    *)
(* A cookie is a host, a name and the length of its name=value pair, which *)
(* also tells one value from another.  A jar lives for one automation job, *)
(* and the first cookie it refuses ends the job (CaptivePortalAutofill.cpp *)
(* 397).                                                                   *)
(***************************************************************************)
EXTENDS Integers, Sequences, SequencesExt

CONSTANTS
  Host, CookieName,
  MaxCookies,      \* kMaximumCookies
  MaxPair,         \* kMaximumCookiePairLength
  MaxCookieBytes   \* kMaximumCookieBytes

ASSUME JarAssumption == {MaxCookies, MaxPair, MaxCookieBytes} \subseteq Nat \ {0}

VARIABLES
  entries,         \* entries_ and count_
  bytes,           \* bytes_
  accepted,        \* history: the latest value accepted of each cookie
  refused          \* history: a cookie was refused, and the job is over

jarVars == <<entries, bytes, accepted, refused>>

NoValue == 0

JarInit ==
  /\ entries = <<>> /\ bytes = 0 /\ refused = FALSE
  /\ accepted = [cookie \in Host \X CookieName |-> NoValue]

\* MUTANT: the new length is added to the old one's.
ReplaceAddsUp(at, length) ==
  IF bytes - entries[at].length + length > MaxCookieBytes THEN <<FALSE, entries, bytes>>
  ELSE <<TRUE, [entries EXCEPT ![at].length = length], bytes + length>>

\* A known cookie keeps its place; what add returns, entries_ and bytes_ afterwards.
Replaced(at, length) ==
  LET others == bytes - entries[at].length
  IN  IF others + length > MaxCookieBytes THEN <<FALSE, entries, bytes>>
      ELSE <<TRUE, [entries EXCEPT ![at].length = length], others + length>>

Appended(host, name, length) ==
  IF Len(entries) >= MaxCookies \/ bytes + length > MaxCookieBytes
  THEN <<FALSE, entries, bytes>>
  ELSE <<TRUE, Append(entries, [host |-> host, name |-> name, length |-> length]),
         bytes + length>>

\* wellFormed: a name, an equals sign, no line break and a host that is not too long.
Added(host, name, length, wellFormed) ==
  LET at == SelectInSeq(entries, LAMBDA e : e.host = host /\ e.name = name)
  IN  IF ~wellFormed \/ length = 0 \/ length > MaxPair THEN <<FALSE, entries, bytes>>
      ELSE IF at > 0 THEN Replaced(at, length) ELSE Appended(host, name, length)

add(host, name, length, wellFormed) ==
  /\ ~refused
  /\ LET result == Added(host, name, length, wellFormed)
     IN  /\ refused' = ~result[1] /\ entries' = result[2] /\ bytes' = result[3]
         /\ accepted' = IF result[1] THEN [accepted EXCEPT ![<<host, name>>] = length]
                                     ELSE accepted

NextJob ==
  /\ entries' = <<>> /\ bytes' = 0 /\ refused' = FALSE
  /\ accepted' = [cookie \in Host \X CookieName |-> NoValue]

JarNext ==
  \/ \E host \in Host, name \in CookieName, length \in 0..MaxPair + 1, wellFormed \in BOOLEAN :
       add(host, name, length, wellFormed)
  \/ NextJob

\* headerFor: the host's pairs with "; " between them, in a buffer of kMaximumCookieBytes.
HeaderLength(host) ==
  FoldLeft(LAMBDA written, e :
             IF e.host # host THEN written
             ELSE written + (IF written = 0 THEN 0 ELSE 2) + e.length,
           0, entries)

headerFor(host) == HeaderLength(host) <= MaxCookieBytes

----------------------------------------------------------------------------
(* Properties                                                              *)

\* The jar holds one entry for each cookie accepted, at its latest value; bytes_ is what
\* they take together, and nothing goes beyond the limits.  What the separators of a full
\* jar leave room for can be sent: between that and MaxCookieBytes headerFor may fail.
JarIsSound ==
  /\ Len(entries) <= MaxCookies /\ bytes <= MaxCookieBytes
  /\ bytes = FoldLeft(LAMBDA sum, e : sum + e.length, 0, entries)
  /\ \A h \in Host, n \in CookieName :
       LET own == {i \in DOMAIN entries : entries[i].host = h /\ entries[i].name = n}
       IN  IF accepted[<<h, n>>] = NoValue THEN own = {}
           ELSE \E i \in own : own = {i} /\ entries[i].length = accepted[<<h, n>>]
  /\ bytes + 2 * (MaxCookies - 1) <= MaxCookieBytes => \A h \in Host : headerFor(h)

=============================================================================
