----------------------------- MODULE PortalForm -----------------------------
(***************************************************************************)
(* buildSubmission of src/src/CaptivePortalAutofillCore.cpp: which form of *)
(* a captive portal's page the clock submits, and with which fields.       *)
(*                                                                         *)
(* The page arrives as its tags, in any order and number.  A control is a  *)
(* record of what the code asks of it: the meaning of its texts (a terms   *)
(* box, an opt-in, a text the clock has a value for, or unknown) stands    *)
(* for the search of names, ids and placeholders, score and rejected for   *)
(* the words of a button.  A control is "refused" if it is a password or a *)
(* file, has a blocked meaning or an attribute that is too long; "inert"   *)
(* if it is disabled, without a name, or has nothing to offer.             *)
(***************************************************************************)
EXTENDS Integers, Sequences, SequencesExt

CONSTANTS
  MaxForms,    \* kMaximumForms
  MaxControls, \* kMaximumControls
  Name, NoName, \* names of controls; a control without one
  MaxTags      \* bound: controls on a page

ASSUME FormAssumption ==
  /\ {MaxForms, MaxControls, MaxTags} \subseteq Nat \ {0}
  /\ NoName \notin Name

VARIABLES
  candidate, \* the form that is open
  best,      \* the submission so far: which form, and its score
  formCount,
  result,    \* what buildSubmission has returned
  seen,      \* history: the form that is open, as the page shows it
  offers,    \* history: the forms that have ended
  tags       \* history: the controls of the page

formVars == <<candidate, best, formCount, result, seen, offers, tags>>

Plain(what, name) ==
  [what |-> what, name |-> name, score |-> 0, rejected |-> FALSE, meaning |-> "unknown",
   required |-> FALSE, checked |-> FALSE]

ButtonWords == {<<0, FALSE>>, <<12, FALSE>>, <<-30, TRUE>>, <<6, TRUE>>}

Labelled(name, words) == [Plain("button", name) EXCEPT !.score = words[1], !.rejected = words[2]]

Asking(what, name, meaning, required) ==
  [Plain(what, name) EXCEPT !.meaning = meaning, !.required = required]

OneOfGroup(name, meaning, required, checked) ==
  [Asking("radio", name, meaning, required) EXCEPT !.checked = checked]

Control ==
  {Plain("refused", NoName), Plain("inert", NoName)}
  \union {Plain(what, name) : what \in {"hidden", "select", "textarea"}, name \in Name}
  \union {Labelled(name, words) : name \in Name \union {NoName}, words \in ButtonWords}
  \union {Asking("text", name, meaning, required) :
            name \in Name, meaning \in {"known", "unknown"}, required \in BOOLEAN}
  \union {Asking("checkbox", name, meaning, required) :
            name \in Name, meaning \in {"terms", "opt-in", "unknown"}, required \in BOOLEAN}
  \union {OneOfGroup(name, meaning, required, checked) :
            name \in Name, meaning \in {"opt-in", "unknown"}, required \in BOOLEAN,
            checked \in BOOLEAN}

NoBest == [form |-> 0, score |-> -32768]

NoCandidate ==
  [open |-> FALSE, blocked |-> FALSE, tainted |-> FALSE, elsewhere |-> FALSE,
   hasSubmit |-> FALSE, controlCount |-> 0, score |-> 1, fields |-> <<>>]

NotSeen == [sound |-> TRUE, controls |-> <<>>]

FormInit ==
  /\ candidate = NoCandidate /\ best = NoBest /\ formCount = 0 /\ result = "scanning"
  /\ seen = NotSeen /\ offers = <<>> /\ tags = 0

----------------------------------------------------------------------------
(* Fields: each remembers which control of the form it came from.          *)

findField(k, name) == SelectInSeq(k.fields, LAMBDA field : field.name = name)

addField(k, name, replace) ==
  LET existing == findField(k, name)
      from     == Len(seen.controls) + 1
  IN  IF replace /\ existing > 0 THEN [k EXCEPT !.fields[existing].from = from]
      ELSE IF Len(k.fields) >= MaxControls THEN [k EXCEPT !.blocked = TRUE]
      ELSE [k EXCEPT !.fields = Append(@, [name |-> name, from |-> from])]

\* MUTANT: a form with one control too many is only cut short.
RecordSilently(k) ==
  IF k.controlCount >= MaxControls THEN k ELSE [k EXCEPT !.controlCount = @ + 1]

recordControl(k) ==
  IF k.controlCount >= MaxControls THEN [k EXCEPT !.blocked = TRUE]
  ELSE [k EXCEPT !.controlCount = @ + 1]

Button(k, c) ==
  LET m == [k EXCEPT !.hasSubmit = TRUE, !.score = @ + c.score, !.blocked = @ \/ c.rejected]
  IN  IF c.score >= 0 /\ c.name # NoName THEN addField(m, c.name, FALSE) ELSE m

Checkbox(k, c) ==
  IF c.meaning = "terms" THEN [addField(k, c.name, FALSE) EXCEPT !.score = @ + 5]
  ELSE [k EXCEPT !.blocked = @ \/ c.required]

\* MUTANT: a checked radio button is one more field.
RadioTwice(k, c) ==
  IF c.meaning = "opt-in" THEN [k EXCEPT !.blocked = @ \/ c.required]
  ELSE IF c.checked \/ findField(k, c.name) = 0 THEN addField(k, c.name, FALSE)
  ELSE k

\* A group has one field: its first button's until one is checked.
Radio(k, c) ==
  IF c.meaning = "opt-in" THEN [k EXCEPT !.blocked = @ \/ c.required]
  ELSE IF c.checked \/ findField(k, c.name) = 0 THEN addField(k, c.name, c.checked)
  ELSE k

\* mappedValue has a value for a known meaning, and one for any required text.
TextField(k, c) ==
  IF c.meaning = "known" \/ c.required
  THEN [addField(k, c.name, FALSE) EXCEPT !.score = @ + 3] ELSE k

\* The controls recordControl has counted; hidden, select with an option, required textarea.
Taken(k, c) ==
  CASE c.what = "refused"  -> [k EXCEPT !.blocked = TRUE]
    [] c.what = "inert"    -> k
    [] c.what = "button"   -> Button(k, c)
    [] c.what = "checkbox" -> Checkbox(k, c)
    [] c.what = "radio"    -> Radio(k, c)
    [] c.what = "text"     -> TextField(k, c)
    [] OTHER               -> addField(k, c.name, FALSE)

----------------------------------------------------------------------------
(* What a page should lead to, from the page itself                        *)

Opts(c) == c.what \in {"checkbox", "radio"} /\ c.meaning = "opt-in"

\* A control the code lets no form hold.  A required radio group of unknown meaning is not
\* one of them, although unknown required choices are to fail closed (README.md 498-499):
\* Radio answers it with its first button, or the checked one.
Forbidden(c) ==
  \/ c.what = "refused" \/ c.rejected
  \/ c.required /\ (Opts(c) \/ (c.what = "checkbox" /\ c.meaning = "unknown"))

\* A control that gives the form something to send.
Offers(c) ==
  CASE c.what = "checkbox" -> c.meaning = "terms"
    [] c.what = "radio"    -> ~Opts(c)
    [] c.what = "text"     -> c.meaning = "known" \/ c.required
    [] OTHER               -> c.what \in {"button", "hidden", "select", "textarea"}

Worth(c) ==
  CASE c.what = "checkbox" /\ Offers(c) -> 5
    [] c.what = "text" /\ Offers(c)     -> 3
    [] OTHER                            -> c.score

Offer ==
  LET all == ToSet(seen.controls)
  IN  [allowed |-> /\ seen.sound /\ Len(seen.controls) <= MaxControls
                   /\ \A c \in all : ~Forbidden(c)
                   /\ \E c \in all : Offers(c),
       score |-> FoldLeft(LAMBDA sum, c : sum + Worth(c), 1, seen.controls)]

----------------------------------------------------------------------------
(* The page                                                                *)

finalizeCandidate ==
  /\ best' = IF /\ candidate.open /\ ~candidate.blocked /\ ~candidate.tainted
                /\ ~candidate.elsewhere
                /\ (candidate.fields # <<>> \/ candidate.hasSubmit)
                /\ candidate.score > best.score
             THEN [form |-> formCount, score |-> candidate.score] ELSE best
  /\ offers' = IF candidate.open THEN Append(offers, Offer) ELSE offers

\* blocked: an unknown method or encoding, or an attribute that is too long;
\* elsewhere: the action is no address, or one of another origin.
FormOpens(blocked, elsewhere) ==
  /\ IF candidate.open THEN finalizeCandidate ELSE UNCHANGED <<best, offers>>
  /\ formCount' = formCount + 1
  /\ result' = IF formCount' > MaxForms THEN "none" ELSE result
  /\ candidate' = [NoCandidate EXCEPT !.open = TRUE, !.blocked = blocked,
                                      !.elsewhere = elsewhere]
  /\ seen' = [NotSeen EXCEPT !.sound = ~blocked /\ ~elsewhere]
  /\ UNCHANGED tags

FormCloses ==
  /\ finalizeCandidate
  /\ candidate' = NoCandidate /\ seen' = NotSeen
  /\ UNCHANGED <<formCount, result, tags>>

ControlShown(c) ==
  /\ candidate.open /\ tags < MaxTags
  /\ candidate' = Taken(recordControl(candidate), c)
  /\ seen' = [seen EXCEPT !.controls = Append(@, c)]
  /\ tags' = tags + 1
  /\ UNCHANGED <<best, formCount, result, offers>>

\* A blocked meaning anywhere between the tags of the form.
BlockedText ==
  /\ candidate.open
  /\ candidate' = [candidate EXCEPT !.tainted = TRUE]
  /\ seen' = [seen EXCEPT !.sound = FALSE]
  /\ UNCHANGED <<best, formCount, result, offers, tags>>

PageEnds ==
  /\ IF candidate.open THEN finalizeCandidate ELSE UNCHANGED <<best, offers>>
  /\ candidate' = NoCandidate /\ seen' = NotSeen
  /\ result' = IF best'.score > NoBest.score THEN "found" ELSE "none"
  /\ UNCHANGED <<formCount, tags>>

\* A tag, a select or a button without its end.
PageBreaks ==
  /\ result' = "none"
  /\ UNCHANGED <<candidate, best, formCount, seen, offers, tags>>

NextPage ==
  /\ result # "scanning"
  /\ candidate' = NoCandidate /\ best' = NoBest /\ formCount' = 0 /\ result' = "scanning"
  /\ seen' = NotSeen /\ offers' = <<>> /\ tags' = 0

FormNext ==
  \/ /\ result = "scanning"
     /\ \/ \E blocked, elsewhere \in BOOLEAN : FormOpens(blocked, elsewhere)
        \/ FormCloses
        \/ \E c \in Control : ControlShown(c)
        \/ BlockedText
        \/ PageEnds
        \/ PageBreaks
  \/ NextPage

----------------------------------------------------------------------------
(* Properties                                                              *)

\* The submission is the first of the best forms a clock may submit: on this portal, with
\* something to send, without a credential, a payment, a rejected button, a required opt-in
\* or a required box of unknown meaning (README.md 488-499), and within the limits.  It may
\* hold a required radio group of unknown meaning, which README.md 498-499 forbids.
SubmissionIsBestAllowed ==
  LET allowed == {i \in DOMAIN offers : offers[i].allowed}
      beats(i, j) == offers[i].score > offers[j].score
                     \/ (offers[i].score = offers[j].score /\ i <= j)
  IN  /\ allowed = {} => best = NoBest
      /\ \A i \in allowed :
           (\A j \in allowed : beats(i, j)) => best = [form |-> i, score |-> offers[i].score]
      /\ result = "found" => allowed # {}
      /\ Len(candidate.fields) <= MaxControls

\* What the open form would send: no opt-in, no box that is not about terms, no button
\* that says no; of a group of radio buttons one, the last checked if any is.
FieldsAreChosenWithCare ==
  LET control(field) == seen.controls[field.from]
      radios == {i \in DOMAIN candidate.fields : control(candidate.fields[i]).what = "radio"}
  IN  /\ \A field \in ToSet(candidate.fields) :
           /\ Offers(control(field)) /\ control(field).score >= 0
           /\ field.name = control(field).name
      /\ \A i \in radios :
           LET field == candidate.fields[i]
               group == {j \in DOMAIN seen.controls :
                           /\ seen.controls[j].what = "radio" /\ ~Opts(seen.controls[j])
                           /\ seen.controls[j].name = field.name}
           IN  /\ \A j \in group : j > field.from => ~seen.controls[j].checked
               /\ ~control(field).checked => \A j \in group : ~seen.controls[j].checked
               /\ \A j \in radios : candidate.fields[j].name = field.name => i = j

=============================================================================
