----------------------------- MODULE Transform -----------------------------
(* src/src/transform.rs and its use in ProxyService::handle: the ordered     *)
(* rewrite rules are applied to a response in two passes. apply_until_body   *)
(* works on the headers alone and stops at the first rule that needs the     *)
(* body; only then is the body collected, and apply_with_body goes on from   *)
(* that rule.                                                                *)
(*                                                                           *)
(* A text (a header value, a decoded body, a length in decimal) is an        *)
(* element of Texts, and a replacement rewrites one whole text. A matcher is  *)
(* the set of what it matches: for a URL glob, whether it matches the URL of  *)
(* the request at hand; for a content-type glob, the media types.             *)
EXTENDS Naturals, Sequences

CONSTANTS Texts,
          Unprintable,     \* texts that HeaderValue::from_str refuses
          Binary,          \* bytes that are no text
          Lossy,           \* what String::from_utf8_lossy makes of Binary
          LengthOf,        \* the length of a body, as content-length spells it
          Rules,           \* rules a config can hold
          Responses,       \* what the backend can answer
          MaxRules         \* bound: number of rules

Names == {"content-type", "content-length", "set-cookie", "other"}
Absent == "absent"
Bodies == Texts \cup {Binary}
HeaderValues == (Texts \ Unprintable) \cup {Binary, Absent}

Matchers == [kind : {"everything"}] \cup [kind : {"url_glob"}, hit : BOOLEAN]
            \cup [kind : {"content_type_glob"}, types : SUBSET Texts]
Targets == {"everything", "body", "all_headers", "header", "cookies"}
TransformRules ==
  [matcher : Matchers, target : Targets,
   name : Names,           \* for the target "header"
   from : Texts, to : Texts, stop : BOOLEAN]

ASSUME TransformAssumption ==
  /\ Binary \notin Texts /\ Absent \notin Texts /\ Absent # Binary
  /\ Lossy \in Texts
  /\ LengthOf \in [Bodies -> Texts \ Unprintable]
  /\ Rules \subseteq TransformRules
  /\ Responses \subseteq [headers : [Names -> HeaderValues], body : Bodies]
  /\ \A r \in Responses :            \* the backend's own content-length is right
       r.headers["content-length"] \in {Absent, LengthOf[r.body]}
  /\ MaxRules \in Nat

VARIABLES transforms,        \* TransformConfig.transforms
          original,          \* the response as the backend sent it
          identity,          \* the request asked for an unencoded response
          phase, index,      \* where the two passes are, see Phases
          headers, body,     \* response_parts.headers, the collected body
          headers_changed    \* PrebufferOutcome.headers_changed

vars == <<transforms, original, identity, phase, index, headers, body, headers_changed>>

(* until_body, with_body  the loop of that name, at rule `index`             *)
(* streamed, buffered     the response was returned; failed: bad gateway     *)
Phases == {"until_body", "with_body", "streamed", "buffered", "failed"}

-----------------------------------------------------------------------------
(* One rule.                                                                 *)

\* TransformRule::matches; the media type is the text of content-type.
Matches(rule, hs) ==
  CASE rule.matcher.kind = "everything" -> TRUE
    [] rule.matcher.kind = "url_glob" -> rule.matcher.hit
    [] rule.matcher.kind = "content_type_glob" -> hs["content-type"] \in rule.matcher.types

RequiresBody(rule) == rule.target \in {"body", "everything"}

\* replace_text.
ReplaceText(rule, t) == IF t = rule.from THEN rule.to ELSE t

\* The selector apply_headers gives to apply_selected_headers.
Selected(rule, hs) ==
  { n \in Names : hs[n] # Absent } \cap
  CASE rule.target \in {"everything", "all_headers"} -> Names
    [] rule.target = "header" -> {rule.name}
    [] rule.target = "cookies" -> {"set-cookie"}
    [] rule.target = "body" -> {}

\* Mutant: the rewritten value is not validated.
HeadersFailDecoding(rule, hs) == \E n \in Selected(rule, hs) : hs[n] = Binary

\* apply_selected_headers: a selected value that is no text, or whose
\* replacement is no header value, is an error.
HeadersFail(rule, hs) ==
  \E n \in Selected(rule, hs) : hs[n] = Binary \/ ReplaceText(rule, hs[n]) \in Unprintable
ApplyHeaders(rule, hs) ==
  [n \in Names |-> IF n \in Selected(rule, hs) THEN ReplaceText(rule, hs[n]) ELSE hs[n]]

\* apply_body: a body without a match keeps its bytes.
ApplyBody(rule, b) ==
  LET text == IF b = Binary THEN Lossy ELSE b
  IN  IF RequiresBody(rule) /\ ReplaceText(rule, text) # text
      THEN ReplaceText(rule, text) ELSE b

\* Mutant: rules with the target "everything" are forgotten.
NeedsPlaintextBodyOnly(rs) ==
  \E i \in DOMAIN rs :
    /\ rs[i].target = "body"
    /\ rs[i].matcher.kind = "url_glob" => rs[i].matcher.hit

\* needs_plaintext_upstream_body, asked before the request is forwarded.
NeedsPlaintextUpstreamBody(rs) ==
  \E i \in DOMAIN rs :
    /\ RequiresBody(rs[i])
    /\ rs[i].matcher.kind = "url_glob" => rs[i].matcher.hit

-----------------------------------------------------------------------------
TypeOK ==
  /\ transforms \in Seq(Rules) /\ Len(transforms) <= MaxRules
  /\ original \in Responses
  /\ identity \in BOOLEAN
  /\ phase \in Phases
  /\ index \in 1..(Len(transforms) + 1)
  /\ headers \in [Names -> HeaderValues]
  /\ body \in Bodies
  /\ headers_changed \in BOOLEAN

\* handle() has stripped the response of its hop-by-hop headers.
Init ==
  /\ transforms \in UNION { [1..n -> Rules] : n \in 0..MaxRules }
  /\ original \in Responses
  /\ identity = NeedsPlaintextUpstreamBody(transforms)
  /\ phase = "until_body"
  /\ index = 1
  /\ headers = original.headers
  /\ body = original.body
  /\ headers_changed = FALSE

Rule == transforms[index]
InRules(p) == phase = p /\ index <= Len(transforms)

Skip ==
  /\ InRules(phase) /\ phase \in {"until_body", "with_body"}
  /\ ~ Matches(Rule, headers)
  /\ index' = index + 1
  /\ UNCHANGED <<transforms, original, identity, phase, headers, body, headers_changed>>

\* apply_headers or apply returned an error: the answer is a bad gateway.
Fail ==
  /\ InRules(phase) /\ phase \in {"until_body", "with_body"}
  /\ Matches(Rule, headers)
  /\ phase = "until_body" => ~ RequiresBody(Rule)
  /\ HeadersFail(Rule, headers)
  /\ phase' = "failed"
  /\ UNCHANGED <<transforms, original, identity, index, headers, body, headers_changed>>

\* Mutant: the second pass starts behind the rule that needs the body.
BufferFromNext ==
  /\ InRules("until_body")
  /\ Matches(Rule, headers)
  /\ RequiresBody(Rule)
  /\ phase' = "with_body"
  /\ index' = index + 1
  /\ UNCHANGED <<transforms, original, identity, headers, body, headers_changed>>

\* apply_until_body returns BufferFrom(index), and the body is collected.
BufferFrom ==
  /\ InRules("until_body")
  /\ Matches(Rule, headers)
  /\ RequiresBody(Rule)
  /\ phase' = "with_body"
  /\ UNCHANGED <<transforms, original, identity, index, headers, body, headers_changed>>

\* Mutant: the backend's content-length is kept.
StreamKeepsLength(hs, changed) ==
  /\ phase' = "streamed"
  /\ headers' = hs
  /\ headers_changed' = changed

\* handle() streams the response; rewritten headers lose their content-length.
Stream(hs, changed) ==
  /\ phase' = "streamed"
  /\ headers' = IF changed THEN [hs EXCEPT !["content-length"] = Absent] ELSE hs
  /\ headers_changed' = changed

\* apply_until_body applies a rule to the headers; a triggered stop rule, or
\* the last rule, ends it.
ApplyUntilBody ==
  /\ InRules("until_body")
  /\ Matches(Rule, headers)
  /\ ~ RequiresBody(Rule) /\ ~ HeadersFail(Rule, headers)
  /\ LET hs == ApplyHeaders(Rule, headers)
         triggered == hs # headers
     IN  IF triggered /\ Rule.stop
         THEN Stream(hs, TRUE) /\ UNCHANGED index
         ELSE /\ headers' = hs
              /\ headers_changed' = (headers_changed \/ triggered)
              /\ index' = index + 1
              /\ UNCHANGED phase
  /\ UNCHANGED <<transforms, original, identity, body>>

EndUntilBody ==
  /\ phase = "until_body"
  /\ index > Len(transforms)
  /\ Stream(headers, headers_changed)
  /\ UNCHANGED <<transforms, original, identity, index, body>>

\* handle() returns the rewritten body with a content-length of its own.
Respond(hs, b) ==
  /\ phase' = "buffered"
  /\ headers' = [hs EXCEPT !["content-length"] = LengthOf[b]]
  /\ body' = b

\* apply_with_body applies a rule to headers and body.
ApplyWithBody ==
  /\ InRules("with_body")
  /\ Matches(Rule, headers)
  /\ ~ HeadersFail(Rule, headers)
  /\ LET hs == ApplyHeaders(Rule, headers)
         b == ApplyBody(Rule, body)
     IN  IF (hs # headers \/ b # body) /\ Rule.stop
         THEN Respond(hs, b) /\ UNCHANGED index
         ELSE /\ headers' = hs
              /\ body' = b
              /\ index' = index + 1
              /\ UNCHANGED phase
  /\ UNCHANGED <<transforms, original, identity, headers_changed>>

EndWithBody ==
  /\ phase = "with_body"
  /\ index > Len(transforms)
  /\ Respond(headers, body)
  /\ UNCHANGED <<transforms, original, identity, index, headers_changed>>

Next ==
  \/ Skip \/ Fail \/ BufferFrom \/ ApplyUntilBody \/ EndUntilBody
  \/ ApplyWithBody \/ EndWithBody

Spec == Init /\ [][Next]_vars

-----------------------------------------------------------------------------
(* The reference: one pass over all the rules, with the body at hand from    *)
(* the start. OnePass[i] is the response after the first i rules.            *)
OnePassStep(r, s) ==
  LET hs == ApplyHeaders(r, s.headers)
      b == ApplyBody(r, s.body)
  IN  IF s.stopped \/ s.failed \/ ~ Matches(r, s.headers) THEN s
      ELSE IF HeadersFail(r, s.headers) THEN [s EXCEPT !.failed = TRUE]
      ELSE [headers |-> hs, body |-> b, failed |-> FALSE,
            stopped |-> r.stop /\ (hs # s.headers \/ b # s.body)]

OnePass[i \in 0..Len(transforms)] ==
  IF i = 0
  THEN [headers |-> original.headers, body |-> original.body,
        failed |-> FALSE, stopped |-> FALSE]
  ELSE OnePassStep(transforms[i], OnePass[i - 1])

(* Buffering late changes nothing: whatever the order of header rules, body   *)
(* rules, stop flags and content-type matchers that look at rewritten         *)
(* headers, the client gets what a single pass over the rules produces        *)
(* (transform.rs: apply_until_body followed by apply_with_body).              *)
TwoPassesAreOne ==
  phase \in {"streamed", "buffered", "failed"} =>
    LET all == OnePass[Len(transforms)] IN
    /\ phase = "failed" <=> all.failed
    /\ phase # "failed" =>
         /\ body = all.body
         /\ \A n \in Names \ {"content-length"} : headers[n] = all.headers[n]

(* A content-length the client sees is the length of the body it gets, also   *)
(* if a rule rewrote that very header or the body (proxy.rs: the header is    *)
(* removed when headers changed, and set anew for a buffered body).           *)
ContentLengthHonest ==
  phase \in {"streamed", "buffered"} =>
    headers["content-length"] \in {Absent, LengthOf[body]}

(* A body is handed to the rules only if the request had asked for an         *)
(* unencoded response: the question asked before the request, without the     *)
(* response's headers, covers every answer given after it.                    *)
RewriteSeesPlaintext == phase \in {"with_body", "buffered"} => identity
=============================================================================
