-------------------------- MODULE TransformProofs --------------------------
(* Proofs, for rule lists of any length, of the properties of Transform.      *)
EXTENDS Transform, NatInduction

-----------------------------------------------------------------------------
(* The reference is well defined.                                            *)

Unfolds(f, rs, start, n) ==
  f = [i \in 0..n |-> IF i = 0 THEN start ELSE OnePassStep(rs[i], f[i - 1])]

(* A single pass over any number of rules exists.                             *)
LEMMA PassExists ==
  ASSUME NEW rs, NEW start, NEW n \in Nat
  PROVE  \E f : Unfolds(f, rs, start, n)
<1>. DEFINE S == { m \in Nat : \E f : Unfolds(f, rs, start, m) }
<1>1. 0 \in S
  <2>. DEFINE f == [i \in 0..0 |-> start]
  <2>1. Unfolds(f, rs, start, 0)
    BY DEF Unfolds
  <2>. QED
    BY <2>1
<1>2. ASSUME NEW m \in Nat, m \in S PROVE m + 1 \in S
  <2>1. PICK f : Unfolds(f, rs, start, m)
    BY <1>2
  <2>. DEFINE last == OnePassStep(rs[m + 1], f[m])
              g == [i \in 0..(m + 1) |-> IF i = m + 1 THEN last ELSE f[i]]
  <2>2. ASSUME NEW i \in 0..(m + 1)
        PROVE  g[i] = IF i = 0 THEN start ELSE OnePassStep(rs[i], g[i - 1])
    <3>1. CASE i = m + 1
      <4>1. g[i] = last /\ g[i - 1] = f[m] /\ i # 0
        BY <3>1
      <4>. QED
        BY <3>1, <4>1
    <3>2. CASE i = 0
      BY <2>1, <3>2 DEF Unfolds
    <3>3. CASE i \in 1..m
      <4>1. g[i] = f[i] /\ g[i - 1] = f[i - 1] /\ i \in 0..m /\ i # 0
        BY <3>3
      <4>2. f[i] = OnePassStep(rs[i], f[i - 1])
        BY <2>1, <4>1 DEF Unfolds
      <4>. QED
        BY <4>1, <4>2
    <3>. QED
      BY <3>1, <3>2, <3>3
  <2>3. g = [i \in 0..(m + 1) |-> g[i]]
    OBVIOUS
  <2>. HIDE DEF g
  <2>4. Unfolds(g, rs, start, m + 1)
    BY <2>2, <2>3 DEF Unfolds
  <2>. QED
    BY <2>4
<1>. HIDE DEF S
<1>3. n \in S
  BY <1>1, <1>2, SetInduction
<1>. QED
  BY <1>3 DEF S

Start == [headers |-> original.headers, body |-> original.body,
          failed |-> FALSE, stopped |-> FALSE]

(* OnePass meets its equation.                                                *)
LEMMA OnePassUnfolds ==
  ASSUME Len(transforms) \in Nat
  PROVE  /\ OnePass[0] = Start
         /\ \A i \in 1..Len(transforms) :
              OnePass[i] = OnePassStep(transforms[i], OnePass[i - 1])
<1>1. \E f : Unfolds(f, transforms, Start, Len(transforms))
  BY PassExists
<1>2. Unfolds(OnePass, transforms, Start, Len(transforms))
  BY <1>1 DEF OnePass, Unfolds, Start
<1>. QED
  BY <1>2 DEF Unfolds

(* After a triggered stop rule or an error, the rest of the rules change      *)
(* nothing.                                                                   *)
LEMMA Frozen ==
  ASSUME Len(transforms) \in Nat, NEW i \in 0..Len(transforms),
         OnePass[i].stopped \/ OnePass[i].failed
  PROVE  OnePass[Len(transforms)] = OnePass[i]
<1>. DEFINE S == { n \in Nat : i + n <= Len(transforms) => OnePass[i + n] = OnePass[i] }
<1>1. 0 \in S
  OBVIOUS
<1>2. ASSUME NEW n \in Nat, n \in S PROVE n + 1 \in S
  <2>. SUFFICES ASSUME i + (n + 1) <= Len(transforms)
                PROVE  OnePass[i + (n + 1)] = OnePass[i]
    OBVIOUS
  <2>1. OnePass[i + n] = OnePass[i]
    BY <1>2
  <2>2. /\ i + (n + 1) \in 1..Len(transforms)
        /\ (i + (n + 1)) - 1 = i + n
    OBVIOUS
  <2>3. OnePass[i + (n + 1)] = OnePassStep(transforms[i + (n + 1)], OnePass[i + n])
    BY <2>2, OnePassUnfolds
  <2>. QED
    BY <2>1, <2>3 DEF OnePassStep
<1>. HIDE DEF S
<1>3. Len(transforms) - i \in Nat /\ Len(transforms) - i \in S
  <2>1. Len(transforms) - i \in Nat
    OBVIOUS
  <2>. QED
    BY <1>1, <1>2, <2>1, SetInduction
<1>4. i + (Len(transforms) - i) = Len(transforms)
  OBVIOUS
<1>. QED
  BY <1>3, <1>4 DEF S

-----------------------------------------------------------------------------
(* One rule keeps the types.                                                 *)

(* replace_text makes a text of a text.                                       *)
LEMMA ReplaceTyped ==
  ASSUME NEW r \in TransformRules, NEW t \in Texts
  PROVE  ReplaceText(r, t) \in Texts
BY DEF ReplaceText, TransformRules

(* apply_selected_headers, unless it fails, makes header values of header      *)
(* values.                                                                    *)
LEMMA ApplyHeadersTyped ==
  ASSUME NEW r \in TransformRules, NEW hs \in [Names -> HeaderValues], ~ HeadersFail(r, hs)
  PROVE  ApplyHeaders(r, hs) \in [Names -> HeaderValues]
<1>1. ASSUME NEW n \in Selected(r, hs) PROVE ReplaceText(r, hs[n]) \in HeaderValues
  <2>1. n \in Names /\ hs[n] # Absent
    BY DEF Selected
  <2>2. hs[n] # Binary /\ ReplaceText(r, hs[n]) \notin Unprintable
    BY DEF HeadersFail
  <2>3. hs[n] \in Texts
    BY <2>1, <2>2 DEF HeaderValues
  <2>. QED
    BY <2>2, <2>3, ReplaceTyped DEF HeaderValues
<1>. QED
  BY <1>1 DEF ApplyHeaders

(* apply_body makes a body of a body, and leaves it alone for a rule that does *)
(* not ask for it.                                                            *)
LEMMA ApplyBodyTyped ==
  ASSUME NEW r \in TransformRules, NEW b \in Bodies
  PROVE  /\ ApplyBody(r, b) \in Bodies
         /\ ~ RequiresBody(r) => ApplyBody(r, b) = b
<1>1. (IF b = Binary THEN Lossy ELSE b) \in Texts
  BY TransformAssumption DEF Bodies
<1>. QED
  BY <1>1, ReplaceTyped DEF ApplyBody, Bodies

-----------------------------------------------------------------------------
(* The inductive invariant.                                                  *)

\* While the passes run, the response is what the single pass has made of it ...
InStep ==
  phase \in {"until_body", "with_body"} =>
    OnePass[index - 1] = [headers |-> headers, body |-> body,
                          failed |-> FALSE, stopped |-> FALSE]

\* ... and the first pass knows whether it has touched the headers.
FirstPass ==
  phase = "until_body" =>
    /\ body = original.body
    /\ ~ headers_changed => headers = original.headers

AskedFirst == identity = NeedsPlaintextUpstreamBody(transforms)

TransformInv ==
  /\ TypeOK
  /\ InStep
  /\ FirstPass
  /\ AskedFirst
  /\ TwoPassesAreOne
  /\ ContentLengthHonest
  /\ RewriteSeesPlaintext

(* The response arrives, with its own content-length.                         *)
LEMMA InitTransformInv == Init => TransformInv
<1>. SUFFICES ASSUME Init PROVE TransformInv
  OBVIOUS
<1>1. /\ transforms \in Seq(Rules) /\ Len(transforms) \in Nat /\ Len(transforms) <= MaxRules
  <2>1. PICK n \in 0..MaxRules : transforms \in [1..n -> Rules]
    BY TransformAssumption DEF Init
  <2>. QED
    BY <2>1, TransformAssumption
<1>2. TypeOK
  <2>1. original \in Responses /\ headers \in [Names -> HeaderValues] /\ body \in Bodies
    BY TransformAssumption DEF Init
  <2>2. identity \in BOOLEAN
    BY DEF Init, NeedsPlaintextUpstreamBody
  <2>3. phase = "until_body" /\ index = 1 /\ headers_changed = FALSE
    BY DEF Init
  <2>4. phase \in Phases /\ index \in 1..(Len(transforms) + 1)
    BY <1>1, <2>3 DEF Phases
  <2>. QED
    BY <1>1, <2>1, <2>2, <2>3, <2>4 DEF TypeOK
<1>3. InStep
  <2>1. index - 1 = 0
    BY DEF Init
  <2>. QED
    BY <1>1, <2>1, OnePassUnfolds DEF Init, InStep, Start
<1>. QED
  BY <1>2, <1>3 DEF Init, TransformInv, FirstPass, AskedFirst, TwoPassesAreOne,
                    ContentLengthHonest, RewriteSeesPlaintext

-----------------------------------------------------------------------------
(* One lemma per step. The rules and the backend's response stay.            *)

Fixed == UNCHANGED <<transforms, original, identity>>

(* Then the reference stays too.                                              *)
LEMMA OnePassFixed == ASSUME Fixed PROVE OnePass' = OnePass
<1>1. transforms' = transforms /\ original' = original
  BY DEF Fixed
<1>. QED
  BY <1>1 DEF OnePass

(* What the single pass makes of the rule the loops are at.                   *)
LEMMA AtRule ==
  ASSUME TransformInv, phase \in {"until_body", "with_body"}, index <= Len(transforms)
  PROVE  /\ Len(transforms) \in Nat /\ index \in 1..Len(transforms)
         /\ Rule \in TransformRules
         /\ ~ Matches(Rule, headers) =>
              OnePass[index] = [headers |-> headers, body |-> body,
                                failed |-> FALSE, stopped |-> FALSE]
         /\ Matches(Rule, headers) /\ HeadersFail(Rule, headers) =>
              OnePass[index].failed
         /\ Matches(Rule, headers) /\ ~ HeadersFail(Rule, headers) =>
              LET hs == ApplyHeaders(Rule, headers)
                  b == ApplyBody(Rule, body)
              IN  OnePass[index] = [headers |-> hs, body |-> b, failed |-> FALSE,
                                    stopped |-> Rule.stop /\ (hs # headers \/ b # body)]
<1>. DEFINE cur == [headers |-> headers, body |-> body, failed |-> FALSE, stopped |-> FALSE]
<1>1. /\ transforms \in Seq(Rules) /\ Len(transforms) \in Nat
      /\ index \in 1..Len(transforms)
  BY DEF TransformInv, TypeOK
<1>2. Rule \in TransformRules
  BY <1>1, TransformAssumption DEF Rule
<1>3. OnePass[index - 1] = cur
  BY DEF TransformInv, InStep
<1>4. OnePass[index] = OnePassStep(Rule, cur)
  BY <1>1, <1>3, OnePassUnfolds DEF Rule
<1>5. /\ cur.headers = headers /\ cur.body = body
      /\ cur.stopped = FALSE /\ cur.failed = FALSE
  OBVIOUS
<1>6. /\ ~ Matches(Rule, headers) => OnePassStep(Rule, cur) = cur
      /\ Matches(Rule, headers) /\ HeadersFail(Rule, headers) =>
           OnePassStep(Rule, cur) = [cur EXCEPT !.failed = TRUE]
      /\ Matches(Rule, headers) /\ ~ HeadersFail(Rule, headers) =>
           LET hs == ApplyHeaders(Rule, headers)
               b == ApplyBody(Rule, body)
           IN  OnePassStep(Rule, cur) =
                 [headers |-> hs, body |-> b, failed |-> FALSE,
                  stopped |-> Rule.stop /\ (hs # headers \/ b # body)]
  <2>. HIDE DEF cur
  <2>. QED
    BY <1>5, Zenon DEF OnePassStep
<1>7. [cur EXCEPT !.failed = TRUE].failed
  OBVIOUS
<1>. QED
  BY <1>1, <1>2, <1>4, <1>6, <1>7, Zenon

(* A rule that does not match is passed over.                                 *)
LEMMA SkipInv == ASSUME TransformInv, Skip PROVE TransformInv'
<1>1. /\ phase \in {"until_body", "with_body"} /\ index <= Len(transforms)
      /\ ~ Matches(Rule, headers) /\ index' = index + 1
      /\ UNCHANGED <<transforms, original, identity, phase, headers, body, headers_changed>>
  BY DEF Skip, InRules
<1>2. /\ index \in 1..Len(transforms) /\ Len(transforms) \in Nat
      /\ OnePass[index] = [headers |-> headers, body |-> body,
                           failed |-> FALSE, stopped |-> FALSE]
  BY <1>1, AtRule
<1>3. OnePass' = OnePass
  BY <1>1, OnePassFixed DEF Fixed
<1>4. TypeOK'
  BY <1>1, <1>2 DEF TransformInv, TypeOK
<1>5. InStep'
  <2>1. index' - 1 = index
    BY <1>1, <1>2
  <2>. QED
    BY <1>1, <1>2, <1>3, <2>1 DEF InStep
<1>6. FirstPass' /\ AskedFirst'
  BY <1>1 DEF TransformInv, FirstPass, AskedFirst, NeedsPlaintextUpstreamBody
<1>7. TwoPassesAreOne' /\ ContentLengthHonest' /\ RewriteSeesPlaintext'
  BY <1>1 DEF TransformInv, TwoPassesAreOne, ContentLengthHonest, RewriteSeesPlaintext
<1>. QED
  BY <1>4, <1>5, <1>6, <1>7 DEF TransformInv

(* apply_headers is an error in either pass, and in the single one.           *)
LEMMA FailInv == ASSUME TransformInv, Fail PROVE TransformInv'
<1>1. /\ phase \in {"until_body", "with_body"} /\ index <= Len(transforms)
      /\ Matches(Rule, headers) /\ HeadersFail(Rule, headers) /\ phase' = "failed"
      /\ UNCHANGED <<transforms, original, identity, index, headers, body, headers_changed>>
  BY DEF Fail, InRules
<1>2. /\ index \in 1..Len(transforms) /\ Len(transforms) \in Nat
      /\ OnePass[index].failed
  BY <1>1, AtRule
<1>3. OnePass[Len(transforms)].failed
  BY <1>2, Frozen
<1>4. OnePass' = OnePass
  BY <1>1, OnePassFixed DEF Fixed
<1>5. TypeOK'
  BY <1>1 DEF TransformInv, TypeOK, Phases
<1>6. TwoPassesAreOne'
  BY <1>1, <1>3, <1>4 DEF TwoPassesAreOne
<1>7. AskedFirst'
  BY <1>1 DEF TransformInv, AskedFirst, NeedsPlaintextUpstreamBody
<1>8. InStep' /\ FirstPass' /\ ContentLengthHonest' /\ RewriteSeesPlaintext'
  BY <1>1 DEF InStep, FirstPass, ContentLengthHonest, RewriteSeesPlaintext
<1>. QED
  BY <1>5, <1>6, <1>7, <1>8 DEF TransformInv

(* A rule that matches the response and asks for its body was counted before   *)
(* the request was sent.                                                      *)
LEMMA Foreseen ==
  ASSUME NEW rs, NEW i \in DOMAIN rs, rs[i] \in TransformRules, NEW hs,
         Matches(rs[i], hs), RequiresBody(rs[i])
  PROVE  NeedsPlaintextUpstreamBody(rs)
<1>1. rs[i].matcher.kind = "url_glob" => rs[i].matcher.hit
  BY DEF Matches
<1>. QED
  BY <1>1 DEF NeedsPlaintextUpstreamBody

(* The body is collected; the loop goes on at the same rule.                  *)
LEMMA BufferFromInv == ASSUME TransformInv, BufferFrom PROVE TransformInv'
<1>1. /\ phase = "until_body" /\ index <= Len(transforms)
      /\ Matches(Rule, headers) /\ RequiresBody(Rule) /\ phase' = "with_body"
      /\ UNCHANGED <<transforms, original, identity, index, headers, body, headers_changed>>
  BY DEF BufferFrom, InRules
<1>2. index \in 1..Len(transforms) /\ Rule \in TransformRules
  BY <1>1, AtRule
<1>3. identity
  <2>1. index \in DOMAIN transforms
    BY <1>2 DEF TransformInv, TypeOK
  <2>2. NeedsPlaintextUpstreamBody(transforms)
    BY <1>1, <1>2, <2>1, Foreseen DEF Rule
  <2>. QED
    BY <2>2, Zenon DEF TransformInv, AskedFirst
<1>4. OnePass' = OnePass
  BY <1>1, OnePassFixed DEF Fixed
<1>5. TypeOK'
  BY <1>1 DEF TransformInv, TypeOK, Phases
<1>6. InStep'
  BY <1>1, <1>4 DEF TransformInv, InStep
<1>7. AskedFirst'
  BY <1>1 DEF TransformInv, AskedFirst, NeedsPlaintextUpstreamBody
<1>8. RewriteSeesPlaintext'
  BY <1>1, <1>3 DEF RewriteSeesPlaintext
<1>9. FirstPass' /\ ContentLengthHonest' /\ TwoPassesAreOne'
  BY <1>1 DEF FirstPass, ContentLengthHonest, TwoPassesAreOne
<1>. QED
  BY <1>5, <1>6, <1>7, <1>8, <1>9 DEF TransformInv

(* handle() streams a response whose headers are what the single pass makes of *)
(* all the rules: without its content-length if a header was rewritten.       *)
LEMMA StreamInv ==
  ASSUME TransformInv, phase = "until_body", NEW hs \in [Names -> HeaderValues],
         NEW changed \in BOOLEAN, ~ changed => hs = original.headers,
         OnePass[Len(transforms)].headers = hs, OnePass[Len(transforms)].body = body,
         OnePass[Len(transforms)].failed = FALSE,
         Stream(hs, changed), UNCHANGED <<transforms, original, identity, index, body>>
  PROVE  TransformInv'
<1>1. /\ phase' = "streamed" /\ headers_changed' = changed
      /\ headers' = IF changed THEN [hs EXCEPT !["content-length"] = Absent] ELSE hs
  BY DEF Stream
<1>2. OnePass' = OnePass
  BY OnePassFixed DEF Fixed
<1>3. /\ headers' \in [Names -> HeaderValues]
      /\ \A n \in Names \ {"content-length"} : headers'[n] = hs[n]
      /\ changed => headers'["content-length"] = Absent
      /\ ~ changed => headers' = original.headers
  BY <1>1 DEF HeaderValues, Names
<1>4. TypeOK'
  BY <1>1, <1>3 DEF TransformInv, TypeOK, Phases
<1>5. TwoPassesAreOne'
  BY <1>1, <1>2, <1>3 DEF TwoPassesAreOne
<1>6. ContentLengthHonest'
  <2>1. original \in Responses /\ body = original.body
    BY DEF TransformInv, TypeOK, FirstPass
  <2>2. original.headers["content-length"] \in {Absent, LengthOf[body]}
    BY <2>1, TransformAssumption
  <2>. QED
    BY <1>1, <1>3, <2>2 DEF ContentLengthHonest
<1>7. AskedFirst'
  BY DEF TransformInv, AskedFirst, NeedsPlaintextUpstreamBody
<1>8. InStep' /\ FirstPass' /\ RewriteSeesPlaintext'
  BY <1>1 DEF InStep, FirstPass, RewriteSeesPlaintext
<1>. QED
  BY <1>4, <1>5, <1>6, <1>7, <1>8 DEF TransformInv

(* apply_until_body applies a rule to the headers; if that triggers a stop      *)
(* rule, the rest of the rules is frozen in the single pass too.              *)
LEMMA ApplyUntilBodyInv == ASSUME TransformInv, ApplyUntilBody PROVE TransformInv'
<1>. DEFINE hs == ApplyHeaders(Rule, headers)
<1>1. /\ phase = "until_body" /\ index <= Len(transforms)
      /\ Matches(Rule, headers) /\ ~ RequiresBody(Rule) /\ ~ HeadersFail(Rule, headers)
      /\ UNCHANGED <<transforms, original, identity, body>>
  BY DEF ApplyUntilBody, InRules
<1>2. /\ headers \in [Names -> HeaderValues] /\ body \in Bodies
      /\ headers_changed \in BOOLEAN
      /\ ~ headers_changed => headers = original.headers
  BY <1>1 DEF TransformInv, TypeOK, FirstPass
<1>3. /\ Len(transforms) \in Nat /\ index \in 1..Len(transforms)
      /\ Rule \in TransformRules
  BY <1>1, AtRule
<1>4. ApplyBody(Rule, body) = body /\ hs \in [Names -> HeaderValues]
  BY <1>1, <1>2, <1>3, ApplyBodyTyped, ApplyHeadersTyped
<1>5. OnePass[index] = [headers |-> hs, body |-> body, failed |-> FALSE,
                        stopped |-> Rule.stop /\ (hs # headers \/ body # body)]
  BY <1>1, <1>4, AtRule
<1>6. \/ hs # headers /\ Rule.stop /\ Stream(hs, TRUE) /\ UNCHANGED index
      \/ /\ ~ (hs # headers /\ Rule.stop)
         /\ headers' = hs /\ headers_changed' = (headers_changed \/ hs # headers)
         /\ index' = index + 1 /\ UNCHANGED phase
  BY DEF ApplyUntilBody
<1>. HIDE DEF hs
<1>7. CASE hs # headers /\ Rule.stop /\ Stream(hs, TRUE) /\ UNCHANGED index
  <2>1. /\ OnePass[index].stopped /\ OnePass[index].headers = hs
        /\ OnePass[index].body = body /\ OnePass[index].failed = FALSE
    <3>1. (Rule.stop /\ (hs # headers \/ body # body)) = TRUE
      BY <1>7
    <3>2. OnePass[index] = [headers |-> hs, body |-> body, failed |-> FALSE, stopped |-> TRUE]
      BY <1>5, <3>1, Zenon
    <3>. QED
      BY <3>2
  <2>2. OnePass[Len(transforms)] = OnePass[index]
    BY <1>3, <2>1, Frozen
  <2>. QED
    BY <1>1, <1>4, <1>7, <2>1, <2>2, StreamInv
<1>8. CASE /\ ~ (hs # headers /\ Rule.stop)
           /\ headers' = hs /\ headers_changed' = (headers_changed \/ hs # headers)
           /\ index' = index + 1 /\ UNCHANGED phase
  <2>1. OnePass[index] = [headers |-> hs, body |-> body, failed |-> FALSE, stopped |-> FALSE]
    <3>1. (Rule.stop /\ (hs # headers \/ body # body)) = FALSE
      BY <1>8
    <3>. QED
      BY <1>5, <3>1
  <2>2. OnePass' = OnePass
    BY <1>1, OnePassFixed DEF Fixed
  <2>3. headers_changed' \in BOOLEAN
    BY <1>8, Zenon
  <2>4. TypeOK'
    BY <1>1, <1>3, <1>4, <1>8, <2>3 DEF TransformInv, TypeOK
  <2>5. InStep'
    <3>1. index' - 1 = index
      BY <1>3, <1>8
    <3>. QED
      BY <1>1, <1>8, <2>1, <2>2, <3>1 DEF InStep
  <2>6. FirstPass'
    <3>1. ~ headers_changed' => ~ headers_changed /\ hs = headers
      BY <1>8, Zenon
    <3>. QED
      BY <1>1, <1>2, <1>8, <3>1 DEF TransformInv, FirstPass
  <2>7. AskedFirst'
    BY <1>1 DEF TransformInv, AskedFirst, NeedsPlaintextUpstreamBody
  <2>8. TwoPassesAreOne' /\ ContentLengthHonest' /\ RewriteSeesPlaintext'
    BY <1>1, <1>8 DEF TwoPassesAreOne, ContentLengthHonest, RewriteSeesPlaintext
  <2>. QED
    BY <2>4, <2>5, <2>6, <2>7, <2>8 DEF TransformInv
<1>. QED
  BY <1>6, <1>7, <1>8

(* Where the loops run out of rules, so does the single pass.                 *)
LEMMA AtEnd ==
  ASSUME TransformInv, phase \in {"until_body", "with_body"}, index > Len(transforms)
  PROVE  OnePass[Len(transforms)] = [headers |-> headers, body |-> body,
                                     failed |-> FALSE, stopped |-> FALSE]
<1>1. index - 1 = Len(transforms)
  <2>1. Len(transforms) \in Nat /\ index \in 1..(Len(transforms) + 1)
    BY DEF TransformInv, TypeOK
  <2>. QED
    BY <2>1
<1>. QED
  BY <1>1 DEF TransformInv, InStep

(* No rule asked for the body: it is streamed.                                *)
LEMMA EndUntilBodyInv == ASSUME TransformInv, EndUntilBody PROVE TransformInv'
<1>1. /\ phase = "until_body" /\ index > Len(transforms)
      /\ Stream(headers, headers_changed)
      /\ UNCHANGED <<transforms, original, identity, index, body>>
  BY DEF EndUntilBody
<1>2. /\ headers \in [Names -> HeaderValues] /\ headers_changed \in BOOLEAN
      /\ ~ headers_changed => headers = original.headers
  BY <1>1 DEF TransformInv, TypeOK, FirstPass
<1>3. /\ OnePass[Len(transforms)].headers = headers /\ OnePass[Len(transforms)].body = body
      /\ OnePass[Len(transforms)].failed = FALSE
  BY <1>1, AtEnd
<1>. QED
  BY <1>1, <1>2, <1>3, StreamInv

(* handle() returns a buffered response with the length of its new body.      *)
LEMMA RespondInv ==
  ASSUME TransformInv, phase = "with_body", NEW hs \in [Names -> HeaderValues],
         NEW b \in Bodies,
         OnePass[Len(transforms)].headers = hs, OnePass[Len(transforms)].body = b,
         OnePass[Len(transforms)].failed = FALSE,
         Respond(hs, b),
         UNCHANGED <<transforms, original, identity, index, headers_changed>>
  PROVE  TransformInv'
<1>1. /\ phase' = "buffered" /\ body' = b
      /\ headers' = [hs EXCEPT !["content-length"] = LengthOf[b]]
  BY DEF Respond
<1>2. OnePass' = OnePass
  BY OnePassFixed DEF Fixed
<1>3. LengthOf[b] \in HeaderValues
  BY TransformAssumption DEF HeaderValues
<1>4. /\ headers' \in [Names -> HeaderValues]
      /\ \A n \in Names \ {"content-length"} : headers'[n] = hs[n]
      /\ headers'["content-length"] = LengthOf[b]
  BY <1>1, <1>3 DEF Names
<1>5. TypeOK'
  BY <1>1, <1>4 DEF TransformInv, TypeOK, Phases
<1>6. TwoPassesAreOne'
  BY <1>1, <1>2, <1>4 DEF TwoPassesAreOne
<1>7. ContentLengthHonest'
  BY <1>1, <1>4 DEF ContentLengthHonest
<1>8. RewriteSeesPlaintext'
  BY <1>1 DEF TransformInv, RewriteSeesPlaintext
<1>9. AskedFirst'
  BY DEF TransformInv, AskedFirst, NeedsPlaintextUpstreamBody
<1>10. InStep' /\ FirstPass'
  BY <1>1 DEF InStep, FirstPass
<1>. QED
  BY <1>5, <1>6, <1>7, <1>8, <1>9, <1>10 DEF TransformInv

(* apply_with_body applies a rule to headers and body.                        *)
LEMMA ApplyWithBodyInv == ASSUME TransformInv, ApplyWithBody PROVE TransformInv'
<1>. DEFINE hs == ApplyHeaders(Rule, headers)
            b == ApplyBody(Rule, body)
<1>1. /\ phase = "with_body" /\ index <= Len(transforms)
      /\ Matches(Rule, headers) /\ ~ HeadersFail(Rule, headers)
      /\ UNCHANGED <<transforms, original, identity, headers_changed>>
  BY DEF ApplyWithBody, InRules
<1>2. headers \in [Names -> HeaderValues] /\ body \in Bodies
  BY DEF TransformInv, TypeOK
<1>3. /\ Len(transforms) \in Nat /\ index \in 1..Len(transforms)
      /\ Rule \in TransformRules
  BY <1>1, AtRule
<1>4. b \in Bodies /\ hs \in [Names -> HeaderValues]
  BY <1>1, <1>2, <1>3, ApplyBodyTyped, ApplyHeadersTyped
<1>5. OnePass[index] = [headers |-> hs, body |-> b, failed |-> FALSE,
                        stopped |-> Rule.stop /\ (hs # headers \/ b # body)]
  BY <1>1, AtRule
<1>6. \/ (hs # headers \/ b # body) /\ Rule.stop /\ Respond(hs, b) /\ UNCHANGED index
      \/ /\ ~ ((hs # headers \/ b # body) /\ Rule.stop)
         /\ headers' = hs /\ body' = b /\ index' = index + 1 /\ UNCHANGED phase
  BY DEF ApplyWithBody
<1>. HIDE DEF hs, b
<1>7. CASE (hs # headers \/ b # body) /\ Rule.stop /\ Respond(hs, b) /\ UNCHANGED index
  <2>1. /\ OnePass[index].stopped /\ OnePass[index].headers = hs
        /\ OnePass[index].body = b /\ OnePass[index].failed = FALSE
    <3>1. (Rule.stop /\ (hs # headers \/ b # body)) = TRUE
      BY <1>7
    <3>2. OnePass[index] = [headers |-> hs, body |-> b, failed |-> FALSE, stopped |-> TRUE]
      BY <1>5, <3>1, Zenon
    <3>. QED
      BY <3>2
  <2>2. OnePass[Len(transforms)] = OnePass[index]
    BY <1>3, <2>1, Frozen
  <2>. QED
    BY <1>1, <1>4, <1>7, <2>1, <2>2, RespondInv
<1>8. CASE /\ ~ ((hs # headers \/ b # body) /\ Rule.stop)
           /\ headers' = hs /\ body' = b /\ index' = index + 1 /\ UNCHANGED phase
  <2>1. OnePass[index] = [headers |-> hs, body |-> b, failed |-> FALSE, stopped |-> FALSE]
    <3>1. (Rule.stop /\ (hs # headers \/ b # body)) = FALSE
      BY <1>8
    <3>. QED
      BY <1>5, <3>1
  <2>2. OnePass' = OnePass
    BY <1>1, OnePassFixed DEF Fixed
  <2>3. TypeOK'
    BY <1>1, <1>3, <1>4, <1>8 DEF TransformInv, TypeOK
  <2>4. InStep'
    <3>1. index' - 1 = index
      BY <1>3, <1>8
    <3>. QED
      BY <1>1, <1>8, <2>1, <2>2, <3>1 DEF InStep
  <2>5. AskedFirst'
    BY <1>1 DEF TransformInv, AskedFirst, NeedsPlaintextUpstreamBody
  <2>6. RewriteSeesPlaintext'
    BY <1>1, <1>8 DEF TransformInv, RewriteSeesPlaintext
  <2>7. TwoPassesAreOne' /\ ContentLengthHonest' /\ FirstPass'
    BY <1>1, <1>8 DEF TwoPassesAreOne, ContentLengthHonest, FirstPass
  <2>. QED
    BY <2>3, <2>4, <2>5, <2>6, <2>7 DEF TransformInv
<1>. QED
  BY <1>6, <1>7, <1>8

(* The rules are done and the body was collected.                             *)
LEMMA EndWithBodyInv == ASSUME TransformInv, EndWithBody PROVE TransformInv'
<1>1. /\ phase = "with_body" /\ index > Len(transforms) /\ Respond(headers, body)
      /\ UNCHANGED <<transforms, original, identity, index, headers_changed>>
  BY DEF EndWithBody
<1>2. headers \in [Names -> HeaderValues] /\ body \in Bodies
  BY DEF TransformInv, TypeOK
<1>3. /\ OnePass[Len(transforms)].headers = headers /\ OnePass[Len(transforms)].body = body
      /\ OnePass[Len(transforms)].failed = FALSE
  BY <1>1, AtEnd
<1>. QED
  BY <1>1, <1>2, <1>3, RespondInv

-----------------------------------------------------------------------------
(* The theorems.                                                             *)

(* The invariant holds for every list of rules and every response.            *)
THEOREM TransformInvariant == Spec => []TransformInv
<1>1. TransformInv /\ Next => TransformInv'
  BY SkipInv, FailInv, BufferFromInv, ApplyUntilBodyInv, EndUntilBodyInv,
     ApplyWithBodyInv, EndWithBodyInv DEF Next
<1>2. TransformInv /\ UNCHANGED vars => TransformInv'
  <2>. SUFFICES ASSUME TransformInv, UNCHANGED vars PROVE TransformInv'
    OBVIOUS
  <2>1. /\ UNCHANGED <<transforms, original, identity, phase, index, headers, body,
                       headers_changed>>
        /\ OnePass' = OnePass
    BY OnePassFixed DEF vars, Fixed
  <2>. QED
    BY <2>1 DEF TransformInv, TypeOK, InStep, FirstPass, AskedFirst, TwoPassesAreOne,
                ContentLengthHonest, RewriteSeesPlaintext, NeedsPlaintextUpstreamBody
<1>. QED
  BY InitTransformInv, <1>1, <1>2, PTL DEF Spec

(* The two loops of transform.rs keep the response well typed: what they put   *)
(* into a header is a header value.                                           *)
THEOREM TransformTypeCorrect == Spec => []TypeOK
<1>1. TransformInv => TypeOK
  BY DEF TransformInv
<1>. QED
  BY <1>1, TransformInvariant, PTL

(* apply_until_body followed by apply_with_body is one pass over the rules,    *)
(* whatever their number and order.                                           *)
THEOREM TwoPassesAreOneHolds == Spec => []TwoPassesAreOne
<1>1. TransformInv => TwoPassesAreOne
  BY DEF TransformInv
<1>. QED
  BY <1>1, TransformInvariant, PTL

(* handle() never sends a content-length that is not the length of the body.   *)
THEOREM ContentLengthHonestHolds == Spec => []ContentLengthHonest
<1>1. TransformInv => ContentLengthHonest
  BY DEF TransformInv
<1>. QED
  BY <1>1, TransformInvariant, PTL

(* needs_plaintext_upstream_body foresees every body that is rewritten.       *)
THEOREM RewriteSeesPlaintextHolds == Spec => []RewriteSeesPlaintext
<1>1. TransformInv => RewriteSeesPlaintext
  BY DEF TransformInv
<1>. QED
  BY <1>1, TransformInvariant, PTL
=============================================================================
