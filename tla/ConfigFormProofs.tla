-------------------------- MODULE ConfigFormProofs --------------------------
(* Proofs, for any words, lists and numbers of rules, that the editor's forms *)
(* stand for what they show.                                                  *)
EXTENDS ConfigForm, NatInduction

-----------------------------------------------------------------------------
(* Lists.                                                                    *)

(* Nothing is filtered out of a list of words.                                *)
LEMMA WordsAreKept ==
  ASSUME NEW s \in Seq(Words) PROVE NotBlank(s) = s
<1>. DEFINE F(f) == f = [n \in 0..Len(s) |->
                           IF n = 0 THEN << >>
                           ELSE IF s[n] = Blank THEN f[n - 1] ELSE Append(f[n - 1], s[n])]
            g == [n \in 0..Len(s) |-> SubSeq(s, 1, n)]
            f == CHOOSE f : F(f)
<1>1. Len(s) \in Nat /\ \A n \in 1..Len(s) : s[n] \in Words /\ s[n] # Blank
  BY FormAssumption
<1>2. F(g)
  <2>1. ASSUME NEW n \in 0..Len(s), n # 0
        PROVE  SubSeq(s, 1, n) = Append(SubSeq(s, 1, n - 1), s[n])
    BY <2>1
  <2>2. SubSeq(s, 1, 0) = << >>
    OBVIOUS
  <2>3. ASSUME NEW n \in 0..Len(s)
        PROVE  g[n] = IF n = 0 THEN << >>
                      ELSE IF s[n] = Blank THEN g[n - 1] ELSE Append(g[n - 1], s[n])
    BY <1>1, <2>1, <2>2
  <2>. QED
    BY <2>3
<1>3. F(f)
  <2>. HIDE DEF F, g
  <2>. QED
    BY <1>2
<1>4. NotBlank(s) = f[Len(s)]
  BY DEF NotBlank
<1>. HIDE DEF f
<1>. DEFINE S == { n \in Nat : n <= Len(s) => f[n] = SubSeq(s, 1, n) }
<1>5. 0 \in S
  BY <1>1, <1>3
<1>6. ASSUME NEW n \in Nat, n \in S PROVE n + 1 \in S
  <2>. SUFFICES ASSUME n + 1 <= Len(s) PROVE f[n + 1] = SubSeq(s, 1, n + 1)
    OBVIOUS
  <2>1. f[n] = SubSeq(s, 1, n)
    BY <1>1, <1>6
  <2>2. f[n + 1] = Append(f[n], s[n + 1])
    BY <1>1, <1>3
  <2>. QED
    BY <1>1, <2>1, <2>2
<1>. HIDE DEF S, F
<1>7. Len(s) \in S
  BY <1>1, <1>5, <1>6, SetInduction
<1>8. f[Len(s)] = SubSeq(s, 1, Len(s))
  BY <1>1, <1>7 DEF S
<1>. QED
  BY <1>4, <1>8
(* An empty list is sent as one empty text, which is filtered out.            *)
LEMMA BlankIsDropped == NotBlank(<<Blank>>) = << >>
<1>. DEFINE s == <<Blank>>
            F(f) == f = [n \in 0..Len(s) |->
                           IF n = 0 THEN << >>
                           ELSE IF s[n] = Blank THEN f[n - 1] ELSE Append(f[n - 1], s[n])]
            g == [n \in 0..Len(s) |-> << >>]
            f == CHOOSE f : F(f)
<1>1. Len(s) = 1 /\ s[1] = Blank
  OBVIOUS
<1>. HIDE DEF s
<1>2. F(g)
  BY <1>1
<1>3. F(f)
  <2>. HIDE DEF F, g
  <2>. QED
    BY <1>2
<1>4. NotBlank(s) = f[Len(s)]
  BY DEF NotBlank
<1>. HIDE DEF f
<1>5. f[0] = << >> /\ f[1] = f[0]
  BY <1>1, <1>3
<1>. QED
  BY <1>1, <1>4, <1>5 DEF s

(* A list of the file is a sequence of words.                                 *)
LEMMA ListsAreSequences ==
  ASSUME NEW S, NEW n \in Nat, NEW s \in BoundedSeq(S, n)
  PROVE  s \in Seq(S) /\ Len(s) <= n
<1>1. PICK m \in 0..n : s \in [1..m -> S]
  BY DEF BoundedSeq, SeqOf
<1>. QED
  BY <1>1

(* And the other way round.                                                   *)
LEMMA SequencesAreLists ==
  ASSUME NEW S, NEW n \in Nat, NEW s \in Seq(S), Len(s) <= n
  PROVE  s \in BoundedSeq(S, n)
<1>1. Len(s) \in 0..n /\ s \in [1..Len(s) -> S]
  OBVIOUS
<1>. QED
  BY <1>1 DEF BoundedSeq, SeqOf

-----------------------------------------------------------------------------
(* The settings form.                                                        *)

(* What a browser posts when nothing was typed, field by field.               *)
LEMMA PageFields ==
  ASSUME NEW s \in RuntimeSettingsFile
  PROVE  LET form == RuntimeConfigPage(s) IN
         /\ {"listen_addr", "sqlite_path", "upstream_sni_override", "flush_rows",
             "http_mode", "header_denylist"} \subseteq DOMAIN form
         /\ form["listen_addr"] = s.listen_addr
         /\ form["sqlite_path"] = s.sqlite_path
         /\ form["upstream_sni_override"] =
              IF s.upstream_sni_override = None THEN Blank ELSE s.upstream_sni_override
         /\ form["flush_rows"] = s.flush_rows
         /\ form["http_mode"] = s.http_mode
         /\ form["header_denylist"] =
              IF s.header_denylist = << >> THEN <<Blank>> ELSE s.header_denylist
         /\ "trust_proxy_headers" \in DOMAIN form <=> s.trust_proxy_headers
<1>1. /\ DOMAIN s = {"listen_addr", "sqlite_path", "upstream_sni_override", "flush_rows",
                     "http_mode", "trust_proxy_headers", "header_denylist"}
      /\ s.trust_proxy_headers \in BOOLEAN
  BY DEF RuntimeSettingsFile
<1>2. /\ s["listen_addr"] = s.listen_addr /\ s["sqlite_path"] = s.sqlite_path
      /\ s["upstream_sni_override"] = s.upstream_sni_override
      /\ s["flush_rows"] = s.flush_rows /\ s["http_mode"] = s.http_mode
      /\ s["header_denylist"] = s.header_denylist
  OBVIOUS
<1>. QED
  BY <1>1, <1>2 DEF RuntimeConfigPage

(* The settings that are shown are the settings that are saved, whatever the  *)
(* form falls back to: runtime_from_form undoes RuntimeConfigPage, also for   *)
(* options that are not set, empty lists and checkboxes that are not sent.    *)
THEOREM SettingsRoundTrip ==
  ASSUME NEW s \in RuntimeSettingsFile, NEW fallback
  PROVE  runtime_from_form(RuntimeConfigPage(s), fallback) = s
<1>. DEFINE form == RuntimeConfigPage(s)
<1>1. /\ s.listen_addr \in Words \cup {Blank} /\ s.sqlite_path \in Words
      /\ s.upstream_sni_override \in Words \cup {None}
      /\ s.flush_rows \in Numbers /\ s.http_mode \in HttpModes
      /\ s.trust_proxy_headers \in BOOLEAN
      /\ s.header_denylist \in BoundedSeq(Words, MaxNames)
      /\ s = [listen_addr |-> s.listen_addr, sqlite_path |-> s.sqlite_path,
              upstream_sni_override |-> s.upstream_sni_override,
              flush_rows |-> s.flush_rows, http_mode |-> s.http_mode,
              trust_proxy_headers |-> s.trust_proxy_headers,
              header_denylist |-> s.header_denylist]
  BY DEF RuntimeSettingsFile
<1>2. Blank \notin Words /\ None \notin Words /\ None # Blank
  BY FormAssumption DEF None, Blank
<1>. HIDE DEF form
<1>3. /\ text_value(form, "listen_addr", fallback.listen_addr) = s.listen_addr
      /\ path_value(form, "sqlite_path", fallback.sqlite_path) = s.sqlite_path
      /\ optional_text_value(form, "upstream_sni_override", fallback.upstream_sni_override)
           = s.upstream_sni_override
      /\ usize_value(form, "flush_rows", fallback.flush_rows) = s.flush_rows
      /\ http_mode_from_form(form, "http_mode", fallback.http_mode) = s.http_mode
  BY <1>1, <1>2, PageFields DEF text_value, path_value, optional_text_value, usize_value,
                                http_mode_from_form, Given, form
<1>4. comma_list(form, "header_denylist", fallback.header_denylist) = s.header_denylist
  <2>1. s.header_denylist \in Seq(Words)
    BY <1>1, ListsAreSequences, FormAssumption
  <2>. QED
    BY <2>1, PageFields, WordsAreKept, BlankIsDropped DEF comma_list, Given, form
<1>5. Given(form, "trust_proxy_headers") = s.trust_proxy_headers
  BY <1>1, PageFields DEF Given, form
<1>. QED
  BY <1>1, <1>3, <1>4, <1>5 DEF runtime_from_form, form

-----------------------------------------------------------------------------
(* The rules form.                                                           *)

(* A rule is read back as it was shown.                                       *)
LEMMA RuleRoundTrip ==
  ASSUME NEW r \in TransformRuleFile PROVE RuleFromForm(r) = r
BY DEF TransformRuleFile, Article, RuleFromForm

(* So is a list of rules, whatever was saved meanwhile: transform_count says  *)
(* how many there are.                                                        *)
THEOREM RulesRoundTrip ==
  ASSUME NEW rules \in Seq(TransformRuleFile), NEW fallback
  PROVE  transforms_from_form(TransformsPage(rules), fallback) = rules
<1>1. DOMAIN rules = 1..Len(rules) /\ rules = [i \in 1..Len(rules) |-> rules[i]]
  OBVIOUS
<1>2. \A i \in 1..Len(rules) : RuleFromForm(rules[i]) = rules[i]
  BY RuleRoundTrip
<1>. QED
  BY <1>1, <1>2 DEF transforms_from_form, TransformsPage

(* The rules that are read from a form are as many as it counts, or as there  *)
(* were.                                                                      *)
LEMMA RulesTyped ==
  ASSUME NEW R, blank_transform \in R, NEW values, values.articles \in Seq(Article),
         \A i \in DOMAIN values.articles : RuleFromForm(values.articles[i]) \in R,
         values.counted \in BOOLEAN, NEW fallback, Len(fallback) \in Nat
  PROVE  /\ transforms_from_form(values, fallback) \in Seq(R)
         /\ Len(transforms_from_form(values, fallback))
              = IF values.counted THEN Len(values.articles) ELSE Len(fallback)
<1>. DEFINE n == IF values.counted THEN Len(values.articles) ELSE Len(fallback)
<1>1. n \in Nat
  OBVIOUS
<1>2. transforms_from_form(values, fallback) \in [1..n -> R]
  BY DEF transforms_from_form
<1>. QED
  BY <1>1, <1>2

(* Every button makes a list of rules of one.                                 *)
LEMMA EditTyped ==
  ASSUME NEW R, blank_transform \in R, NEW draft \in Seq(R), NEW button,
         NEW index \in Nat
  PROVE  apply_editor_action(draft, button, index) \in Seq(R)
<1>1. CASE button = "add_transform"
  BY <1>1 DEF apply_editor_action
<1>2. ASSUME NEW i \in 1..Len(draft), NEW j \in 1..Len(draft)
      PROVE  Swapped(draft, i, j) \in Seq(R)
  <2>1. draft \in [1..Len(draft) -> R] /\ Len(draft) \in Nat
    OBVIOUS
  <2>2. Swapped(draft, i, j) \in [1..Len(draft) -> R]
    BY <2>1 DEF Swapped
  <2>. QED
    BY <2>1, <2>2
<1>3. CASE button = "move_transform_up" /\ index > 0 /\ index < Len(draft)
  <2>1. index \in 1..Len(draft) /\ index + 1 \in 1..Len(draft)
    BY <1>3
  <2>2. apply_editor_action(draft, button, index) = Swapped(draft, index + 1, index)
    BY <1>3 DEF apply_editor_action
  <2>. QED
    BY <1>2, <2>1, <2>2
<1>4. CASE button = "move_transform_down" /\ index + 1 < Len(draft)
  <2>1. index + 1 \in 1..Len(draft) /\ index + 2 \in 1..Len(draft)
    BY <1>4
  <2>2. apply_editor_action(draft, button, index) = Swapped(draft, index + 1, index + 2)
    BY <1>4 DEF apply_editor_action
  <2>. QED
    BY <1>2, <2>1, <2>2
<1>5. CASE button = "remove_transform" /\ index < Len(draft)
  BY <1>5 DEF apply_editor_action, RemoveAt
<1>6. CASE /\ button # "add_transform"
           /\ ~ (button = "move_transform_up" /\ index > 0 /\ index < Len(draft))
           /\ ~ (button = "move_transform_down" /\ index + 1 < Len(draft))
           /\ ~ (button = "remove_transform" /\ index < Len(draft))
  BY <1>6 DEF apply_editor_action
<1>. QED
  BY <1>1, <1>3, <1>4, <1>5, <1>6

(* The index of the last article, or 0.                                       *)
LEMMA IndexTyped ==
  ASSUME NEW values, values.articles \in Seq(Article) PROVE editor_index(values) \in Nat
BY DEF editor_index
=============================================================================
