----------------------------- MODULE ConfigForm -----------------------------
(* src/src/admin.rs: how the two editor pages show a config file, and what   *)
(* the handlers make of the form a browser posts; with the validation of     *)
(* config.rs and transform.rs that a save has to pass.                       *)
(*                                                                           *)
(* A posted form is the HashMap the extractor builds: a function whose       *)
(* domain is the names that were sent. Texts are words; the empty string     *)
(* stands for white space too.                                               *)
EXTENDS Naturals, SequencesExt

CONSTANTS Words,      \* texts that are not blank
          Malformed,  \* those that do not parse as what they should be
          MaxRules,   \* bound: transform rules in a file
          MaxNames    \* bound: names in a list

Blank == ""
None == "None"
Numbers == {"0", "1", "2"}
HttpModes == {"auto", "http1", "http2"}
Matchers == {"any", "url_glob", "content_type_glob"}
Targets == {"any", "body", "all_headers", "header", "cookies"}

ASSUME FormAssumption ==
  /\ Malformed \subseteq Words
  /\ Words \cap ({Blank, None} \cup Numbers) = {}
  /\ MaxRules \in Nat /\ MaxNames \in Nat

\* One member for each way admin.rs reads one; the others are read alike.
RuntimeSettingsFile ==
  [listen_addr : Words \cup {Blank}, sqlite_path : Words,
   upstream_sni_override : Words \cup {None}, flush_rows : Numbers,
   http_mode : HttpModes, trust_proxy_headers : BOOLEAN,
   header_denylist : BoundedSeq(Words, MaxNames)]

\* A TransformEditor article may fill in fields its rule has no use for.
Article ==
  [matcher : Matchers, pattern : Words \cup {Blank}, from : Words \cup {Blank},
   target : Targets, name : Words \cup {Blank}, stop : BOOLEAN]

\* A matcher without a pattern and a target without a name hold Blank there.
TransformRuleFile ==
  { r \in Article :
      /\ r.matcher = "any" => r.pattern = Blank
      /\ r.target # "header" => r.name = Blank }

AppConfigFile ==
  [runtime : RuntimeSettingsFile, transforms : BoundedSeq(TransformRuleFile, MaxRules)]

-----------------------------------------------------------------------------
(* Validation: AppConfigFile::to_runtime_config. A malformed path is one that *)
(* cannot be read, or whose directory cannot be made.                        *)

\* Mutant: rules are compiled when they are used.
ValidSettingsOnly(c) ==
  /\ {c.runtime.sqlite_path, c.runtime.listen_addr, c.runtime.upstream_sni_override}
       \cap Malformed = {}
  /\ c.runtime.listen_addr # Blank
  /\ c.runtime.flush_rows # "0"

ValidSettings(s) ==
  /\ s.sqlite_path \notin Malformed
  /\ s.listen_addr \notin Malformed \cup {Blank}
  /\ s.upstream_sni_override \notin Malformed
  /\ s.flush_rows # "0"

\* TransformRule::try_from. An empty glob is a glob.
ValidRule(r) ==
  /\ r.pattern \notin Malformed
  /\ r.from # Blank
  /\ r.target = "header" => r.name \notin Malformed \cup {Blank}

\* to_runtime_config accepts the file.
Valid(c) == ValidSettings(c.runtime) /\ \A i \in DOMAIN c.transforms : ValidRule(c.transforms[i])

-----------------------------------------------------------------------------
(* The settings form.                                                        *)

Given(values, key) == key \in DOMAIN values

text_value(values, key, fallback) ==
  IF Given(values, key) THEN values[key] ELSE fallback

path_value(values, key, fallback) ==
  IF Given(values, key) /\ values[key] # Blank THEN values[key] ELSE fallback

optional_text_value(values, key, fallback) ==
  IF ~ Given(values, key) THEN fallback
  ELSE IF values[key] = Blank THEN None ELSE values[key]

usize_value(values, key, fallback) ==
  IF Given(values, key) /\ values[key] \in Numbers THEN values[key] ELSE fallback

http_mode_from_form(values, key, fallback) ==
  IF Given(values, key) /\ values[key] \in HttpModes THEN values[key] ELSE fallback

\* filter: what is not blank, in order.
NotBlank(pieces) ==
  LET kept[n \in 0..Len(pieces)] ==
        IF n = 0 THEN <<>>
        ELSE IF pieces[n] = Blank THEN kept[n - 1] ELSE Append(kept[n - 1], pieces[n])
  IN kept[Len(pieces)]

\* A list travels as the pieces between its commas.
comma_list(values, key, fallback) ==
  IF Given(values, key) THEN NotBlank(values[key]) ELSE fallback

\* Mutant: a checkbox that is not sent keeps its value.
runtime_from_form_sticky(values, fallback) ==
  [listen_addr |-> text_value(values, "listen_addr", fallback.listen_addr),
   sqlite_path |-> path_value(values, "sqlite_path", fallback.sqlite_path),
   upstream_sni_override |->
     optional_text_value(values, "upstream_sni_override", fallback.upstream_sni_override),
   flush_rows |-> usize_value(values, "flush_rows", fallback.flush_rows),
   http_mode |-> http_mode_from_form(values, "http_mode", fallback.http_mode),
   trust_proxy_headers |->
     Given(values, "trust_proxy_headers") \/ fallback.trust_proxy_headers,
   header_denylist |-> comma_list(values, "header_denylist", fallback.header_denylist)]

\* An unchecked checkbox is not sent at all.
runtime_from_form(values, fallback) ==
  [listen_addr |-> text_value(values, "listen_addr", fallback.listen_addr),
   sqlite_path |-> path_value(values, "sqlite_path", fallback.sqlite_path),
   upstream_sni_override |->
     optional_text_value(values, "upstream_sni_override", fallback.upstream_sni_override),
   flush_rows |-> usize_value(values, "flush_rows", fallback.flush_rows),
   http_mode |-> http_mode_from_form(values, "http_mode", fallback.http_mode),
   trust_proxy_headers |-> Given(values, "trust_proxy_headers"),
   header_denylist |-> comma_list(values, "header_denylist", fallback.header_denylist)]

\* RuntimeConfigPage: the form a browser posts when nothing is changed.
RuntimeConfigPage(s) ==
  [key \in (DOMAIN s) \ (IF s.trust_proxy_headers THEN {} ELSE {"trust_proxy_headers"}) |->
     CASE key = "trust_proxy_headers" -> "true"
       [] key = "upstream_sni_override" -> IF s[key] = None THEN Blank ELSE s[key]
       [] key = "header_denylist" -> IF s[key] = <<>> THEN <<Blank>> ELSE s[key]
       [] OTHER -> s[key]]

-----------------------------------------------------------------------------
(* The rules form: its TransformEditor articles, in order, and whether the    *)
(* hidden transform_count was sent.                                          *)

blank_transform ==
  [matcher |-> "any", pattern |-> Blank, from |-> Blank, target |-> "body",
   name |-> Blank, stop |-> FALSE]

\* matcher_from_form and target_from_form drop what their type has no use for.
RuleFromForm(article) ==
  [article EXCEPT !.pattern = IF article.matcher = "any" THEN Blank ELSE @,
                  !.name = IF article.target = "header" THEN @ ELSE Blank]

transforms_from_form(values, fallback) ==
  [i \in 1 .. (IF values.counted THEN Len(values.articles) ELSE Len(fallback)) |->
     IF i \in DOMAIN values.articles THEN RuleFromForm(values.articles[i])
                                     ELSE blank_transform]

TransformsPage(rules) == [articles |-> rules, counted |-> TRUE]

\* Every article sends its index, counted from 0, under the same name, whichever
\* button was pressed; the HashMap keeps the last. Without one, it is 0.
editor_index(values) ==
  IF values.articles = <<>> THEN 0 ELSE Len(values.articles) - 1

Swapped(s, i, j) == [s EXCEPT ![i] = s[j], ![j] = s[i]]

apply_editor_action(draft, button, index) ==
  CASE button = "add_transform" -> Append(draft, blank_transform)
    [] button = "move_transform_up" /\ index > 0 /\ index < Len(draft)
         -> Swapped(draft, index + 1, index)
    [] button = "move_transform_down" /\ index + 1 < Len(draft)
         -> Swapped(draft, index + 1, index + 2)
    [] button = "remove_transform" /\ index < Len(draft) -> RemoveAt(draft, index + 1)
    [] OTHER -> draft
=============================================================================
