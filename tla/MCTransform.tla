---------------------------- MODULE MCTransform ----------------------------
(* A small instance of Transform for TLC: two ordinary texts, a text that    *)
(* cannot be a header value, and the lengths of the bodies.                  *)
EXTENDS Transform

CONSTANTS t1, t2, ctl, one, two

MCLengthOf == [t \in Bodies |-> IF t = t2 THEN two ELSE one]

MCMatchers ==
  [kind : {"everything"}] \cup [kind : {"url_glob"}, hit : BOOLEAN]
  \cup [kind : {"content_type_glob"}, types : {{t2}}]
\* A rule for one header is tried on each kind of header.
MCTargets ==
  { <<m, t, "other">> : m \in MCMatchers, t \in Targets }
  \cup { <<[kind |-> "everything"], "header", n>> : n \in {"content-type", "content-length"} }
MCRules ==
  { [matcher |-> t[1], target |-> t[2], name |-> t[3], from |-> f[1], to |-> f[2], stop |-> s] :
      t \in MCTargets, f \in {<<t1, t2>>, <<t2, ctl>>, <<one, two>>}, s \in BOOLEAN }

\* A content type that a rule can rewrite, cookies that are text or not.
MCResponses ==
  { [headers |-> [n \in Names |-> CASE n = "content-type" -> type
                                    [] n = "set-cookie" -> cookie
                                    [] n = "content-length" -> length
                                    [] n = "other" -> t2],
     body |-> bytes] :
      type \in {Absent, t1, t2}, cookie \in {t1, Binary}, length \in {Absent, one},
      bytes \in {t1, Binary} }
=============================================================================
