--------------------------- MODULE MCAdminConsole ---------------------------
(* Small instances of AdminConsole for TLC.                                   *)
EXTENDS AdminConsole

CONSTANTS t1, t2

MCListenAddr == [c \in Configs |-> c.runtime.listen_addr]

\* A rule whose matcher does not use its pattern, and what is left of it.
Kept == [blank_transform EXCEPT !.from = "a", !.target = "header", !.name = "b"]
Typed == [Kept EXCEPT !.pattern = "b"]

First == [listen_addr |-> "a", sqlite_path |-> "a", upstream_sni_override |-> None,
          flush_rows |-> "1", http_mode |-> "auto", trust_proxy_headers |-> FALSE,
          header_denylist |-> <<>>]
Second == [First EXCEPT !.sqlite_path = "b", !.upstream_sni_override = "b",
                        !.http_mode = "http1", !.trust_proxy_headers = TRUE,
                        !.header_denylist = <<"a">>]
MCSettings ==
  { [s EXCEPT !.trust_proxy_headers = ticked] : s \in {First, Second}, ticked \in BOOLEAN }
MCRules == {Kept, blank_transform}
MCStarts == {[runtime |-> First, transforms |-> <<>>]}
MCTypedRules == {Typed}
\* What makes First into Second; a number that does not parse keeps its value.
MCTypedSettings ==
  {[sqlite_path |-> "b", upstream_sni_override |-> "b", http_mode |-> "http1",
    trust_proxy_headers |-> "true", header_denylist |-> <<Blank, "a">>, flush_rows |-> "many"]}
MCVisits == t1 :> {"config"} @@ t2 :> {"config", "transforms"}
ConsoleSymmetry == Permutations(Saves)
=============================================================================
