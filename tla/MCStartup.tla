----------------------------- MODULE MCStartup -----------------------------
(* A small instance of Startup for TLC. *)
EXTENDS Startup

MCNumber == [t \in {"-1", "0", "1", "10", "100", "127", "128"} |->
  CASE t = "-1" -> -1 [] t = "0" -> 0 [] t = "1" -> 1 [] t = "10" -> 10
    [] t = "100" -> 100 [] t = "127" -> 127 [] t = "128" -> 128]

MCDuration == [t \in {"0", "60s", "-1s"} |->
  CASE t = "0" -> 0 [] t = "60s" -> 60 [] t = "-1s" -> -1]

MCURL == [t \in {"http", "token", "ftp", "relative", ""} |->
  CASE t = "http" -> [scheme |-> "http", user |-> "", host |-> "searxng"]
    [] t = "token" -> [scheme |-> "https", user |-> "token", host |-> "searxng"]
    [] t = "ftp" -> [scheme |-> "ftp", user |-> "", host |-> "searxng"]
    [] OTHER -> [scheme |-> "", user |-> "", host |-> ""]]

Base == [[v \in Variables |-> Unset] EXCEPT !["SEARXNG_URL"] = "token"]

Variants ==
  [v \in Variables |->
     CASE v = "SEARXNG_URL" -> {"http", "ftp", "relative", "unparsable", "", Unset}
       [] v \in {"INTERNAL_ADDR", "PROMETHEUS_METRICS_ADDR"} -> {"", ":9090"}
       [] v \in {"RATE_LIMIT_GLOBAL", "RATE_LIMIT_PER_CLIENT"} ->
            {"-1", "0", "1", "127", "128", "many", ""}
       [] v = "WRITE_TIMEOUT" -> {"0", "-1s", ""}
       [] v = "LOG_FORMAT" -> {"", "json", "xml"}
       [] v = "LOG_LEVEL" -> {"", "debug", "error", "loud"}
       [] v = "LOG_FILENAME" -> {"", "server.log"}
       [] v = "MODE" -> {"", "http", "stdio", "grpc"}]

(* Every variable on its own in either mode, the variables of the logger   *)
(* and of the internal address in every combination.                       *)
With(e, v) == {e} \cup {[e EXCEPT ![v] = x] : x \in Variants[v]}
WithAll(es, v) == UNION {With(e, v) : e \in es}

MCEnvironments ==
  LET modes == With(Base, "MODE")
  IN UNION {WithAll(modes, v) : v \in Variables}
       \cup WithAll(WithAll(modes, "LOG_LEVEL"), "LOG_FILENAME")
       \cup WithAll(WithAll(modes, "INTERNAL_ADDR"), "PROMETHEUS_METRICS_ADDR")

(* A plain attribute, one whose key is taken by the level, and a group of  *)
(* two whose keys meet the plain one's below its group.                    *)
Leaf(path, value) == [path |-> path, value |-> value]
MCAttrs ==
  { <<Leaf(<<"id">>, "1")>>, <<Leaf(<<"slog_level">>, "mine")>>,
    <<Leaf(<<"req", "id">>, "2"), Leaf(<<"req", "path">>, "3")>> }
=============================================================================
