-------------------------- MODULE MCResultMapping --------------------------
(***************************************************************************)
(* Responses for ResultMapping: one field at a time takes every value its  *)
(* conversion tells apart, the others stay at a plain one, and the number  *)
(* of results goes from none to three.                                     *)
(***************************************************************************)
EXTENDS ResultMapping

(* Around each boundary of the kept code points: 8206, 8234 and 8294 are   *)
(* U+200E, U+202A and U+2066.                                              *)
CodePoints ==
  {0, 8, 9, 10, 11, 13, 14, 31, 32, 97, 126, 127, 128, 8205, 8206, 8207, 8208,
   8233, 8234, 8238, 8239, 8293, 8294, 8297, 8298}

Plain == <<97>>
Hidden == <<8234, 97, 8238>>
MCTexts == {<<>>, Hidden} \cup {<<97, p, 98>> : p \in CodePoints}

Link == [text |-> "http", parses |-> TRUE, scheme |-> "http", string |-> "http/"]
MCURLs ==
  {Link,
   [text |-> "https", parses |-> TRUE, scheme |-> "https", string |-> "https/"],
   [text |-> "data", parses |-> TRUE, scheme |-> "data", string |-> "data/"],
   [text |-> "script", parses |-> TRUE, scheme |-> "javascript", string |-> "script/"],
   [text |-> "relative", parses |-> TRUE, scheme |-> "", string |-> "relative/"],
   [text |-> "", parses |-> TRUE, scheme |-> "", string |-> ""],
   [text |-> "http broken", parses |-> FALSE, scheme |-> "", string |-> ""]}

Dated(layout, day) == [text |-> layout, layout |-> layout, day |-> day]
MCDates ==
  {Dated("RFC3339", "1 Jan"), Dated("datetime", "2 Jan"), Dated("date", "3 Jan"),
   [text |-> "soon", layout |-> "none", day |-> ""], [text |-> "", layout |-> "none", day |-> ""]}

Result ==
  [text |-> [f \in {"title", "content", "engine", "category"} |-> Plain], url |-> Link,
   imgSrc |-> {}, source |-> {}, publishedDate |-> {}, pubdate |-> {}]

MCResults ==
  {[Result EXCEPT !.text[f] = s] : f \in DOMAIN Result.text, s \in MCTexts}
    \cup {[Result EXCEPT !.url = u] : u \in MCURLs}
    \cup {[Result EXCEPT !.imgSrc = {u}] : u \in MCURLs}
    \cup {[Result EXCEPT !.source = {s}] : s \in MCTexts}
    \cup {[Result EXCEPT !.publishedDate = o, !.pubdate = p] :
             o \in Optional(MCDates), p \in Optional(MCDates)}

Infobox ==
  [text |-> [f \in {"id", "content", "engine"} |-> Plain], url |-> Link, imgSrc |-> {},
   attributes |-> <<>>, urls |-> <<>>, details |-> 0]

Few == {<<>>, Plain, Hidden}

MCInfoboxes ==
  {[Infobox EXCEPT !.text[f] = s] : f \in DOMAIN Infobox.text, s \in Few}
    \cup {[Infobox EXCEPT !.url = u, !.imgSrc = {v}] : u \in MCURLs, v \in MCURLs}
    \cup {[Infobox EXCEPT !.attributes = <<[key |-> s, value |-> v]>>, !.details = n] :
             s \in Few, v \in Few, n \in 0..1}
    \cup {[Infobox EXCEPT !.urls = <<[title |-> s, url |-> u], [title |-> Plain, url |-> Link]>>] :
             s \in Few, u \in MCURLs}

Response ==
  [query |-> Plain, results |-> <<Result>>, answers |-> <<>>, infoboxes |-> <<>>,
   suggestions |-> <<>>, numberOfResults |-> 7]

(* Three results that differ, so that their order shows. *)
Named(p) == [Result EXCEPT !.text["title"] = <<p>>, !.text["content"] = Hidden]
InOrder == <<Named(97), Named(98), Named(99)>>

MCAnswers == [kind : {"string", "null", "object"}, text : Few]

MCRawResponses ==
  {[Response EXCEPT !.results = <<r, Result>>] : r \in MCResults}
    \cup {[Response EXCEPT !.results = SubSeq(InOrder, 1, n),
                           !.numberOfResults = m] : n \in 0..3, m \in {0, 7}}
    \cup {[Response EXCEPT !.infoboxes = <<b, Infobox>>] : b \in MCInfoboxes}
    \cup {[Response EXCEPT !.answers = <<a, b>>, !.suggestions = <<s>>, !.query = s] :
             a \in MCAnswers, b \in MCAnswers, s \in Few}

(* No limit, none of the results, fewer, as many and more than there are.  *)
MCLimits == {{}} \cup {{n} : n \in {0, 1, 2, 3, 9}}
=============================================================================
