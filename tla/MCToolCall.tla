----------------------------- MODULE MCToolCall -----------------------------
(* Small instances of ToolCall for TLC. *)
EXTENDS ToolCall

Input(tool, query, page, maxResults) ==
  [tool |-> tool, query |-> query, page |-> page,
   categories |-> {}, timeRange |-> "", maxResults |-> maxResults]

(* Queries and pages at their limits, one beyond and unset; max_results    *)
(* unset, zero, below and above what SearXNG returns; a search that asks   *)
(* for what a preset would.                                                *)
MCInputs ==
  { Input("search_images", 0, 1, {}),
    Input("search_news", 3, 2, {0}),
    Input("search_videos", 4, 1, {}),
    Input("search_music", 3, 3, {1}),
    Input("search_news", 1, 0, {}),
    Input("search_images", 1, 1, {1}),
    [Input("search", 1, -1, {3}) EXCEPT !.categories = {"news"}, !.timeRange = "month"] }

MCOrigins ==
  { [xRealIP |-> "", xForwardedFor |-> <<>>],
    [xRealIP |-> "client", xForwardedFor |-> <<"proxy">>],
    [xRealIP |-> "", xForwardedFor |-> <<"", "proxy">>] }

Answer(status, text, json, n) ==
  [error |-> FALSE, response |-> TRUE, status |-> status, readable |-> TRUE,
   text |-> text, json |-> json, results |-> n]

Broken(object, error) ==
  [error |-> error, response |-> object, status |-> IF error THEN 0 ELSE 200,
   readable |-> FALSE, text |-> 0, json |-> FALSE, results |-> 0]

(* A body at the limit and one beyond; a page that is not JSON; a redirect;*)
(* an error that brings a body a search response would have; a connection  *)
(* refused, one broken while the body is read.                             *)
MCResponses ==
  { Answer(200, 2, TRUE, 2), Answer(200, 3, TRUE, 3), Answer(200, 2, FALSE, 0),
    Answer(302, 1, FALSE, 0), Answer(503, 1, TRUE, 1),
    Broken(FALSE, TRUE), Broken(TRUE, TRUE), Broken(TRUE, FALSE) }
=============================================================================
