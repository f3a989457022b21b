--------------------------- MODULE ResultMapping ---------------------------
(***************************************************************************)
(* What becomes of a search response: the SearXNG client converts the      *)
(* decoded JSON (toDomain), searchHelper truncates, sanitises and formats  *)
(* it for the MCP client.                                                  *)
(*                                                                         *)
(* A text is a sequence of code points.  A URL and a date are what         *)
(* url.Parse and time.Parse, external, make of them.  An optional value is *)
(* a set of at most one.                                                   *)
(***************************************************************************)
EXTENDS Integers, Sequences, FiniteSetsExt

CONSTANTS
  RawResponses,  \* decoded answers of SearXNG, see ResponseType
  Limits         \* values of max_results, an optional number

Text == Seq(Nat)
Optional(S) == {o \in SUBSET S : \A x, y \in o : x = y}

(* string: what url.URL.String makes of it. *)
URLType == [text : STRING, parses : BOOLEAN, scheme : STRING, string : STRING]

(* layout: the layout of formatDate that parses the date, "none" if none   *)
(* does; day: as written.                                                  *)
DateType ==
  {d \in [text : STRING, layout : {"RFC3339", "datetime", "date", "none"}, day : STRING] :
     d.layout # "none" => d.text # "" /\ d.day # ""}

(* text: by field, title, content, engine and category of a result, id,    *)
(* content and engine of an infobox.  Template, avatar and parsed_url go   *)
(* nowhere and are left out.                                               *)
ResultType ==
  [text : [{"title", "content", "engine", "category"} -> Text], url : URLType,
   imgSrc : Optional(URLType), source : Optional(Text),
   publishedDate : Optional(DateType), pubdate : Optional(DateType)]

(* details: the nested infoboxes. *)
InfoboxType ==
  [text : [{"id", "content", "engine"} -> Text], url : URLType, imgSrc : Optional(URLType),
   attributes : Seq([key : Text, value : Text]), urls : Seq([title : Text, url : URLType]),
   details : Nat]

(* text: of a JSON string what it holds, of another value its compact JSON. *)
AnswerType == [kind : {"string", "null", "object"}, text : Text]

ResponseType ==
  [query : Text, results : Seq(ResultType), answers : Seq(AnswerType),
   infoboxes : Seq(InfoboxType), suggestions : Seq(Text), numberOfResults : Int]

Elements(s) == {s[k] : k \in DOMAIN s}

(* The links of a response, and of an output. *)
LinksOf(o) ==
  {r.url : r \in Elements(o.results)}
    \cup UNION {{b.url} \cup {u.url : u \in Elements(b.urls)} : b \in Elements(o.infoboxes)}

(* A URL as url.URL.String writes it begins with its scheme. *)
ASSUME InputsAssumption ==
  /\ RawResponses \subseteq ResponseType /\ Limits \subseteq Optional(Nat)
  /\ \A r \in RawResponses : \A u, v \in LinksOf(r) :
       u.string = v.string /\ u.string # "" => u.scheme = v.scheme

VARIABLES
  stage,
  raw,         \* what SearXNG answered
  maxResults,  \* the client's limit
  response,    \* the domain's SearchResponse
  output       \* what the client gets

vars == <<stage, raw, maxResults, response, output>>

Map(f(_), s) == [k \in DOMAIN s |-> f(s[k])]

-----------------------------------------------------------------------------
(* models.go *)

PublishedDate(r) ==
  IF r.publishedDate = {} /\ r.pubdate # {} THEN r.pubdate ELSE r.publishedDate

ResultToDomain(r) ==
  [text |-> r.text, url |-> r.url, imgSrc |-> r.imgSrc, source |-> r.source,
   publishedDate |-> PublishedDate(r)]

(* rawAnswerToString: null decodes into a string without an error. *)
AnswerToString(a) == IF a.kind = "null" THEN <<>> ELSE a.text

ToDomain(r) ==
  [query |-> r.query, results |-> Map(ResultToDomain, r.results),
   answers |-> Map(AnswerToString, r.answers), infoboxes |-> r.infoboxes,
   suggestions |-> r.suggestions, numberOfResults |-> r.numberOfResults]

-----------------------------------------------------------------------------
(* tools.go *)

KeptWithoutBidi(r) == r \in {9, 10, 13} \/ ~(r < 32 \/ r = 127)

(* sanitizeOutput keeps tab, newline and return, drops the other control   *)
(* characters and the marks, embeddings, overrides and isolates of bidi.   *)
Kept(r) ==
  \/ r \in {9, 10, 13}
  \/ ~(r < 32 \/ r = 127 \/ r \in 8206..8207 \/ r \in 8234..8238 \/ r \in 8294..8297)

(* What strings.Map keeps of the first k code points, for every k. *)
KeptOf(s) ==
  LET kept[k \in 0..Len(s)] ==
        IF k = 0 THEN <<>>
        ELSE IF Kept(s[k]) THEN Append(kept[k - 1], s[k])
        ELSE kept[k - 1]
  IN kept

SanitizeOutput(s) == KeptOf(s)[Len(s)]
SanitizeOutputPtr(o) == {SanitizeOutput(s) : s \in o}

SanitizeURLUnparsed(u) == IF u.text = "" THEN "" ELSE u.string

SanitizeURL(u) ==
  IF u.text # "" /\ u.parses /\ u.scheme \in {"http", "https"} THEN u.string ELSE ""

(* The image's source is passed on as it came; a relative one too. *)
SanitizeImgSrc(o) ==
  {u.text : u \in {v \in o : v.parses /\ v.scheme \in {"", "http", "https", "data"}}}

(* formatDate: "" for want of a date that one of the layouts parses. *)
FormatDate(o) ==
  IF \E d \in o : d.text # "" /\ d.layout # "none" THEN (CHOOSE d \in o : TRUE).day ELSE ""

Item(r) ==
  [text |-> [f \in DOMAIN r.text |-> SanitizeOutput(r.text[f])],
   url |-> SanitizeURL(r.url),
   publishedDate |-> r.publishedDate,
   formattedDate |-> FormatDate(r.publishedDate),
   imgSrc |-> SanitizeImgSrc(r.imgSrc),
   source |-> SanitizeOutputPtr(r.source)]

AttributeItem(a) == [key |-> SanitizeOutput(a.key), value |-> SanitizeOutput(a.value)]
URLItem(u) == [title |-> SanitizeOutput(u.title), url |-> SanitizeURL(u.url)]

(* buildInfoboxes, which leaves the nested ones out *)
InfoboxItem(b) ==
  [text |-> [f \in DOMAIN b.text |-> SanitizeOutput(b.text[f])],
   url |-> SanitizeURL(b.url), imgSrc |-> SanitizeImgSrc(b.imgSrc),
   attributes |-> Map(AttributeItem, b.attributes), urls |-> Map(URLItem, b.urls)]

TruncatedOffByOne(results) ==
  SubSeq(results, 1, Min({Len(results)} \cup {n + 1 : n \in maxResults}))

(* max_results may be beyond any length, and zero. *)
Truncated(results) == SubSeq(results, 1, Min({Len(results)} \cup maxResults))

ToOutput(d) ==
  [query |-> SanitizeOutput(d.query), results |-> Map(Item, Truncated(d.results)),
   answers |-> Map(SanitizeOutput, d.answers),
   suggestions |-> Map(SanitizeOutput, d.suggestions),
   infoboxes |-> Map(InfoboxItem, d.infoboxes), numberOfResults |-> d.numberOfResults]

-----------------------------------------------------------------------------
None == [numberOfResults |-> -1]

Init ==
  /\ stage = "decoded"
  /\ raw \in RawResponses
  /\ maxResults \in Limits
  /\ response = None
  /\ output = None

(* Client.Search *)
Convert ==
  /\ stage = "decoded" /\ stage' = "converted"
  /\ response' = ToDomain(raw)
  /\ UNCHANGED <<raw, maxResults, output>>

(* searchHelper *)
Build ==
  /\ stage = "converted" /\ stage' = "built"
  /\ output' = ToOutput(response)
  /\ UNCHANGED <<raw, maxResults, response>>

Built == stage = "built" /\ UNCHANGED vars

Next == Convert \/ Build

Spec == Init /\ [][Next \/ Built]_vars

-----------------------------------------------------------------------------
(* What "control chars" and "bidi override chars" are (tools.go:168). *)
Forbidden ==
  ((0..31) \ {9, 10, 13}) \cup {127} \cup 8206..8207 \cup 8234..8238 \cup 8294..8297

(* Every text of an output, and every image. *)
TextsOfInfobox(b) ==
  Elements(b.text) \cup (UNION {{a.key, a.value} : a \in Elements(b.attributes)})
    \cup {u.title : u \in Elements(b.urls)}

TextsOf(o) ==
  {o.query} \cup Elements(o.answers) \cup Elements(o.suggestions)
    \cup (UNION {Elements(r.text) \cup r.source : r \in Elements(o.results)})
    \cup (UNION {TextsOfInfobox(b) : b \in Elements(o.infoboxes)})

ImagesOf(o) ==
  (UNION {r.imgSrc : r \in Elements(o.results)})
    \cup (UNION {b.imgSrc : b \in Elements(o.infoboxes)})

(* Each of the many fields of an output that is built of text has been     *)
(* sanitised, each link is empty or of http or https, and each image is    *)
(* relative or of these or data: none was left out in searchHelper and     *)
(* buildInfoboxes.                                                         *)
OutputClean ==
  stage = "built" =>
    /\ \A s \in TextsOf(output) : Elements(s) \cap Forbidden = {}
    /\ \A l \in LinksOf(output) \ {""} :
         \A u \in LinksOf(raw) : u.string = l => u.scheme \in {"http", "https"}
    /\ \A i \in ImagesOf(output) :
         \E u \in ImagesOf(raw) : u.text = i /\ u.scheme \in {"", "http", "https", "data"}

(* s is t without its forbidden characters, place by place. *)
Cleaned(s, t) ==
  LET place(k) == Cardinality({j \in 1..k : t[j] \notin Forbidden})
  IN /\ Len(s) = place(Len(t))
     /\ \A k \in DOMAIN t : t[k] \notin Forbidden => s[place(k)] = t[k]

(* The date an item shows is SearXNG's, under the name the code prefers,   *)
(* and the formatted date never stands for one that the item lacks.        *)
DatesAgree(item, r) ==
  /\ item.publishedDate = IF r.publishedDate # {} THEN r.publishedDate ELSE r.pubdate
  /\ item.formattedDate # "" => \E d \in item.publishedDate : item.formattedDate = d.day
  /\ item.formattedDate = "" => \A d \in item.publishedDate : d.layout = "none"

(* The client gets the first results in SearXNG's order, as many as there  *)
(* are or as it asked for, each with its own date and texts and no more    *)
(* lost than the forbidden characters; answers, infoboxes, suggestions and *)
(* the number of results are not truncated with them (toDomain,            *)
(* searchHelper).                                                          *)
OutputFaithful ==
  stage = "built" =>
    /\ Len(output.results) <= Len(raw.results)
    /\ maxResults = {} => Len(output.results) = Len(raw.results)
    /\ \A n \in maxResults :
         Len(output.results) = IF n < Len(raw.results) THEN n ELSE Len(raw.results)
    /\ \A k \in DOMAIN output.results :
         /\ DatesAgree(output.results[k], raw.results[k])
         /\ \A f \in DOMAIN raw.results[k].text :
              Cleaned(output.results[k].text[f], raw.results[k].text[f])
    /\ Len(output.answers) = Len(raw.answers)
    /\ \A k \in DOMAIN raw.answers :
         raw.answers[k].kind # "null" => Cleaned(output.answers[k], raw.answers[k].text)
    /\ Len(output.infoboxes) = Len(raw.infoboxes)
    /\ Len(output.suggestions) = Len(raw.suggestions)
    /\ output.numberOfResults = raw.numberOfResults

=============================================================================
