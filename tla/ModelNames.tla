----------------------------- MODULE ModelNames -----------------------------
(***************************************************************************)
(* Model names (types/model_id.rs): how the name of a model is taken apart *)
(* into a model and a version, and how it is put together again.           *)
(*                                                                         *)
(* A name is the text a request or the configuration carries after the     *)
(* "provider/" prefix, cut where the code cuts it:                         *)
(*   vendors  the parts in front of a dot ("us", "anthropic"), which only  *)
(*            Bedrock's names have (a dot inside "gemini-2.5" is text);    *)
(*   segs     the segments between dashes;                                 *)
(*   tag      what follows a colon (only Ollama's ids are cut there: for   *)
(*            the others it is the end of the last segment, whose text is  *)
(*            then no version).                                            *)
(* A segment is a word or a number: a number keeps its value and how many  *)
(* digits it was written with, since "4" and "04" are the same month and   *)
(* different text.  The segment Blank stands for a dash with nothing after *)
(* it, at the end of a name.                                               *)
(***************************************************************************)
EXTENDS Integers, Sequences

CONSTANTS
    ThisYear,   \* the year of the clock when a name is parsed
    Words,      \* the words names are made of
    VWords      \* those that begin with the letter v

\* No text at all
NoText == ""

\* The words equal to "latest" and to "preview" but for their case
LatestWords == {"latest", "Latest", "LATEST"}
PreviewWords == {"preview", "Preview", "PREVIEW"}

ASSUME NamesConstants ==
    /\ ThisYear \in 1..9999
    /\ LatestWords \cup PreviewWords \cup VWords \cup {NoText} \subseteq Words
    /\ VWords \cap (LatestWords \cup PreviewWords \cup {NoText}) = {}

Word(w) == [word |-> w, val |-> 0, width |-> 0]
Num(n, k) == [word |-> NoText, val |-> n, width |-> k]
Blank == Word(NoText)

\* A segment has a word or a width, never both; a name is any such segments
Segments == {x \in [word : Words, val : Nat, width : Nat] : x.word = NoText \/ x.width = 0}
Names == [vendors : Seq(Words), segs : Seq(Segments), tag : Words]

Name(segs) == [vendors |-> <<>>, segs |-> segs, tag |-> NoText]

-----------------------------------------------------------------------------
(* Dates *)

NoDate == [fmt |-> "none", y |-> 0, m |-> 0, d |-> 0]

IsLeap(y) == y % 4 = 0 /\ (y % 100 # 0 \/ y % 400 = 0)

DaysIn(y, m) ==
    CASE m = 2 -> IF IsLeap(y) THEN 29 ELSE 28
      [] m \in {4, 6, 9, 11} -> 30
      [] OTHER -> 31

IsDate(y, m, d) == m \in 1..12 /\ d \in 1..DaysIn(y, m)

\* A month or a day as chrono reads it: one or two digits
Short(seg) == seg.width \in 1..2

(***************************************************************************)
(* parse_date: %Y-%m-%d, then %Y%m%d, then %m-%d of this year.  chrono     *)
(* reads at most four digits of a year and does not ask for the padding    *)
(* that it prints: 2024-5-1 and 4-1 are dates, and so is 2024051.          *)
(***************************************************************************)
parse_date(s) ==
    LET k == IF s[1].width = 8 THEN 100 ELSE 10
        compact == [fmt |-> "%Y%m%d", y |-> s[1].val \div (100 * k),
                    m |-> (s[1].val \div k) % 100, d |-> s[1].val % k]
    IN  IF /\ Len(s) = 3
           /\ s[1].width \in 1..4 /\ Short(s[2]) /\ Short(s[3])
           /\ IsDate(s[1].val, s[2].val, s[3].val)
        THEN [fmt |-> "%Y-%m-%d", y |-> s[1].val, m |-> s[2].val, d |-> s[3].val]
        ELSE IF /\ Len(s) = 1 /\ s[1].width \in 7..8
                /\ IsDate(compact.y, compact.m, compact.d)
        THEN compact
        ELSE IF /\ Len(s) = 2 /\ Short(s[1]) /\ Short(s[2])
                /\ IsDate(ThisYear, s[1].val, s[2].val)
        THEN [fmt |-> "%m-%d", y |-> ThisYear, m |-> s[1].val, d |-> s[2].val]
        ELSE NoDate

\* date.format(format), with chrono's padding
DateSegs(date) ==
    CASE date.fmt = "%Y-%m-%d" -> <<Num(date.y, 4), Num(date.m, 2), Num(date.d, 2)>>
      [] date.fmt = "%Y%m%d" -> <<Num(date.y * 10000 + date.m * 100 + date.d, 8)>>
      [] date.fmt = "%m-%d" -> <<Num(date.m, 2), Num(date.d, 2)>>

-----------------------------------------------------------------------------
(* Versions *)

Version(kind, date) == [kind |-> kind, date |-> date]
ImplicitLatest == Version("implicit", NoDate)
Latest == Version("latest", NoDate)
Preview == Version("preview", NoDate)

\* Display for Version
VersionSegs(v) ==
    CASE v.kind = "implicit" -> <<>>
      [] v.kind = "latest" -> <<Word("latest")>>
      [] v.kind = "preview" -> <<Word("preview")>>
      [] v.kind = "previewDate" -> <<Word("preview")>> \o DateSegs(v.date)
      [] v.kind = "date" -> DateSegs(v.date)

\* The version a candidate suffix stands for in the last loop of the parser
SuffixVersion(s) ==
    IF parse_date(s) # NoDate THEN Version("date", parse_date(s))
    ELSE IF Len(s) = 1 /\ s[1].word \in LatestWords THEN Latest
    ELSE IF Len(s) = 1 /\ s[1].word \in PreviewWords THEN Preview
    ELSE ImplicitLatest

Least(S) == CHOOSE i \in S : \A j \in S : i <= j
Greatest(S) == CHOOSE i \in S : \A j \in S : j <= i

(***************************************************************************)
(* Mutation of parse_model_and_version: the shortest suffix is tried       *)
(* first, so that a year is left in the model's name                       *)
(***************************************************************************)
ShortestSuffixFirst(s) ==
    LET after(i) == SubSeq(s, i + 1, Len(s))
        any == {i \in 1..(Len(s) - 1) : SuffixVersion(after(i)) # ImplicitLatest}
        i == Greatest(any)
    IN  IF any = {} THEN [model |-> s, version |-> ImplicitLatest]
        ELSE [model |-> SubSeq(s, 1, i), version |-> SuffixVersion(after(i))]

(***************************************************************************)
(* parse_model_and_version: a dated preview, then the endings "-preview"   *)
(* and "-latest", then the longest suffix that is a full date, then the    *)
(* longest that is any version.                                            *)
(***************************************************************************)
parse_model_and_version(s) ==
    LET after(i) == SubSeq(s, i + 1, Len(s))
        split(i, v) == [model |-> SubSeq(s, 1, i), version |-> v]
        cuts == 1..(Len(s) - 1)
        ends(w) == Len(s) > 1 /\ s[Len(s)].word = w
        previews == {i \in 2..(Len(s) - 1) : s[i].word = "preview"}
        p == Greatest(previews)
        full == {i \in cuts : parse_date(after(i)).fmt \in {"%Y-%m-%d", "%Y%m%d"}}
        any == {i \in cuts : SuffixVersion(after(i)) # ImplicitLatest}
    IN  IF previews # {} /\ parse_date(after(p)) # NoDate
        THEN split(p - 1, Version("previewDate", parse_date(after(p))))
        ELSE IF ends("preview") THEN split(Len(s) - 1, Preview)
        ELSE IF ends("latest") THEN split(Len(s) - 1, Latest)
        ELSE IF full # {} THEN split(Least(full), Version("date", parse_date(after(Least(full)))))
        ELSE IF any # {} THEN split(Least(any), SuffixVersion(after(Least(any))))
        ELSE split(Len(s), ImplicitLatest)

-----------------------------------------------------------------------------
(* Model ids.  A provider is one of the five of the enum or, as Named, any *)
(* other text; an id has the fields of its variant and the others empty.   *)

\* The place of the last "-v" of a Bedrock name
VPlaces(n) == {i \in 2..Len(n.segs) : n.segs[i].word \in VWords}

\* The error that from_str and map_model return in the place of an id
NoModel == [provider |-> "none"]

Id(provider, vendor, vendors, parsed, internal, tag) ==
    [provider |-> provider, vendor |-> vendor, vendors |-> vendors, model |-> parsed.model,
     version |-> parsed.version, internal |-> internal, tag |-> tag]

\* FromStr for ModelIdWithVersion
ModelIdWithVersion(provider, n) ==
    IF n.segs = <<>> \/ n.segs[Len(n.segs)] = Blank THEN NoModel
    ELSE Id(provider, <<>>, n.vendors,
            IF n.tag = NoText THEN parse_model_and_version(n.segs)
            ELSE [model |-> n.segs, version |-> ImplicitLatest],
            <<>>, n.tag)

\* FromStr for OllamaModelId
OllamaModelId(n) ==
    Id("ollama", <<>>, n.vendors, [model |-> n.segs, version |-> ImplicitLatest], <<>>, n.tag)

\* FromStr for BedrockModelId: the first vendor, the model, and from the last "-v" on
BedrockModelId(n) ==
    LET v == Greatest(VPlaces(n))
    IN  IF n.vendors = <<>> \/ VPlaces(n) = {} THEN NoModel
        ELSE Id("bedrock", <<Head(n.vendors)>>, Tail(n.vendors),
                parse_model_and_version(SubSeq(n.segs, 1, v - 1)),
                SubSeq(n.segs, v, Len(n.segs)), n.tag)

\* ModelId::from_str_and_provider
from_str_and_provider(provider, n) ==
    CASE provider = "bedrock" -> BedrockModelId(n)
      [] provider = "ollama" -> OllamaModelId(n)
      [] OTHER -> ModelIdWithVersion(provider, n)

\* Display for ModelId
Display(id) ==
    [vendors |-> id.vendor \o id.vendors,
     segs |-> id.model \o VersionSegs(id.version) \o id.internal,
     tag |-> id.tag]

\* ModelName::from_model: the model without its version, first vendor or tag
from_model(id) ==
    [vendors |-> id.vendors, segs |-> id.model,
     tag |-> IF id.provider = "ollama" THEN NoText ELSE id.tag]
=============================================================================
