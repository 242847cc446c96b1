---------------------------- MODULE TtmlDocument ----------------------------
(***************************************************************************)
(* An ARIB-TTML document from its elements to the spans of its paragraphs: *)
(* ttml/parser.cpp, which flattens nested spans and collapses white space, *)
(* and ttml/resolver.cpp, which finds the style and the times of each.     *)
(*                                                                         *)
(* A style is a function from the properties that are set to their values; *)
(* XML and the spelling of values are left out, a value that cannot be     *)
(* read is Invalid.                                                        *)
(***************************************************************************)
EXTENDS Integers, Sequences, SequencesExt

CONSTANTS
  MaxSpanDepth,  \* kMaxSpanDepth
  Invalid, None

Space == " "
Break == "br"   \* among the characters of a text: <br/>

Normal == -1    \* NormalLineHeight

White == <<255, 255, 255, 255>>
Clear == <<0, 0, 0, 0>>
-----------------------------------------------------------------------------
(* Styles.                                                                 *)

NoStyle == <<>>

Geometry == {"origin", "extent"}

\* merge_style: what the source sets wins.
Merge(target, source) == source @@ target

\* inherited_style: all but the geometry.
InheritedStyle(style) == Restrict(style, DOMAIN style \ Geometry)

InitialStyle ==
  [color |-> White, background |-> Clear, height |-> Normal, spacing |-> 0,
   underline |-> FALSE, bold |-> FALSE, italic |-> FALSE, outline |-> None,
   writing |-> "lrtb"]

\* <p> and <span> have no geometry; what they say of it is not even read.
InScope(style, scope) == IF scope = "content" THEN InheritedStyle(style) ELSE style

\* parse_style_properties
Readable(style, scope) ==
  \A p \in DOMAIN InScope(style, scope) :
    IF p = "size" THEN \A i \in 1..2 : style.size[i] \in 16..144 ELSE style[p] # Invalid

\* Only for styles and regions: keyframes are known when the whole head is read.
ResolveFlashing(doc, definition) ==
  IF "animation" \in DOMAIN definition.style
  THEN [definition EXCEPT !.style =
          Merge(@, [flashing |-> definition.style.animation \in doc.flashing])]
  ELSE definition
-----------------------------------------------------------------------------
(* Spans.  Nested ones become one span for each run of characters.         *)

OwnSpan(node) ==
  [begin |-> node.begin, end |-> node.end, region |-> node.region, enclosing |-> <<>>,
   refs |-> node.refs, style |-> InheritedStyle(node.style)]

Later(time, by) == IF None \in {time, by} THEN time ELSE time + by
Earliest(time, limit) ==
  IF time = None \/ (limit # None /\ limit < time) THEN limit ELSE time

\* The styling of the spans around it comes first; its times are relative to the
\* span around it, which it does not outlast.
InsideOf(parent, span) ==
  [span EXCEPT
     !.enclosing = Append(parent.enclosing, [refs |-> parent.refs, style |-> parent.style]),
     !.region = IF @ = None THEN parent.region ELSE @,
     !.begin  = IF @ = None THEN parent.begin ELSE Later(@, parent.begin),
     !.end    = Earliest(Later(@, parent.begin), parent.end)]

Piece(span, chars) == span @@ [chars |-> chars]

RECURSIVE ParseSpan(_, _)

\* A run ends where a nested span begins; an empty span counts as one.
ParseSpan(node, span) ==
  LET flush(acc) == IF acc.some THEN Append(acc.done, Piece(span, acc.run)) ELSE acc.done
      step(acc, kid) ==
        IF kid.tag = "span"
        THEN [done |-> flush(acc) \o ParseSpan(kid, InsideOf(span, OwnSpan(kid))),
              run |-> <<>>, some |-> FALSE]
        ELSE [acc EXCEPT !.run = @ \o kid.chars, !.some = TRUE]
  IN flush(FoldLeft(step, [done |-> <<>>, run |-> <<>>, some |-> node.kids = <<>>], node.kids))

AnonymousSpan ==
  [begin |-> None, end |-> None, region |-> None, enclosing |-> <<>>, refs |-> <<>>,
   style |-> NoStyle]

\* parse_p: text between the spans of a paragraph goes into spans without a style.
ParseSpans(kids) ==
  LET step(acc, kid) ==
        IF kid.tag = "span"
        THEN [spans |-> acc.spans \o ParseSpan(kid, OwnSpan(kid)), anonymous |-> FALSE]
        ELSE IF acc.anonymous
        THEN [acc EXCEPT !.spans = Append(Front(@), [Last(@) EXCEPT !.chars = @ \o kid.chars])]
        ELSE [spans |-> Append(acc.spans, Piece(AnonymousSpan, kid.chars)), anonymous |-> TRUE]
  IN FoldLeft(step, [spans |-> <<>>, anonymous |-> FALSE], kids).spans

\* EachSpanByItself is a mistake that the code could have been written with.
AtLineStart == [start |-> TRUE, pending |-> FALSE, chars |-> <<>>]

Collapse(acc, c) ==
  CASE c = Break -> [start |-> TRUE, pending |-> FALSE, chars |-> Append(acc.chars, c)]
    [] c = Space -> [acc EXCEPT !.pending = TRUE]
    [] OTHER -> [start |-> FALSE, pending |-> FALSE,
                 chars |-> acc.chars \o (IF acc.pending /\ ~acc.start THEN <<Space, c>> ELSE <<c>>)]

EachSpanByItself(spans) ==
  [i \in DOMAIN spans |->
     [spans[i] EXCEPT !.chars = FoldLeft(Collapse, AtLineStart, @).chars]]

\* White space becomes one space, and none at the ends of a line, whatever spans it is in.
NormalizeWhitespace(spans) ==
  LET step(acc, span) ==
        LET line == FoldLeft(Collapse, [acc.line EXCEPT !.chars = <<>>], span.chars)
        IN [line |-> line, spans |-> Append(acc.spans, [span EXCEPT !.chars = line.chars])]
  IN FoldLeft(step, [line |-> AtLineStart, spans |-> <<>>], spans).spans
-----------------------------------------------------------------------------
(* The parser.                                                             *)

RECURSIVE Elements(_)
Elements(node) ==
  <<node>> \o (IF node.tag = "text" THEN <<>>
               ELSE FlattenSeq([i \in DOMAIN node.kids |-> Elements(node.kids[i])]))

RECURSIVE Depth(_)
Depth(node) ==
  LET below == IF node.tag = "text" THEN {} ELSE {Depth(node.kids[i]) : i \in DOMAIN node.kids}
      most == IF below = {} THEN 0 ELSE CHOOSE d \in below : \A e \in below : e <= d
  IN most + IF node.tag = "span" THEN 1 ELSE 0

\* A document is refused as a whole for any error in it.
Parses(doc, timed) ==
  LET heads == doc.styles \o doc.regions
      inner == SelectSeq(Elements(doc.div), LAMBDA e : e.tag # "text")
      ids == SelectSeq([i \in DOMAIN heads |-> heads[i].id]
                         \o [i \in DOMAIN inner |-> inner[i].id], LAMBDA id : id # None)
  IN /\ IsInjective(ids)
     /\ \A i \in DOMAIN heads : Readable(heads[i].style, "layout")
     /\ \A i \in DOMAIN inner : /\ Readable(inner[i].style, "content")
                                /\ timed => Invalid \notin {inner[i].begin, inner[i].end}
     /\ Depth(doc.div) <= MaxSpanDepth

Untimed(node) == [node EXCEPT !.begin = None, !.end = None]

ParseParagraph(node) ==
  [begin |-> node.begin, end |-> node.end, region |-> node.region, refs |-> node.refs,
   style |-> InheritedStyle(node.style), spans |-> NormalizeWhitespace(ParseSpans(node.kids))]
-----------------------------------------------------------------------------
(* The resolver.                                                           *)

Offset(time) == IF time = None THEN 0 ELSE time

\* resolve_timing: [begin, end, ok]; what begins when its parent has ended is not ok.
ResolveTiming(timing, parent) ==
  LET begin == IF timing.begin = None THEN parent.begin ELSE Offset(parent.begin) + timing.begin
      own   == IF timing.end = None THEN parent.end ELSE Offset(parent.begin) + timing.end
      end   == Earliest(own, parent.end)
  IN [begin |-> begin, end |-> end,
      ok |-> /\ begin # None /\ parent.end # None => begin < parent.end
             /\ end # None => Offset(begin) < end]

Always == [begin |-> None, end |-> None]

Definition(defs, id) ==
  LET i == SelectInSeq(defs, LAMBDA def : def.id = id) IN IF i = 0 THEN None ELSE defs[i]

RECURSIVE ApplyRefs(_, _, _), ResolveStyle(_, _, _)

\* [ok, style]: the later of two references wins.
ApplyRefs(doc, refs, resolving) ==
  FoldLeft(LAMBDA acc, ref :
             LET r == ResolveStyle(doc, ref, resolving)
             IN [ok |-> acc.ok /\ r.ok, style |-> Merge(acc.style, r.style)],
           [ok |-> TRUE, style |-> NoStyle], refs)

\* An unknown style, and one that refers to itself, is an error.
ResolveStyle(doc, id, resolving) ==
  LET def == Definition(doc.styles, id)
  IN IF def = None \/ id \in resolving THEN [ok |-> FALSE, style |-> NoStyle]
     ELSE LET refs == ApplyRefs(doc, def.refs, resolving \cup {id})
          IN [refs EXCEPT !.style = Merge(@, ResolveFlashing(doc, def).style)]

\* [ok, region]
ResolveRegion(doc, id) ==
  LET def == Definition(doc.regions, id)
  IN IF id = None THEN [ok |-> TRUE, region |-> None]
     ELSE IF def = None THEN [ok |-> FALSE, region |-> None]
     ELSE LET refs == ApplyRefs(doc, def.refs, {})
          IN [ok |-> refs.ok,
              region |-> [id |-> id,
                          style |-> Merge(refs.style, ResolveFlashing(doc, def).style)]]

\* What a region says of text.
RegionStyle(region) == IF region = None THEN NoStyle ELSE InheritedStyle(region.style)

\* [ok, all]: what has been resolved, if all of it could be.
Together(ok, results) ==
  [ok |-> ok /\ \A i \in DOMAIN results : results[i].ok,
   all |-> [i \in DOMAIN results |-> results[i].value]]

\* A span, [ok, value]; layers are what the spans around it refer to.
StyledSpan(span, paragraphStyle, timing, region, refs, layers) ==
  LET layer(i) == InheritedStyle(Merge(layers[i].style, span.enclosing[i].style))
      around == FoldLeft(LAMBDA style, i : Merge(style, layer(i)),
                         Merge(InheritedStyle(paragraphStyle), RegionStyle(region.region)),
                         [i \in DOMAIN layers |-> i])
  IN [ok |-> region.ok /\ refs.ok /\ \A i \in DOMAIN layers : layers[i].ok,
      value |-> [begin |-> timing.begin, end |-> timing.end, region |-> region.region,
                 style |-> Merge(InitialStyle, Merge(Merge(around, refs.style), span.style)),
                 chars |-> span.chars]]

ResolveSpan(doc, span, paragraphStyle, timing) ==
  StyledSpan(span, paragraphStyle, timing, ResolveRegion(doc, span.region),
             ApplyRefs(doc, span.refs, {}),
             [i \in DOMAIN span.enclosing |-> ApplyRefs(doc, span.enclosing[i].refs, {})])

\* The spans of a paragraph but for those that never show.
ResolveSpans(doc, spans, style, timing) ==
  LET timed == SelectSeq(spans, LAMBDA s : ResolveTiming(s, timing).ok)
  IN [i \in DOMAIN timed |-> ResolveSpan(doc, timed[i], style, ResolveTiming(timed[i], timing))]

\* A paragraph, [ok, value].
StyledParagraph(doc, paragraph, timing, region, refs) ==
  LET style == Merge(Merge(RegionStyle(region.region), refs.style), paragraph.style)
      paragraphOf(spans) == [ok |-> spans.ok,
                             value |-> [region |-> region.region, spans |-> spans.all]]
  IN paragraphOf(Together(region.ok /\ refs.ok,
                          ResolveSpans(doc, paragraph.spans, style, timing)))

ResolveParagraph(doc, paragraph, timing) ==
  StyledParagraph(doc, paragraph, timing, ResolveRegion(doc, paragraph.region),
                  ApplyRefs(doc, paragraph.refs, {}))

\* The paragraphs that show at some time; without a time control all do at all times.
ShownParagraphs(doc, timed, division) ==
  LET own(node) == IF timed THEN node ELSE Untimed(node)
      clear(p) == IF timed THEN p ELSE [p EXCEPT !.spans = [s \in DOMAIN @ |-> Untimed(@[s])]]
      at(p) == ResolveTiming(own(p), division)
      all == [i \in DOMAIN doc.div.kids |-> ParseParagraph(doc.div.kids[i])]
      resolve(shown) == [i \in DOMAIN shown |-> ResolveParagraph(doc, clear(shown[i]), at(shown[i]))]
  IN IF division.ok THEN resolve(SelectSeq(all, LAMBDA p : at(p).ok)) ELSE <<>>

\* [ok, all]: the paragraphs of a document; mode is "sync", "async" or, if there is no
\* time control, "untimed".
Resolve(doc, mode) ==
  LET timed == mode = "sync"
      division == IF timed THEN ResolveTiming(doc.div, Always) ELSE Always @@ [ok |-> TRUE]
  IN IF Parses(doc, timed) THEN Together(TRUE, ShownParagraphs(doc, timed, division))
     ELSE [ok |-> FALSE, all |-> <<>>]

=============================================================================
