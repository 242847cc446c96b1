----------------------------- MODULE MCDocuments -----------------------------
(***************************************************************************)
(* Caption documents for CaptionPages: families of small ones, each about  *)
(* one thing that documents do, and unsound ones.                          *)
(***************************************************************************)
EXTENDS Integers, Sequences, TLC

CONSTANTS None, Invalid

Red == <<255, 0, 0, 255>>
Pale == <<170, 255, 255, 128>>
Dark == <<0, 0, 0, 128>>
-----------------------------------------------------------------------------
(* How documents are put together.                                         *)

Text(chars) == [tag |-> "text", chars |-> chars]

Node(tag, style, kids) ==
  [tag |-> tag, id |-> None, begin |-> None, end |-> None, region |-> None, refs |-> <<>>,
   style |-> style, kids |-> kids]

Span(style, kids) == Node("span", style, kids)
Timed(node, begin, end) == [node EXCEPT !.begin = begin, !.end = end]
In(node, region) == [node EXCEPT !.region = region]
Refers(node, refs) == [node EXCEPT !.refs = refs]

Definition(id, refs, style) == [id |-> id, refs |-> refs, style |-> style]

Normal == [size |-> <<144, 144>>]
Middle == [size |-> <<72, 144>>]
Small  == [size |-> <<72, 72>>]
Odd    == [size |-> <<100, 90>>, spacing |-> 12, height |-> 130]

Box(writing) == [origin |-> <<400, 200>>, extent |-> <<1600, 900>>, writing |-> writing]

Styles ==
  <<Definition("red", <<>>, [color |-> Red, bold |-> TRUE]),
    Definition("base", <<>>, Normal @@ [color |-> Pale, spacing |-> 16]),
    Definition("both", <<"base", "red">>, [underline |-> TRUE]),
    Definition("blink", <<>>, [animation |-> "flash"]),
    Definition("steady", <<>>, [animation |-> "fade"]),
    Definition("again", <<"again">>, Normal)>>

Regions ==
  <<Definition("box", <<>>, Box("lrtb")),
    Definition("wall", <<>>, Box("tbrl")),
    Definition("styled", <<"base">>, [italic |-> TRUE, bottom |-> TRUE]),
    Definition("far", <<"red">>, [origin |-> <<80, 1600>>, extent |-> <<800, 400>>] @@ Small),
    Definition("half", <<>>, [origin |-> <<0, 0>>])>>

Paragraph(kids) == In(Node("p", Normal, kids), "box")

Doc(paragraphs) ==
  [styles |-> Styles, regions |-> Regions, flashing |-> {"flash"},
   div |-> Node("div", <<>>, paragraphs)]

As(doc, mode) == [doc |-> doc, mode |-> mode, scale |-> 4, sound |-> TRUE]

Plain(kids) == As(Doc(<<Paragraph(kids)>>), "untimed")
Unsound(doc) == [As(doc, "sync") EXCEPT !.sound = FALSE]
-----------------------------------------------------------------------------
(* The families.                                                           *)

\* White space and line breaks in and around spans.
Snippets == {<<"x">>, <<" ">>, <<" ", "y">>, <<"z", " ">>, <<"x", "br">>, <<"br", " ", "y">>}

White ==
  {Plain(<<Text(<<" ", "a", " ">>), Span(<<>>, <<Text(one), Span(Middle, <<Text(two)>>)>>),
           Text(three)>>) : one, two, three \in Snippets}

\* When two spans come and go, one inside of the other or after it.
Moments == {<<None, None>>, <<0, 3>>, <<1, None>>, <<2, 4>>, <<None, 2>>, <<3, 3>>, <<5, 9>>}

Times ==
  LET outer(t, kids) == Timed(Span([color |-> Red], kids), t[1], t[2])
      inner(u) == Timed(Span(Small, <<Text(<<"b">>)>>), u[1], u[2])
      div(p) == [Doc(<<p, Paragraph(<<Text(<<"c">>)>>)>>) EXCEPT !.div.begin = 1, !.div.end = 8]
  IN {As(Doc(<<Paragraph(<<outer(t, <<Text(<<"a">>), inner(u)>>)>>)>>), "sync") :
        t, u \in Moments}
     \cup {As(div(Timed(Paragraph(<<outer(t, <<Text(<<"a">>)>>), inner(u)>>), 1, 6)), m) :
             t \in Moments, u \in Moments, m \in {"sync", "async"}}

\* Where a style comes from.
References == {<<>>, <<"red">>, <<"base">>, <<"red", "base">>, <<"both", "red">>, <<"blink">>,
               <<"blink", "steady">>}

Inherited ==
  LET span(refs, style, region) ==
        In(Refers(Span(style, <<Text(<<"a">>),
                                Span([italic |-> TRUE], <<Text(<<"b">>)>>)>>), refs), region)
      p(refs, outer, style, region, place) ==
        In(Refers(Node("p", Normal, <<span(outer, style, region)>>), refs), place)
  IN {Plain(<<>>)} \cup
     {As(Doc(<<p(refs, outer, style, region, place)>>), "untimed") :
        refs \in References, outer \in References,
        style \in {<<>>, [color |-> Dark, background |-> Pale, right |-> TRUE, top |-> TRUE,
                          outline |-> [color |-> None]]},
        region \in {None, "styled"}, place \in {"box", "far"}}

\* One style after another, in both directions of writing.
Sizes == {Normal, Middle, Small, Odd}

Laid ==
  {[As(Doc(<<In(Node("p", <<>>, <<Span(Normal, <<Text(<<"w">>)>>),
                                  Span(first @@ extra, <<Text(<<"1", "2">>)>>),
                                  Span(second, <<Text(<<"ya", "dot", "br", "3">>)>>)>>), region)>>),
       "untimed") EXCEPT !.scale = scale] :
     first \in Sizes, second \in Sizes, region \in {"box", "wall"}, scale \in {2, 4, 8},
     extra \in {<<>>, [spacing |-> 20, height |-> 200, left |-> TRUE,
                       outline |-> [color |-> Red]]}}

\* A paragraph that is left out, between two that are not.
Missing ==
  LET unsized == In(Node("p", <<>>, <<Text(<<"u">>)>>), "box")
      mixed == Paragraph(<<In(Span(<<>>, <<Text(<<"m">>)>>), "styled"), Text(<<"n">>)>>)
      alone == In(Node("p", Normal, <<In(Span(<<>>, <<Text(<<"f">>)>>), "far")>>), None)
  IN {As(Doc(<<Paragraph(<<Text(<<"a">>)>>), p, Timed(alone, 2, 4)>>), m) :
        p \in {unsized, mixed, Paragraph(<<Text(<<"br">>)>>)}, m \in {"sync", "async", "untimed"}}

Refused ==
  LET p(kids) == Doc(<<Paragraph(<<Text(<<"a">>)>>), Paragraph(kids)>>)
      one(node) == p(<<node, Text(<<"b">>)>>)
      span == Span(<<>>, <<Text(<<"c">>)>>)
  IN {Unsound(doc) : doc \in
        {one(Refers(span, <<"unknown">>)), one(Refers(span, <<"again">>)),
         one([span EXCEPT !.id = "red"]), one(Timed(span, 1, Invalid)),
         one(Span([color |-> Invalid], <<>>)), one(Span([size |-> <<144, 145>>], <<>>)),
         one(In(span, "nowhere")), p(<<In(span, "half")>>),
         Doc(<<Node("p", Normal, <<Text(<<"a">>)>>)>>),
         one(Span(<<>>, <<Span(<<>>, <<Span(<<>>, <<Text(<<"d">>)>>)>>)>>))}}

MCDocuments == White \cup Times \cup Inherited \cup Laid \cup Missing \cup Refused

MCVerticalForms == [c \in {"dot"} |-> "dotV"]
MCSmallKana == {"ya"}
MCGlyphs == {"dotV", "z"}
-----------------------------------------------------------------------------
(* Outlines for GlyphDrawing, on a grid that no middle of a dot is on.     *)

Move(p) == [kind |-> "move", to |-> p]
Line(p) == [kind |-> "line", to |-> p]
Cubic(c, d, p) == [kind |-> "cubic", c1 |-> c, c2 |-> d, to |-> p]
Quad(c, p) == [kind |-> "quad", c1 |-> c, to |-> p]
Close == [kind |-> "close"]
Arc == [kind |-> "arc"]

Square(p, side) ==
  <<Move(p), Line(<<p[1] + side, p[2]>>), Line(<<p[1] + side, p[2] + side>>),
    Line(<<p[1], p[2] + side>>), Close>>
Hole(p, side) ==
  <<Move(p), Line(<<p[1], p[2] + side>>), Line(<<p[1] + side, p[2] + side>>),
    Line(<<p[1] + side, p[2]>>), Close>>

MCOutlines ==
  [o \in {"ring", "cross", "kite", "wave", "drop", "open", "again", "line", "arc"} |->
     CASE o = "ring"  -> Square(<<0, 0>>, 3) \o Hole(<<1, 1>>, 1)
       [] o = "cross" -> Square(<<0, 1>>, 2) \o Square(<<1, 0>>, 2)
       [] o = "kite"  -> <<Move(<<0, 0>>), Line(<<2, 1>>), Line(<<3, 3>>), Line(<<1, 2>>), Close>>
       [] o = "wave"  -> <<Move(<<0, 0>>), Cubic(<<0, 0>>, <<1, 3>>, <<3, 3>>),
                           Cubic(<<5, 3>>, <<6, 1>>, <<6, 0>>), Line(<<5, -1>>),
                           Cubic(<<5, -1>>, <<2, -3>>, <<0, 0>>), Close>>
       [] o = "drop"  -> <<Move(<<2, 0>>), Quad(<<6, 2>>, <<3, 3>>), Quad(<<0, 4>>, <<0, 3>>),
                           Cubic(<<0, 3>>, <<0, 0>>, <<1, 1>>), Quad(<<1, 1>>, <<2, 0>>)>>
       [] o = "open"  -> <<Move(<<3, 0>>), Line(<<3, 3>>), Line(<<0, 3>>), Line(<<1, 1>>)>>
       [] o = "again" -> Square(<<0, 0>>, 1) \o <<Line(<<0, 3>>), Line(<<-2, 3>>), Close>>
       [] o = "line"  -> <<Move(<<0, 0>>), Line(<<0, 3>>), Close>>
       [] o = "arc"   -> <<Move(<<0, 0>>), Line(<<3, 0>>), Arc, Line(<<0, 3>>), Close>>]

Glyph(unicode, range, outline) == [unicode |-> unicode, range |-> range, outline |-> outline]

\* A resource for each outline, and ones that name their characters in other ways.
MCResources ==
  {[fonts |-> <<[face |-> None, glyphs |-> <<Glyph("g", None, o)>>]>>, glyphs |-> <<>>] :
     o \in DOMAIN MCOutlines}
  \cup
  {[fonts |-> <<[face |-> "g", glyphs |-> <<Glyph(None, None, "kite"), Glyph("h", "g", "ring"),
                                           Glyph(None, "k", "cross"), Glyph("g", None, None)>>],
               [face |-> "k", glyphs |-> <<Glyph(None, None, "open")>>]>>, glyphs |-> <<>>],
   [fonts |-> <<[face |-> None, glyphs |-> <<Glyph(None, None, "kite")>>]>>,
    glyphs |-> <<Glyph("g", None, "ring"), Glyph(None, "h", "cross")>>]}
=============================================================================
