---------------------------- MODULE CaptionPages ----------------------------
(***************************************************************************)
(* What a caption document becomes (ttml/b24_converter.cpp and             *)
(* B24SubtitleConverter::convert), and what a receiver that follows the    *)
(* control codes has on its screen.                                        *)
(*                                                                         *)
(* A control code is a record of its name and its value.  The codes that   *)
(* set an attribute of the characters to come are named for it.  Lengths   *)
(* are in dots of the document, or of the caption plane; positions in      *)
(* vertical text are in Units of a dot of the caption plane.               *)
(***************************************************************************)
EXTENDS TtmlDocument, FiniteSetsExt

CONSTANTS
  Documents,      \* [doc, mode, scale, sound]: scale is how many dots of the document
                  \* make one of the caption plane, mode as in Resolve
  Glyphs,         \* characters drawn as DRCS
  VerticalForms,  \* the characters that vertical text has forms of, and the forms
  SmallKana,
  Decisecond,     \* how many units of time TIME counts as one
  End             \* bound: how long a document is watched

CaptionPagesAssumption ==
  /\ \A d \in Documents : d.mode \in {"sync", "async", "untimed"} /\ d.scale \in {2, 4, 8}
  /\ Decisecond \in Nat \ {0} /\ End \in Nat
-----------------------------------------------------------------------------
(* Colours: <<red, green, blue, alpha>>.                                   *)

Cube(alpha) ==
  LET level == <<0, 85, 170, 255>>
  IN [i \in 1..64 |-> <<level[(i - 1) \div 16 + 1], level[(((i - 1) \div 4) % 4) + 1],
                       level[((i - 1) % 4) + 1], alpha>>]

\* The basic ones are in the order of the bits blue, green, red.
Basic(level, alpha) ==
  [i \in 1..8 |-> <<level * ((i - 1) % 2), level * (((i - 1) \div 2) % 2),
                    level * ((i - 1) \div 4), alpha>>]

Others(alpha) ==
  SelectSeq(Cube(alpha),
            LAMBDA c : {c[1], c[2], c[3]} \notin SUBSET {0, 170} \cup SUBSET {0, 255})

\* kB24ColorCLUT, palette after palette.
kB24ColorCLUT ==
  SubSeq(Basic(255, 255) \o <<Clear>> \o Tail(Basic(170, 255)) \o Others(255)
           \o Basic(255, 128) \o Tail(Basic(170, 128)) \o Others(128), 1, 128)

Distance(c, d) == FoldLeft(+, 0, [i \in 1..4 |-> (c[i] - d[i]) * (c[i] - d[i])])

\* The first of the closest ones.
FindClosestColor(color) ==
  LET clut == kB24ColorCLUT
      nearest == Min({128 * Distance(color, clut[i]) + i - 1 : i \in 1..128})
  IN clut[(nearest % 128) + 1]
-----------------------------------------------------------------------------
(* Lengths.                                                                *)

Unit == 160   \* such that all positions in vertical text are whole

kMaxDots == 65535

\* to_dots of a fraction.
Dots(value, by, minimum) ==
  IF value < minimum * by THEN minimum ELSE Min({(2 * value + by) \div (2 * by), kMaxDots})

\* Of 6/5 of the font size if nothing else is said; in fifths of a dot.
LineHeight(style, font) == IF style.height = Normal THEN 6 * font ELSE 5 * style.height
-----------------------------------------------------------------------------
(* Cues: the spans that are shown, each in its region (CueCollector).      *)

Has(region, property) == region # None /\ property \in DOMAIN region.style
Positioned(region) == Has(region, "origin")
Incomplete(region) == Has(region, "origin") # Has(region, "extent")

HasText(span) == \E i \in DOMAIN span.chars : span.chars[i] # Break

RegionMode(region) ==
  IF region = None THEN "none" ELSE IF Positioned(region) THEN "positioned" ELSE "style only"

\* Every text has a font size, and the spans agree on what regions they refer to.
IsDrawn(paragraph) ==
  /\ \A i \in DOMAIN paragraph.spans :
       HasText(paragraph.spans[i]) => "size" \in DOMAIN paragraph.spans[i].style
  /\ Cardinality({RegionMode(paragraph.spans[i].region) :
                   i \in {j \in DOMAIN paragraph.spans :
                            ~Incomplete(paragraph.spans[j].region)}}) <= 1

\* The span's own copy of a region is another one to each span.
CueOf(paragraph, p, s) ==
  LET span == paragraph.spans[s]
      own  == Positioned(span.region)
  IN [block |-> <<p, IF own THEN s ELSE 0>>, order |-> <<p, s>>,
      begin |-> span.begin, end |-> span.end, style |-> span.style, chars |-> span.chars,
      region |-> IF own THEN span.region
                 ELSE IF Positioned(paragraph.region) THEN paragraph.region ELSE None,
      refused |-> \/ Incomplete(paragraph.region) \/ Incomplete(span.region)
                  \/ ~own /\ ~Positioned(paragraph.region)]

Cues(paragraphs, timed) ==
  LET spans(p) == IF IsDrawn(paragraphs[p]) THEN paragraphs[p].spans ELSE <<>>
      never(span) == timed /\ span.begin # None /\ span.end # None /\ span.end <= span.begin
      all == FlattenSeq([p \in DOMAIN paragraphs |->
                           [s \in DOMAIN spans(p) |-> CueOf(paragraphs[p], p, s)]])
  IN SelectSeq(all, LAMBDA cue : cue.chars # <<>> /\ ~never(cue))
-----------------------------------------------------------------------------
(* Pages: blocks of lines of runs (build_page).                            *)

\* The texts between the line breaks.
Pieces(chars) ==
  FoldLeft(LAMBDA pieces, c : IF c = Break THEN Append(pieces, <<>>)
                              ELSE Append(Front(pieces), Append(Last(pieces), c)),
           <<<<>>>>, chars)

AppendSpan(lines, span) ==
  LET pieces == Pieces(span.chars)
      runs == [i \in DOMAIN pieces |->
                 IF pieces[i] = <<>> THEN <<>> ELSE <<[chars |-> pieces[i], style |-> span.style]>>]
  IN Front(lines) \o <<Last(lines) \o runs[1]>> \o Tail(runs)

BuildPage(cues) ==
  LET step(page, cue) ==
        IF page # <<>> /\ Last(page).block = cue.block
        THEN Append(Front(page), [Last(page) EXCEPT !.lines = AppendSpan(@, cue)])
        ELSE Append(page, [block |-> cue.block, region |-> cue.region,
                           lines |-> AppendSpan(<<<<>>>>, cue)])
  IN FoldLeft(step, <<>>, cues)

IsVertical(block) ==
  "writing" \in DOMAIN block.region.style /\ block.region.style.writing = "tbrl"

VerticalForm(c) == IF c \in DOMAIN VerticalForms THEN VerticalForms[c] ELSE c

\* collect_text: what is encoded on its own; each character if text is vertical.
Chunks(page) ==
  LET of(block, run) == IF IsVertical(block)
                        THEN [i \in DOMAIN run.chars |-> <<VerticalForm(run.chars[i])>>]
                        ELSE <<run.chars>>
  IN FlattenSeq([b \in DOMAIN page |-> FlattenSeq([l \in DOMAIN page[b].lines |->
       FlattenSeq([r \in DOMAIN page[b].lines[l] |-> of(page[b], page[b].lines[l][r])])])])
-----------------------------------------------------------------------------
(* The encoder: [sets, output, next, placed]; sets is what the receiver's  *)
(* attributes are held to be, next the index of the next chunk, placed     *)
(* whether the block has a position.                                       *)

\* reset_state
ResetState ==
  [spacing |-> 4, line |-> 24, composition |-> <<36, 36>>, size |-> "NSZ",
   ornament |-> None, color |-> White, background |-> Clear, underline |-> FALSE,
   enclosure |-> {}, flashing |-> FALSE, font |-> {}]

Restarted == [sets |-> ResetState, output |-> <<>>, next |-> 1, placed |-> FALSE]

Code(name, value) == [name |-> name, value |-> value]

Emit(encoder, name, value) == [encoder EXCEPT !.output = Append(@, Code(name, value))]

\* The functions set_...: nothing is sent that is set already.
Set(encoder, order, wanted) ==
  LET changed == SelectSeq(order, LAMBDA a : encoder.sets[a] # wanted[a])
  IN [encoder EXCEPT !.output = @ \o [i \in DOMAIN changed |-> Code(changed[i], wanted[changed[i]])],
                     !.sets = wanted @@ @]

EmitChunk(encoder, chunks) ==
  [Emit(encoder, "text", chunks[encoder.next]) EXCEPT !.next = @ + 1]

Ornament(style) ==
  IF style.outline = None THEN None
  ELSE FindClosestColor(IF style.outline.color = None THEN style.color ELSE style.outline.color)

Given(style, property) == property \in DOMAIN style /\ style[property] = TRUE

SizeOf(style) ==
  IF style.size = <<72, 144>> THEN "MSZ" ELSE IF style.size = <<72, 72>> THEN "SSZ" ELSE "NSZ"

\* How many times smaller than the composition a character is.
Narrow(size) == IF size = "NSZ" THEN 1 ELSE 2
Low(size)    == IF size = "SSZ" THEN 2 ELSE 1

Composition(style, scale) ==
  LET font == IF SizeOf(style) = "NSZ" THEN style.size ELSE <<144, 144>>
  IN <<Dots(font[1], scale, 1), Dots(font[2], scale, 1)>>

ApplyRunStyle(encoder, style, scale) ==
  Set(encoder,
      <<"composition", "size", "ornament", "color", "background", "underline", "enclosure",
        "flashing", "font">>,
      [composition |-> Composition(style, scale),
       size        |-> SizeOf(style),
       ornament    |-> Ornament(style),
       color       |-> FindClosestColor(style.color),
       background  |-> FindClosestColor(style.background),
       underline   |-> style.underline,
       enclosure   |-> {side \in {"bottom", "right", "top", "left"} : Given(style, side)},
       flashing    |-> Given(style, "flashing"),
       font        |-> {face \in {"bold", "italic"} : style[face]}])

SetSpacing(encoder, spacing, line) ==
  Set(encoder, <<"spacing", "line">>, [spacing |-> spacing, line |-> line])

\* append_extent and append_origin
Area(encoder, region, scale) ==
  Emit(Emit(encoder,
            "SDF", <<region.style.extent[1] \div scale, region.style.extent[2] \div scale>>),
       "SDP", <<Dots(region.style.origin[1], scale, 0), Dots(region.style.origin[2], scale, 0)>>)

\* The code doubles the spacings where it has the cell halved.
EncodeRun(encoder, run, chunks, scale) ==
  LET size == SizeOf(run.style)
      font == run.style.size[2]
      spaced == SetSpacing(encoder, Dots(run.style.spacing * Narrow(size), scale, 0),
                  Dots((LineHeight(run.style, font) - 5 * font) * Low(size), 5 * scale, 0))
      place(e) == IF e.placed THEN e ELSE [Emit(e, "APS", 0) EXCEPT !.placed = TRUE]
  IN EmitChunk(place(ApplyRunStyle(spaced, run.style, scale)), chunks)

\* Runs, and None between two lines.
EncodeLines(encoder, lines, chunks, scale) ==
  LET steps == FlattenSeq([l \in DOMAIN lines |-> IF l < Len(lines) THEN Append(lines[l], None)
                                                  ELSE lines[l]])
      step(e, run) == IF run = None THEN Emit(e, "APR", 0) ELSE EncodeRun(e, run, chunks, scale)
  IN FoldLeft(step, encoder, steps)

\* A column is as wide as the highest line in it.
ColumnWidth(line, scale) ==
  Max({0} \cup {LineHeight(line[r].style, line[r].style.size[1]) * (Unit \div (5 * scale)) :
                  r \in DOMAIN line})

\* The characters of a run from y, the lower end of the character before, down the column.
DrawDown(encoder, y, run, chunks, column) ==
  LET size  == encoder.sets.size
      wide  == encoder.sets.composition[1] * (Unit \div Narrow(size))
      high  == encoder.sets.composition[2] * (Unit \div Low(size))
      step  == high + encoder.sets.line * (Unit \div Low(size))
      x     == column.left + (column.width - wide) \div 2
      pair  == size = "MSZ" /\ Len(run.chars) = 2
      below(i) == y + (IF pair THEN 1 ELSE i) * step
      small(i) == ~pair /\ run.chars[i] \in SmallKana
      right(i) == IF pair THEN (2 * i - 3) * (wide \div 2) ELSE IF small(i) THEN wide \div 8 ELSE 0
      up(i)    == IF small(i) THEN high \div 8 ELSE 0
      drawn(i) == <<Code("ACPS", <<Dots(x + right(i), Unit, 0), Dots(below(i) - up(i), Unit, 0)>>),
                    Code("text", chunks[encoder.next + i - 1])>>
  IN [encoder |-> [encoder EXCEPT !.output = @ \o FlattenSeq([i \in DOMAIN run.chars |-> drawn(i)]),
                                  !.next = @ + Len(run.chars)],
      y |-> below(Len(run.chars))]

EncodeVerticalRun(encoder, y, run, chunks, column, scale) ==
  DrawDown(SetSpacing(ApplyRunStyle(encoder, run.style, scale),
                      0, Dots(run.style.spacing * Low(SizeOf(run.style)), scale, 0)),
           y, run, chunks, column)

\* Each column is on the left of the one before, and has the runs of its line.
EncodeVerticalLines(encoder, block, chunks, scale) ==
  LET area == block.region.style
      per == Unit \div scale
      width == [l \in DOMAIN block.lines |-> ColumnWidth(block.lines[l], scale)]
      left(l) == (area.origin[1] + area.extent[1]) * per - FoldLeft(+, 0, SubSeq(width, 1, l))
      top == area.origin[2] * per
      steps == FlattenSeq([l \in DOMAIN block.lines |-> [r \in DOMAIN block.lines[l] |->
                 [run |-> block.lines[l][r], left |-> left(l), width |-> width[l], first |-> r = 1]]])
      step(c, s) == EncodeVerticalRun(c.encoder, IF s.first THEN top ELSE c.y, s.run, chunks, s, scale)
  IN FoldLeft(step, [encoder |-> encoder, y |-> top], steps).encoder

EncodeBlock(encoder, block, chunks, scale) ==
  IF IsVertical(block) THEN EncodeVerticalLines(encoder, block, chunks, scale)
  ELSE EncodeLines(encoder, block.lines, chunks, scale)

EncodePage(encoder, page, scale) ==
  LET step(e, b) ==
        EncodeBlock([Area(e, b.region, scale) EXCEPT !.placed = FALSE], b, Chunks(page), scale)
  IN FoldLeft(step, Emit(encoder, "SWF", 0), page)

\* take_drcs_data_unit
TakeDrcs(page) == {c \in Glyphs : \E i \in DOMAIN Chunks(page) : Contains(Chunks(page)[i], c)}
-----------------------------------------------------------------------------
(* Statements: [begin, drcs, data], in the order of their times.           *)

ToDeciseconds(time) == time \div Decisecond

\* What begins and what ends at a time.
EventTimes(cues) ==
  LET times == {Offset(cues[i].begin) : i \in DOMAIN cues}
                 \cup ({cues[i].end : i \in DOMAIN cues} \ {None})
  IN [i \in 1..Cardinality(times) |->
        CHOOSE t \in times : Cardinality({u \in times : u < t}) = i - 1]

\* Cues of the time are in the order of the document.
ActiveCues(cues, time) ==
  SelectSeq(cues, LAMBDA cue : Offset(cue.begin) <= time /\ (cue.end = None \/ time < cue.end))

RenderActions(cues) ==
  LET times == EventTimes(cues)
      untimed == \E i \in DOMAIN cues : cues[i].begin = None
  IN [i \in DOMAIN times |->
        [begin |-> IF i = 1 /\ untimed THEN None ELSE times[i],
         delay |-> IF i = 1 THEN 0 ELSE ToDeciseconds(times[i]) - ToDeciseconds(times[i - 1]),
         page  |-> BuildPage(ActiveCues(cues, times[i]))]]

Statement(action, scale) ==
  [begin |-> action.begin, drcs |-> TakeDrcs(action.page),
   data |-> EncodePage(Restarted, action.page, scale).output]

\* TIME waits in steps of at most 63, which add up to the whole delay.
Wait(delay) == IF delay = 0 THEN <<>> ELSE <<Code("TIME", delay)>>

\* The last page clears the screen, which the statement before it can do.
EncodeSync(actions, scale) ==
  LET n == Len(actions)
      clears == n > 1 /\ actions[n].page = <<>>
      pages == [i \in 1..(IF clears THEN n - 1 ELSE n) |-> Statement(actions[i], scale)]
  IN IF n = 0 THEN <<[begin |-> None, drcs |-> {}, data |-> <<>>]>>
     ELSE IF clears
     THEN [pages EXCEPT ![n - 1].data = @ \o Wait(actions[n].delay) \o <<Code("CS", 0)>>]
     ELSE pages

EncodeAsync(cues, scale) ==
  <<Statement([begin |-> None, page |-> BuildPage(cues)], scale)>>

ConvertCues(cues, mode, scale) ==
  IF \E i \in DOMAIN cues : cues[i].refused THEN None
  ELSE IF mode = "async" THEN EncodeAsync(cues, scale)
  ELSE EncodeSync(RenderActions(cues), scale)

ConvertResolved(resolved, mode, scale) ==
  IF ~resolved.ok THEN None
  ELSE ConvertCues(Cues(resolved.all, mode = "sync"), mode, scale)

\* None if the document is refused.
Convert(document) ==
  ConvertResolved(Resolve(document.doc, document.mode), document.mode, document.scale)
-----------------------------------------------------------------------------
(* The receiver.  A statement comes at its time; TIME makes it wait.       *)

VARIABLES
  document,    \* the document that is sent
  statements,  \* what is still to be sent of it, None before it is converted
  codes,       \* what the receiver has not processed of the last statement
  resume,      \* when it will, or None
  now,
  receiver     \* [sets, drcs, area, place, screen]

vars == <<document, statements, codes, resume, now, receiver>>

Blank == [sets |-> ResetState, drcs |-> {}, area |-> <<None, None>>, place |-> <<0>>, screen |-> <<>>]

Draw(r, chars) ==
  [r EXCEPT !.screen = @ \o [i \in DOMAIN chars |->
     [char |-> IF chars[i] \in Glyphs \ r.drcs THEN None ELSE chars[i],
      sets |-> r.sets, area |-> r.area, place |-> r.place]]]

Process(r, code) ==
  CASE code.name = "CS"   -> Blank
    [] code.name = "DRCS" -> [r EXCEPT !.drcs = code.value]
    [] code.name = "SDF"  -> [r EXCEPT !.area[2] = code.value]
    [] code.name = "SDP"  -> [r EXCEPT !.area[1] = code.value]
    [] code.name = "APS"  -> [r EXCEPT !.place = <<0>>]
    [] code.name = "APR"  -> [r EXCEPT !.place = <<@[1] + 1>>]
    [] code.name = "ACPS" -> [r EXCEPT !.place = code.value]
    [] code.name = "text" -> Draw(r, code.value)
    [] code.name \in DOMAIN ResetState -> [r EXCEPT !.sets[code.name] = code.value]
    [] OTHER -> r

\* Up to the first TIME.
ProcessAll(all) ==
  LET i == SelectInSeq(all, LAMBDA code : code.name = "TIME")
  IN /\ receiver' = FoldLeft(Process, receiver, SubSeq(all, 1, IF i = 0 THEN Len(all) ELSE i - 1))
     /\ codes' = IF i = 0 THEN <<>> ELSE SubSeq(all, i + 1, Len(all))
     /\ resume' = IF i = 0 THEN None ELSE now + Decisecond * all[i].value

\* The data units of a statement: the screen is cleared, and the patterns of
\* characters come before the text.
DataUnits(statement) ==
  <<Code("CS", 0)>>
    \o (IF statement.drcs = {} THEN <<>> ELSE <<Code("DRCS", statement.drcs)>>) \o statement.data

Init ==
  /\ document \in Documents
  /\ statements = None /\ codes = <<>> /\ resume = None /\ now = 0 /\ receiver = Blank

ConvertDocument ==
  /\ statements = None
  /\ \E converted \in {Convert(document)} :
       statements' = IF converted = None THEN <<>> ELSE converted
  /\ UNCHANGED <<document, codes, resume, now, receiver>>

StatementIsDue == statements \notin {None, <<>>} /\ Offset(Head(statements).begin) <= now

ReceiveStatement ==
  /\ StatementIsDue
  /\ ProcessAll(DataUnits(Head(statements)))
  /\ statements' = Tail(statements)
  /\ UNCHANGED <<document, now>>

ContinueStatement ==
  /\ resume # None /\ resume <= now
  /\ ProcessAll(codes)
  /\ UNCHANGED <<document, statements, now>>

\* Nothing is left to be done at this time.
Settled == statements # None /\ ~StatementIsDue /\ (resume # None => resume > now)

Tick ==
  /\ Settled /\ now < End
  /\ now' = now + 1
  /\ UNCHANGED <<document, statements, codes, resume, receiver>>

Next == ConvertDocument \/ ReceiveStatement \/ ContinueStatement \/ Tick

Spec == Init /\ [][Next]_vars
-----------------------------------------------------------------------------
(* What the document says, by the places of its characters: each has the   *)
(* nodes it is inside of, the paragraph first.                             *)

RECURSIVE Leaves(_, _)
Leaves(node, path) ==
  LET at == Append(path, node)
  IN FlattenSeq([i \in DOMAIN node.kids |->
       IF node.kids[i].tag = "span" THEN Leaves(node.kids[i], at)
       ELSE LET chars == node.kids[i].chars
            IN [j \in DOMAIN chars |-> [char |-> chars[j], path |-> at]]])

\* Times are relative to the node around, and inside of it.
IsActive(path, t) ==
  LET nodes == <<document.doc.div>> \o path
      start[i \in 0..Len(nodes)] ==
        IF i = 0 THEN 0 ELSE start[i - 1] + Offset(nodes[i].begin)
  IN \/ document.mode # "sync"
     \/ /\ t >= start[Len(nodes)]
        /\ \A i \in DOMAIN nodes : nodes[i].end = None \/ t < start[i - 1] + nodes[i].end

\* All that says something of a node's style, nearest first.
RECURSIVE Sources(_)
Sources(definition) ==
  <<definition.style>>
    \o FlattenSeq([i \in DOMAIN definition.refs |->
                     Sources(Definition(document.doc.styles, Reverse(definition.refs)[i]))])

RegionSources(id) == IF id = None THEN <<>> ELSE Sources(Definition(document.doc.regions, id))

\* The region that the spans around a character refer to, the innermost first.
SpanRegion(path) ==
  LET i == SelectLastInSeq(Tail(path), LAMBDA node : node.region # None)
  IN IF i = 0 THEN None ELSE Tail(path)[i].region

Says(sources, property) ==
  LET i == SelectInSeq(sources, LAMBDA style : property \in DOMAIN style)
  IN IF i = 0 THEN None ELSE sources[i][property]

Style(path) ==
  LET spans == Reverse(Tail(path))
      all == FlattenSeq([i \in DOMAIN spans |-> Sources(spans[i])])
               \o RegionSources(SpanRegion(path))
               \o Sources(path[1]) \o RegionSources(path[1].region) \o <<InitialStyle>>
  IN [property \in DOMAIN InitialStyle
                     \cup {"size", "animation", "bottom", "right", "top", "left"} |->
        Says(all, property)]

AreaOf(region) == [origin |-> Says(RegionSources(region), "origin"),
                   extent |-> Says(RegionSources(region), "extent"),
                   vertical |-> Says(RegionSources(region), "writing") = "tbrl"]

FirstPlaced(areas) == IF areas[1].origin # None THEN areas[1] ELSE areas[2]

\* A region that has no place says something of the style only.
RegionOf(path) ==
  FirstPlaced([i \in 1..2 |-> AreaOf(<<SpanRegion(path), path[1].region>>[i])])

\* White space is shown before a character that follows it, once, unless a line
\* begins with it.
SpaceBefore(leaves, k) ==
  /\ k > 1 /\ leaves[k - 1].char = Space
  /\ \E j \in 1..(k - 1) : /\ leaves[j].char \notin {Space, Break}
                           /\ \A i \in j..k : leaves[i].char # Break

\* The characters and line breaks that are shown at some time.
Written(paragraph) ==
  LET leaves == Leaves(paragraph, <<>>)
  IN FlattenSeq([k \in DOMAIN leaves |->
       IF leaves[k].char = Space THEN <<>>
       ELSE IF SpaceBefore(leaves, k) THEN <<[leaves[k] EXCEPT !.char = Space], leaves[k]>>
       ELSE <<leaves[k]>>])

\* ARIB-TTML has no initial font size, and has the spans of a paragraph refer to
\* regions in one way.
IsWellFormed(written) ==
  LET text == SelectSeq(written, LAMBDA w : w.char # Break)
  IN /\ \A i \in DOMAIN text : Style(text[i].path).size # None
     /\ Cardinality({SpanRegion(text[i].path) = None : i \in DOMAIN text}) <= 1

\* The characters as they are shown: [char, line, style, region].
Shown(active) ==
  LET breaks(i) == Cardinality({j \in 1..i : active[j].char = Break})
      as(w, i) == [char |-> w.char, line |-> breaks(i), style |-> Style(w.path),
                   region |-> RegionOf(w.path)]
      entry(i) == IF active[i].char = Break THEN <<>> ELSE <<as(active[i], i)>>
  IN FlattenSeq([i \in DOMAIN active |-> entry(i)])

WrittenAt(written, t) ==
  IF IsWellFormed(written) THEN Shown(SelectSeq(written, LAMBDA w : IsActive(w.path, t)))
  ELSE <<>>

ShownOf(paragraph, t) == WrittenAt(Written(paragraph), t)

ShownAt(t) ==
  LET paragraphs == document.doc.div.kids
  IN IF ~document.sound THEN <<>>
     ELSE FlattenSeq([p \in DOMAIN paragraphs |-> ShownOf(paragraphs[p], t)])
-----------------------------------------------------------------------------
(* Properties.                                                             *)

\* Within a dot of the caption plane.
Near(dots, length, by) == dots * by - length \in (-by)..by

LooksAs(entry, style, vertical) ==
  LET sets == entry.sets
      scale == document.scale
      font == style.size[2]
  IN /\ sets.color = style.color /\ sets.background = style.background
     /\ sets.underline = style.underline
     /\ sets.font = {face \in {"bold", "italic"} : style[face]}
     /\ sets.flashing = (style.animation \in document.doc.flashing)
     /\ sets.enclosure = {side \in {"bottom", "right", "top", "left"} : style[side] = TRUE}
     /\ sets.ornament = (IF style.outline = None THEN None
                         ELSE IF style.outline.color = None THEN style.color
                         ELSE style.outline.color)
     /\ Near(sets.composition[1], Narrow(sets.size) * style.size[1], scale)
     /\ Near(sets.composition[2], Low(sets.size) * style.size[2], scale)
     /\ IF vertical
        THEN sets.spacing = 0 /\ Near(sets.line, Low(sets.size) * style.spacing, scale)
        ELSE /\ Near(sets.spacing, Narrow(sets.size) * style.spacing, scale)
             /\ Near(sets.line, Low(sets.size) * (LineHeight(style, font) - 5 * font),
                     5 * scale)

\* Columns from the right to the left, characters down them, a pair side by side.
IsBefore(a, b, sameColumn) ==
  LET w(e) == e.sets.composition[1] \div Narrow(e.sets.size)
      h(e) == e.sets.composition[2] \div Low(e.sets.size)
  IN IF ~sameColumn THEN b.place[1] + w(b) <= a.place[1] + 1
     ELSE \/ b.place[2] - h(b) >= a.place[2] - 1
          \/ /\ {a.sets.size, b.sets.size} = {"MSZ"}
             /\ a.place[2] = b.place[2] /\ a.place[1] + w(a) <= b.place[1] + 1

ScreenIs(shown) ==
  LET screen == receiver.screen
      inRegion(area, region) ==
        \A k \in 1..2 : /\ Near(area[1][k], region.origin[k], document.scale)
                        /\ Near(area[2][k], region.extent[k], document.scale)
      isAt(entry, s) ==
        /\ entry.char = (IF s.region.vertical THEN VerticalForm(s.char) ELSE s.char)
        /\ inRegion(entry.area, s.region)
        /\ LooksAs(entry, s.style, s.region.vertical)
        /\ s.region.vertical \/ entry.place = <<s.line>>
      follow(i, j) == /\ i < j /\ shown[i].region = shown[j].region /\ shown[i].region.vertical
                      /\ {shown[i].char, shown[j].char} \cap SmallKana = {}
  IN /\ Len(screen) = Len(shown)
     /\ \A i \in DOMAIN shown : isAt(screen[i], shown[i])
     /\ \A i, j \in DOMAIN shown :
          follow(i, j) => IsBefore(screen[i], screen[j], shown[i].line = shown[j].line)

\* At every time the screen shows the characters that the document has there, each
\* in the style, the region and the line that the document gives it; the end of the
\* last ones may be off by less than TIME can tell.  A document that is not sound
\* shows nothing.
CaptionsAsWritten ==
  Settled =>
    \E t \in {now} \cup (IF statements = <<>> THEN (now - Decisecond + 1)..(now + Decisecond - 1)
                         ELSE {}) :
      t >= 0 /\ ScreenIs(ShownAt(t))

=============================================================================
