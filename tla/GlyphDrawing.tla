---------------------------- MODULE GlyphDrawing ----------------------------
(***************************************************************************)
(* Glyphs that a broadcaster sends as SVG outlines, from the path in its   *)
(* many notations to the dots of a DRCS pattern (ttml/drcs.cpp).           *)
(*                                                                         *)
(* The code reads the path of an outline stroke by stroke, and each stroke *)
(* may be written in any of the notations that there are for it.           *)
(* Coordinates are whole numbers, Fine of them to the unit of the path, so *)
(* that no division has a remainder.                                       *)
(***************************************************************************)
EXTENDS Integers, FiniteSets, SequencesExt

CONSTANTS
  Outlines,       \* name -> sequence of strokes [kind, to, c1, c2], each point absolute
  Resources,      \* [fonts, glyphs]: fonts are [face, glyphs], glyphs are
                  \* [unicode, range, outline], and None is what is not there
  kFlattenSteps,  \* 18 in the code
  Cell,           \* kDrcsCellSize: 36 in the code
  None

GlyphDrawingAssumption == kFlattenSteps \in Nat \ {0} /\ Cell \in Nat /\ Cell > 2

Fine == 3 * kFlattenSteps * kFlattenSteps * kFlattenSteps

Add(p, q) == <<p[1] + q[1], p[2] + q[2]>>
Sub(p, q) == <<p[1] - q[1], p[2] - q[2]>>
Times(k, p) == <<k * p[1], k * p[2]>>
Third(p) == <<p[1] \div 3, p[2] \div 3>>
-----------------------------------------------------------------------------
(* Paths: sequences of [name, relative, numbers], the name None where the  *)
(* letter is left out, the numbers in pairs where they are points.         *)

Line(p) == [type |-> "LineTo", point |-> p]
Cubic(c, d, p) == [type |-> "CubicTo", point |-> p, control1 |-> c, control2 |-> d]

\* appendQuadratic
Quadratic(from, c, to) ==
  Cubic(Add(from, Times(2, Third(Sub(c, from)))), Add(to, Times(2, Third(Sub(c, to)))), to)

\* AlwaysReflected is a mistake that the code could have been written with.
AlwaysReflected(pen, curve) == Sub(Times(2, pen.current), pen.control)

\* A smooth curve goes on from the one before if that is of the same degree.
Reflected(pen, curve) ==
  IF pen.lastCurve = curve THEN Sub(Times(2, pen.current), pen.control) ELSE pen.current

To(pen, command, point) ==
  [pen EXCEPT !.commands = Append(@, command), !.current = point]

Curved(pen, command, curve, control) ==
  [To(pen, command, command.point) EXCEPT !.lastCurve = curve, !.control = control]

\* Numbers without a letter repeat the command, but for the one that moves.
Named(pen, step) ==
  IF step.name # None THEN step
  ELSE [pen.again EXCEPT !.name = IF @ = "M" THEN "L" ELSE @] @@ step

\* One command of a path with its numbers once (PathParser::parse); an arc, which is
\* not implemented, leaves a fragment.
Command(pen, step) ==
  LET base == IF step.relative THEN pen.current ELSE <<0, 0>>
      at(i) == Add(base, step.numbers[i])
      straight(p) == [To(pen, Line(p), p) EXCEPT !.lastCurve = None]
      n == step.name
  IN CASE n = "M" -> [To(pen, [type |-> "MoveTo", point |-> at(1)], at(1))
                        EXCEPT !.start = at(1), !.lastCurve = None]
       [] n = "L" -> straight(at(1))
       [] n = "H" -> straight(<<base[1] + step.numbers[1], pen.current[2]>>)
       [] n = "V" -> straight(<<pen.current[1], base[2] + step.numbers[1]>>)
       [] n = "C" -> Curved(pen, Cubic(at(1), at(2), at(3)), "C", at(2))
       [] n = "S" -> Curved(pen, Cubic(Reflected(pen, "C"), at(1), at(2)), "C", at(1))
       [] n = "Q" -> Curved(pen, Quadratic(pen.current, at(1), at(2)), "Q", at(1))
       [] n = "T" -> LET c == Reflected(pen, "Q")
                     IN Curved(pen, Quadratic(pen.current, c, at(1)), "Q", c)
       [] n = "Z" -> [To(pen, [type |-> "ClosePath", point |-> pen.start], pen.start)
                        EXCEPT !.lastCurve = None]
       [] n = "A" -> [pen EXCEPT !.complete = FALSE]

Parse(pen, step) ==
  LET named == Named(pen, step)
  IN [Command(pen, named) EXCEPT !.again = [name |-> named.name, relative |-> named.relative]]

NewPen ==
  [commands |-> <<>>, current |-> <<0, 0>>, start |-> <<0, 0>>, control |-> <<0, 0>>,
   lastCurve |-> None, again |-> None, complete |-> TRUE]
-----------------------------------------------------------------------------
(* Patterns.                                                               *)

Bernstein(i) ==
  LET t == i
      s == kFlattenSteps - i
  IN <<s * s * s, 3 * s * s * t, 3 * s * t * t, t * t * t>>

\* A point of a curve; Fine has the factor that the division needs.
OnCurve(from, command, i) ==
  LET b == Bernstein(i)
      all == kFlattenSteps * kFlattenSteps * kFlattenSteps
      mean(k) == (b[1] * from[k] + b[2] * command.control1[k] + b[3] * command.control2[k]
                    + b[4] * command.point[k]) \div all
  IN <<mean(1), mean(2)>>

\* flattenPath: the contours, each a sequence of points.
FlattenPath(commands) ==
  LET extend(paths, points) ==
        IF paths = <<>> THEN <<points>> ELSE Append(Front(paths), Last(paths) \o points)
      step(f, c) ==
        [current |-> c.point,
         paths |-> CASE c.type = "MoveTo" -> Append(f.paths, <<c.point>>)
                     [] c.type \in {"LineTo", "ClosePath"} -> extend(f.paths, <<c.point>>)
                     [] c.type = "CubicTo" ->
                          extend(f.paths, [i \in 1..kFlattenSteps |-> OnCurve(f.current, c, i)])]
  IN FoldLeft(step, [current |-> <<0, 0>>, paths |-> <<>>], commands).paths

\* Positive if a point lies on the left of an edge.
Side(from, to, p) ==
  (to[1] - from[1]) * (p[2] - from[2]) - (p[1] - from[1]) * (to[2] - from[2])

\* EvenOdd is how the code was before.
EvenOdd(paths, p) ==
  LET crosses(path, i) ==
        LET from == path[IF i = 1 THEN Len(path) ELSE i - 1]
            to == path[i]
        IN (from[2] <= p[2]) # (to[2] <= p[2]) /\ (Side(from, to, p) > 0) = (from[2] <= p[2])
  IN Cardinality({<<k, i>> \in UNION {{k} \X DOMAIN paths[k] : k \in DOMAIN paths} :
                    Len(paths[k]) >= 3 /\ crosses(paths[k], i)}) % 2 = 1

\* The nonzero rule: how often the contours go around the point.
PointInPath(paths, p) ==
  LET turn(path, i) ==
        LET from == path[IF i = 1 THEN Len(path) ELSE i - 1]
            to == path[i]
        IN IF from[2] <= p[2] THEN IF to[2] > p[2] /\ Side(from, to, p) > 0 THEN 1 ELSE 0
           ELSE IF to[2] <= p[2] /\ Side(from, to, p) < 0 THEN -1 ELSE 0
      turns(path) == IF Len(path) < 3 THEN 0
                     ELSE FoldLeft(+, 0, [i \in DOMAIN path |-> turn(path, i)])
  IN FoldLeft(+, 0, [k \in DOMAIN paths |-> turns(paths[k])]) # 0

Lowest(paths, k) ==
  CHOOSE v \in {p[k] : p \in UNION {ToSet(paths[i]) : i \in DOMAIN paths}} :
    \A i \in DOMAIN paths : \A j \in DOMAIN paths[i] : v <= paths[i][j][k]
Highest(paths, k) ==
  CHOOSE v \in {p[k] : p \in UNION {ToSet(paths[i]) : i \in DOMAIN paths}} :
    \A i \in DOMAIN paths : \A j \in DOMAIN paths[i] : v >= paths[i][j][k]

\* Where the middle of a dot is in the outline, which fills the cell but for a dot on
\* each side; rational numbers are [over, by].
Inside(lowest, size, dot, fit) ==
  [over |-> (2 * dot + 1 - Cell) * fit.size + size * fit.dots + 2 * fit.dots * lowest,
   by |-> 2 * fit.dots]

\* rasterizeGlyph: the dots that are set, {} also where the code sends no pattern.
RasterizeGlyph(pen) ==
  LET paths == FlattenPath(pen.commands)
      low == <<Lowest(paths, 1), Lowest(paths, 2)>>
      size == <<Highest(paths, 1) - low[1], Highest(paths, 2) - low[2]>>
      fit == [dots |-> Cell - 2, size |-> IF size[1] >= size[2] THEN size[1] ELSE size[2]]
      source(x, y) == <<Inside(low[1], size[1], x, fit).over,
                        Inside(low[2], size[2], Cell - 1 - y, fit).over>>
      larger == [k \in DOMAIN paths |-> [i \in DOMAIN paths[k] |-> Times(2 * fit.dots, paths[k][i])]]
  IN IF ~pen.complete \/ paths = <<>> THEN {}
     ELSE IF size[1] = 0 \/ size[2] = 0 THEN {}
     ELSE {<<x, y>> \in (0..(Cell - 1)) \X (0..(Cell - 1)) : PointInPath(larger, source(x, y))}
-----------------------------------------------------------------------------
(* Resources: which outline is that of a character                         *)
(* (parse_svg_glyph_resource).                                             *)

FirstOf(seq) == LET i == SelectInSeq(seq, LAMBDA v : v # None) IN IF i = 0 THEN None ELSE seq[i]

\* [code -> outline] of glyphs, a later one taking the place of an earlier one; face is
\* what the font says of all its glyphs.
Collect(known, glyphs, face) ==
  FoldLeft(LAMBDA m, g : LET code == FirstOf(<<g.unicode, g.range, face>>)
                         IN IF code = None \/ g.outline = None THEN m ELSE (code :> g.outline) @@ m,
           known, glyphs)

\* If the fonts have none, glyphs are looked for everywhere.
ParseResource(resource) ==
  LET ofFonts == FoldLeft(LAMBDA m, font : Collect(m, font.glyphs, font.face), <<>>, resource.fonts)
  IN IF ofFonts # <<>> THEN ofFonts ELSE Collect(<<>>, resource.glyphs, None)
-----------------------------------------------------------------------------
(* Strokes, and the notations of each.                                     *)

VARIABLES
  resource,  \* what is received
  code,      \* the character that is drawn of it
  strokes,   \* what is still to be read of its path
  pen,       \* what the parser has made of the path so far
  contours,  \* history: what it means
  before     \* history: the stroke before, and how it was written

vars == <<resource, code, strokes, pen, contours, before>>

Larger(p) == Times(Fine, p)

Here == IF contours = <<>> THEN <<0, 0>> ELSE Last(Last(contours))

Step(name, relative, points) ==
  [name |-> name, relative |-> relative,
   numbers |-> IF relative THEN [i \in DOMAIN points |-> Sub(points[i], Here)] ELSE points]

\* The names and points of a stroke; smooth ones are of its predecessor's degree, or
\* begin without a bend.
Names(stroke) ==
  LET to == Larger(stroke.to)
      bends == IF before.stroke.kind # stroke.kind THEN Here
               ELSE Sub(Times(2, Here),
                        Larger(IF stroke.kind = "quad" THEN before.stroke.c1 ELSE before.stroke.c2))
  IN CASE stroke.kind = "move" -> {<<"M", <<to>>>>}
       [] stroke.kind = "line" -> {<<"L", <<to>>>>}
       [] stroke.kind = "cubic" ->
            {<<"C", <<Larger(stroke.c1), Larger(stroke.c2), to>>>>}
              \cup (IF Larger(stroke.c1) = bends THEN {<<"S", <<Larger(stroke.c2), to>>>>} ELSE {})
       [] stroke.kind = "quad" ->
            {<<"Q", <<Larger(stroke.c1), to>>>>}
              \cup (IF Larger(stroke.c1) = bends THEN {<<"T", <<to>>>>} ELSE {})
       [] stroke.kind = "close" -> {<<"Z", <<>>>>}
       [] stroke.kind = "arc" -> {<<"A", <<>>>>}

\* Lines along an axis have a number only.
AxisSteps(stroke) ==
  LET to == Larger(stroke.to)
      delta == Sub(to, Here)
  IN IF stroke.kind # "line" THEN {}
     ELSE {[name |-> n, relative |-> r,
            numbers |-> <<IF r THEN delta[k] ELSE to[k]>>] :
             r \in BOOLEAN,
             <<n, k>> \in {<<m, j>> \in {<<"H", 1>>, <<"V", 2>>} : delta[3 - j] = 0}}

Spelled(stroke) ==
  AxisSteps(stroke) \cup {Step(n[1], r, n[2]) : n \in Names(stroke), r \in BOOLEAN}

\* The letter may be left out if it is that of the stroke before, or of a line after
\* that of a move.
Notations(stroke) ==
  LET goesOn(s) == /\ s.relative = before.relative /\ s.name \notin {"Z", "M", "A"}
                   /\ s.name = (IF before.name = "M" THEN "L" ELSE before.name)
  IN Spelled(stroke) \cup {[s EXCEPT !.name = None] : s \in {t \in Spelled(stroke) : goesOn(t)}}

\* What a stroke means: a point of a curve is a mean of means.
MeanOf(points, i) ==
  LET between(p, q) == Add(Times(kFlattenSteps - i, p), Times(i, q))
      level[n \in Nat] == IF n = 0 THEN points
                          ELSE [k \in 1..(Len(points) - n) |->
                                  between(level[n - 1][k], level[n - 1][k + 1])]
      all == level[Len(points) - 1][1]
      parts == kFlattenSteps ^ (Len(points) - 1)
  IN <<all[1] \div parts, all[2] \div parts>>

Meant(stroke) ==
  LET through == CASE stroke.kind = "cubic" -> <<stroke.c1, stroke.c2, stroke.to>>
                   [] stroke.kind = "quad" -> <<stroke.c1, stroke.to>>
                   [] OTHER -> <<>>
      points == <<Here>> \o [i \in DOMAIN through |-> Larger(through[i])]
      more == CASE stroke.kind = "line" -> <<Larger(stroke.to)>>
                [] stroke.kind = "close" -> <<Last(contours)[1]>>
                [] OTHER -> [i \in 1..kFlattenSteps |-> MeanOf(points, i)]
  IN CASE stroke.kind = "move" -> Append(contours, <<Larger(stroke.to)>>)
       [] stroke.kind = "arc" -> <<>>
       [] OTHER -> Append(Front(contours), Last(contours) \o more)

Init ==
  /\ resource \in Resources
  /\ code \in DOMAIN ParseResource(resource)
  /\ strokes = Outlines[ParseResource(resource)[code]]
  /\ pen = NewPen /\ contours = <<>>
  /\ before = [stroke |-> [kind |-> None], name |-> None, relative |-> FALSE]

ReadStroke ==
  /\ strokes # <<>> /\ pen.complete
  /\ \E notation \in Notations(Head(strokes)) :
       /\ pen' = Parse(pen, notation)
       /\ before' = [stroke |-> Head(strokes), relative |-> notation.relative,
                     name |-> IF notation.name # None THEN notation.name
                              ELSE IF before.name = "M" THEN "L" ELSE before.name]
  /\ contours' = Meant(Head(strokes))
  /\ strokes' = Tail(strokes)
  /\ UNCHANGED <<resource, code>>

Next == ReadStroke

Spec == Init /\ [][Next]_vars
-----------------------------------------------------------------------------
(* Properties.                                                             *)

\* How often the contours pass below a point to the right, less to the left.
Around(p) ==
  LET edges == UNION {{<<k, i>> : i \in DOMAIN contours[k]} : k \in DOMAIN contours}
      from(e) == contours[e[1]][e[2]]
      to(e) == contours[e[1]][IF e[2] = Len(contours[e[1]]) THEN 1 ELSE e[2] + 1]
      scaled(q) == Times(2 * (Cell - 2), q)
      passes(e) == LET f == scaled(from(e))
                       t == scaled(to(e))
                   IN IF f[1] <= p[1] /\ p[1] < t[1] /\ Side(f, t, p) > 0 THEN 1
                      ELSE IF t[1] <= p[1] /\ p[1] < f[1] /\ Side(f, t, p) < 0 THEN -1 ELSE 0
  IN Cardinality({e \in edges : passes(e) = 1}) - Cardinality({e \in edges : passes(e) = -1})

\* The character that a glyph is sent for, and its font, if it has one.
SentFor(c) ==
  LET all == FlattenSeq([f \in DOMAIN resource.fonts |->
               [g \in DOMAIN resource.fonts[f].glyphs |->
                  <<resource.fonts[f].glyphs[g], resource.fonts[f].face>>]])
               \o [g \in DOMAIN resource.glyphs |-> <<resource.glyphs[g], None>>]
      names(x) == {x[1].unicode} \cup (IF x[1].unicode # None THEN {} ELSE {x[1].range})
      i == SelectLastInSeq(all, LAMBDA x : x[1].outline # None /\
             (c \in names(x) \/ (names(x) = {None} /\ c = x[2])))
  IN all[i][1].outline

\* However its path is written, a character gets the pattern of the outline that was
\* sent for it: a dot is set if the contours go around its middle, however often, and
\* in the cell the outline is centred and as large as it can be.
PatternIsOutline ==
  strokes = <<>> =>
    /\ ParseResource(resource)[code] = SentFor(code)
    /\ RasterizeGlyph(pen) =
         IF contours = <<>> THEN {}
         ELSE LET paths == contours
                  lo(k) == Lowest(paths, k)
                  hi(k) == Highest(paths, k)
                  size == IF hi(1) - lo(1) >= hi(2) - lo(2) THEN hi(1) - lo(1) ELSE hi(2) - lo(2)
                  at(dot, k) == (lo(k) + hi(k)) * (Cell - 2) + (2 * dot + 1 - Cell) * size
              IN {<<x, y>> \in (0..(Cell - 1)) \X (0..(Cell - 1)) :
                    Around(<<at(x, 1), at(Cell - 1 - y, 2)>>) # 0}

=============================================================================
